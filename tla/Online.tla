------------------------------- MODULE Online -------------------------------
(* Which addresses a subscriber is connected from (online/online.go), as the nodes      *)
(* report them (node/service.go, recordOnline): the registry in memory, the record of    *)
(* addresses in user_devices, and the handlers of a node's stream, of which an old one    *)
(* may still be ending when a newer one reports.                                          *)
EXTENDS Integers, FiniteSets

CONSTANTS
    Reporters,      \* nodes
    Addresses,      \* <<subscriber, address>> pairs
    Ttl,            \* life of a sighting, in intervals of the enforcement loop
    RecordEvery, Keep,  \* DeviceRefreshInterval and DeviceRetention
    MaxStreams      \* bound: streams a node opens

\* DeviceRetention is 30 days, DeviceRefreshInterval 15 minutes, a sighting lives 90 seconds.
ASSUME OnlineAssumption ==
    /\ Ttl \in Nat /\ RecordEvery \in Nat /\ Keep \in Nat /\ MaxStreams \in Nat
    /\ RecordEvery + Ttl <= Keep

VARIABLES
    seen,       \* what each node's kernel sees now
    current,    \* current[n]: the attached stream, 0 when none
    ending,     \* <<n, stream>>: handlers whose deferred cleanup has not run yet
    accepted,     \* streams accepted so far
    sighting,   \* the registry: <<subscriber, address>> -> [node, age] (sparse)
    reporting,  \* reporting[n]: age and completeness of the node's last round
    device      \* user_devices: age of last_seen

ovars == <<seen, current, ending, accepted, sighting, reporting, device>>

Never == Keep + 1
Silent == [age |-> Ttl + 1, complete |-> FALSE]

OnlineInit ==
    /\ seen = [n \in Reporters |-> {}]
    /\ current = [n \in Reporters |-> 0] /\ ending = {} /\ accepted = [n \in Reporters |-> 0]
    /\ sighting = {}
    /\ reporting = [n \in Reporters |-> Silent]
    /\ device = [a \in Addresses |-> Never]

-----------------------------------------------------------------------------
(* The registry.  A sighting is [of, node, age]; one per address of a subscriber. *)

\* The addresses a report takes over: those no other node saw as recently; of two sightings
\* in one interval either is the later one (tie).
newer(n, obs, tie) ==
    {a \in obs : \A s \in sighting : s.of = a /\ s.node # n => s.age > 0 \/ a \in tie}

ReplaceSwapped(n, obs, tie) ==
    {s \in sighting : s.node # n /\ s.of \notin newer(n, obs, tie)}

\* The node's sightings before are dropped, then the report installed.
Replace(n, obs, tie) ==
    {s \in sighting : s.node # n /\ s.of \notin newer(n, obs, tie)}
    \cup {[of |-> a, node |-> n, age |-> 0] : a \in newer(n, obs, tie)}

\* A node that disconnects stops counting at once.
Forget(n) == {s \in sighting : s.node # n}

Counts(a) == \E s \in sighting : s.of = a /\ s.age <= Ttl

-----------------------------------------------------------------------------
(* user_devices *)

\* A repeat sighting is written only when the row is stale enough.
RecordDevice(d) == IF d = Never \/ d >= RecordEvery THEN 0 ELSE d

-----------------------------------------------------------------------------
(* Streams of a node *)

\* Channel: a newer stream replaces the session; the older handler is still to end.
Attach(n) ==
    /\ accepted[n] < MaxStreams
    /\ accepted' = [accepted EXCEPT ![n] = @ + 1]
    /\ current' = [current EXCEPT ![n] = accepted[n] + 1]
    /\ ending' = IF current[n] = 0 THEN ending ELSE ending \cup {<<n, current[n]>>}
    /\ UNCHANGED <<seen, sighting, reporting, device>>

\* The stream breaks.
StreamLost(n) ==
    /\ current[n] # 0
    /\ ending' = ending \cup {<<n, current[n]>>}
    /\ current' = [current EXCEPT ![n] = 0]
    /\ UNCHANGED <<seen, accepted, sighting, reporting, device>>

\* The deferred cleanup: detach (nothing when replaced), then Forget, whoever reports now.
Cleanup(h) ==
    /\ h \in ending /\ ending' = ending \ {h}
    /\ sighting' = Forget(h[1])
    /\ reporting' = [reporting EXCEPT ![h[1]] = Silent]
    /\ UNCHANGED <<seen, current, accepted, device>>

\* recordOnline: a round in full, or cut short after a failed read.  The handler of a stream
\* that was just replaced may take one more frame before it notices.
Report(n, obs) ==
    /\ current[n] # 0 \/ \E h \in ending : h[1] = n
    /\ \E tie \in SUBSET obs : sighting' = Replace(n, obs, tie)
    /\ reporting' = [reporting EXCEPT ![n] = [age |-> 0, complete |-> obs = seen[n]]]
    /\ device' = [a \in Addresses |-> IF a \in obs THEN RecordDevice(device[a]) ELSE device[a]]
    /\ UNCHANGED <<seen, current, ending, accepted>>

ReportRound(n) == current[n] # 0 /\ Report(n, seen[n])
ReportPartial(n) == \E obs \in SUBSET seen[n] : obs # seen[n] /\ Report(n, obs)
ReportLate(n) == (\E h \in ending : h[1] = n) /\ Report(n, seen[n])

\* Subscribers come and go.
Connections(n, S) ==
    /\ seen' = [seen EXCEPT ![n] = S]
    /\ UNCHANGED <<current, ending, accepted, sighting, reporting, device>>

\* One interval of the enforcement loop: everything ages, then PruneDevices and Prune.
Age(k, top) == IF k < top THEN k + 1 ELSE k
PruneTick ==
    /\ sighting' = {s \in {[t EXCEPT !.age = @ + 1] : t \in sighting} : s.age <= Ttl}
    /\ reporting' = [n \in Reporters |->
          IF reporting[n].age + 1 > Ttl THEN Silent ELSE [reporting[n] EXCEPT !.age = @ + 1]]
    /\ device' = [a \in Addresses |-> Age(device[a], Never)]
    /\ UNCHANGED <<seen, current, ending, accepted>>

OnlineNext ==
    \/ PruneTick
    \/ \E n \in Reporters :
          \/ Attach(n) \/ StreamLost(n) \/ ReportRound(n) \/ ReportPartial(n) \/ ReportLate(n)
          \/ \E S \in SUBSET Addresses : Connections(n, S)
    \/ \E h \in ending : Cleanup(h)

\* A connected agent keeps polling and its rounds are read; a handler that was told to end
\* ends.  What subscribers do and how fast time passes is not assumed.
OnlineFairness ==
    /\ \A n \in Reporters : WF_ovars(ReportRound(n))
    /\ \A n \in Reporters, k \in 1..MaxStreams : WF_ovars(Cleanup(<<n, k>>))

OnlineSpec == OnlineInit /\ [][OnlineNext]_ovars /\ OnlineFairness

-----------------------------------------------------------------------------
\* "holding its last view for a further TTL would keep a user online through a node that is
\* plainly gone" (online.go): a sighting belongs to a node some handler still speaks for.
GoneIsForgotten ==
    \A s \in sighting : current[s.node] # 0 \/ \E h \in ending : h[1] = s.node

\* What is counted now is in the record an operator reads later, however often it was pruned.
OnlineIsRecorded == \A s \in sighting : s.age <= Ttl => device[s.of] # Never

\* An address a connected node keeps seeing is counted again and again: the cleanup of an
\* older stream, or another node that saw it too and left, hides it for one round at most.
EventuallyCounted ==
    \A n \in Reporters, a \in Addresses :
        <>[](current[n] # 0 /\ a \in seen[n]) => []<>Counts(a)
=============================================================================
