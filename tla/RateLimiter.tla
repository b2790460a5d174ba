---------------------------- MODULE RateLimiter ----------------------------
(***************************************************************************)
(* The fixed-window budgets of the routes that answer before a credential  *)
(* was checked.  One bucket per route and client address; a map of at most *)
(* MaxBuckets of them.                                                     *)
(*                                                                         *)
(*   buckets  the limiter's map;  now  the clock, in ticks                 *)
(*   granted  history: the requests let through for a key since its        *)
(*            window began or since its bucket was evicted                 *)
(***************************************************************************)
EXTENDS Integers, FiniteSets

CONSTANTS
    Routes, Peers,     \* route names and network peers
    Trusted,           \* the peers whose X-Forwarded-For is believed
    Limit, Window,     \* [Routes -> Nat]: n and window of a route's budget
    MaxBuckets,        \* newLimiter's max
    MaxClock,          \* bound of the clock
    NoHeader

ASSUME LimiterAssumption ==
    /\ Limit \in [Routes -> Nat \ {0}] /\ Window \in [Routes -> Nat]
    /\ MaxBuckets \in Nat \ {0} /\ MaxClock \in Nat

VARIABLES buckets, now, granted

lvars == <<buckets, now, granted>>

\* clientIP: a trusted proxy vouches for the last address it forwarded (NoHeader:
\* no header, or not an address).
ClientIP(peer, forwarded) == IF peer \in Trusted /\ forwarded # NoHeader THEN forwarded ELSE peer

LimiterKeys == Routes \X Peers
NoBucket == [count |-> 0, reset |-> 0]
Held == {k \in LimiterKeys : buckets[k] # NoBucket}
Elapsed(b) == now > b.reset

LimiterInit ==
    /\ buckets = [k \in LimiterKeys |-> NoBucket]
    /\ now = 1
    /\ granted = [k \in LimiterKeys |-> 0]

\* evict: the elapsed buckets, and when that frees nothing one closest to its reset.
Evictions ==
    LET elapsed == {k \in Held : Elapsed(buckets[k])} IN
    IF Cardinality(Held \ elapsed) < MaxBuckets THEN {elapsed}
    ELSE {elapsed \cup {k} : k \in {x \in Held : \A y \in Held : buckets[x].reset <= buckets[y].reset}}

Dropped(ks) == [k \in LimiterKeys |-> IF k \in ks THEN NoBucket ELSE buckets[k]]

\* allow: a new window for an absent or elapsed bucket.
OpenWindow(k) ==
    /\ buckets[k] = NoBucket \/ Elapsed(buckets[k])
    /\ \E out \in (IF Cardinality(Held) >= MaxBuckets THEN Evictions ELSE {{}}) :
         /\ buckets' = [Dropped(out) EXCEPT ![k] = [count |-> 1, reset |-> now + Window[k[1]]]]
         /\ granted' = [x \in LimiterKeys |->
                          IF x = k THEN 1 ELSE IF x \in out THEN 0 ELSE granted[x]]
    /\ UNCHANGED now

\* A mutant for TLC: one request too many.
CountRequestLate(k) ==
    /\ buckets[k] # NoBucket /\ ~Elapsed(buckets[k])
    /\ buckets[k].count <= Limit[k[1]]
    /\ buckets' = [buckets EXCEPT ![k].count = @ + 1]
    /\ granted' = [granted EXCEPT ![k] = @ + 1]
    /\ UNCHANGED now

\* allow: a request that fits the running window.
CountRequest(k) ==
    /\ buckets[k] # NoBucket /\ ~Elapsed(buckets[k])
    /\ buckets[k].count < Limit[k[1]]
    /\ buckets' = [buckets EXCEPT ![k].count = @ + 1]
    /\ granted' = [granted EXCEPT ![k] = @ + 1]
    /\ UNCHANGED now

\* throttle, for a request of a peer with or without a forwarded address.
Throttle(route, peer, forwarded) ==
    LET k == <<route, ClientIP(peer, forwarded)>> IN OpenWindow(k) \/ CountRequest(k)

\* prune, from the sweep.
PruneLimiter ==
    LET elapsed == {k \in Held : Elapsed(buckets[k])} IN
    /\ elapsed # {}
    /\ buckets' = Dropped(elapsed)
    /\ granted' = [k \in LimiterKeys |-> IF k \in elapsed THEN 0 ELSE granted[k]]
    /\ UNCHANGED now

Tick == now < MaxClock /\ now' = now + 1 /\ UNCHANGED <<buckets, granted>>

LimiterNext ==
    \/ \E r \in Routes, p \in Peers, f \in Peers \cup {NoHeader} : Throttle(r, p, f)
    \/ PruneLimiter
    \/ Tick

LimiterSpec == LimiterInit /\ [][LimiterNext]_lvars
-----------------------------------------------------------------------------
\* ratelimit.go: the map is bounded ("the alternative is unbounded memory"), a
\* window lets no more than its budget through, and one route's requests never
\* use up another's, also at the limit of the map where live buckets go.
BudgetHolds ==
    /\ Cardinality(Held) <= MaxBuckets
    /\ \A k \in LimiterKeys :
         /\ granted[k] <= Limit[k[1]]
         /\ ~Elapsed(buckets[k]) => buckets[k].count = granted[k]
=============================================================================
