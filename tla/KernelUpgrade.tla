--------------------------- MODULE KernelUpgrade ---------------------------
(***************************************************************************)
(* The fleet upgrade of the Xray kernel: one canary, a person, the rest.    *)
(* Core moves on what agents report, and three kinds of goroutine write the *)
(* same rows: the requests of operators, the InstallOn jobs they start, and *)
(* the Channel handlers that record a node's reports.  Every statement on   *)
(* the database is one step; what a goroutine read earlier may be stale by  *)
(* the time it writes.                                                      *)
(*                                                                         *)
(*   upgrades   xray_upgrades, in order of start; `abandoned` stands for   *)
(*              the message an operator's Abandon leaves                   *)
(*   row        node_xray_installs: a node's latest attempt and its phase  *)
(*   jobs       goroutines inside InstallOn: of a canary (installAsync), of *)
(*              a promotion (fanOut, with the nodes still to tell), or of a *)
(*              one-off request                                            *)
(*   pc         a node's Channel handler inside HandleStatus               *)
(*   alerts     notifications announced                                    *)
(*   connected, down, up   the node's stream and the frames on it          *)
(*   slot       the agent's one install, `live` while the stream it reports *)
(*              on is there                                                *)
(*   ran        history: the versions the node has come up on              *)
(***************************************************************************)
EXTENDS Integers, Sequences, FiniteSets

CONSTANTS
    Nodes, Kernels, None,
    OneOffActivates,  \* values of `activate` one-off requests use
    MaxUpgrades,      \* bound on fleet upgrades
    QueueCap,         \* sendQueueSize
    Budget            \* how often each request and fault may happen

Limited == {"oneoff", "retry", "fetch", "break", "agent", "core", "fault"}

ASSUME UpgradeAssumption ==
    /\ None \notin Nodes \cup Kernels
    /\ OneOffActivates \subseteq BOOLEAN
    /\ MaxUpgrades \in Nat /\ QueueCap \in Nat \ {0}
    /\ Budget \in [Limited -> Nat]

VARIABLES upgrades, row, jobs, started, pc, alerts, connected, down, up, slot, ran, budget

coreVars == <<upgrades, row, jobs, started, pc, alerts>>
wireVars == <<connected, down, up>>
vars == <<coreVars, wireVars, slot, ran, budget>>

Spend(f) == budget[f] > 0 /\ budget' = [budget EXCEPT ![f] = @ - 1]

\* Retries and faults of all kinds share one more bound.
Fault(f) == /\ budget[f] > 0 /\ budget["fault"] > 0
            /\ budget' = [budget EXCEPT ![f] = @ - 1, !["fault"] = @ - 1]

Settled == {"ACTIVE", "INCONCLUSIVE"}
Failed  == {"ROLLED_BACK", "FAILED"}
Phases  == {"UNSPECIFIED", "ACTIVATING", "INSTALLED"} \cup Settled \cup Failed
InFlight == {"canary", "awaiting_promote", "promoting", "blocked"}

Status == [ver : Kernels, phase : Phases]
Idle   == [at |-> "idle"]

\* The partial unique index on active_marker keeps this to one at most.
Active == {i \in DOMAIN upgrades : upgrades[i].state \in InFlight}

\* promotionTargets
Targets(i) == Nodes \ {upgrades[i].canary}

Init ==
    /\ upgrades = <<>>
    /\ row = [n \in Nodes |-> [ver |-> None, phase |-> "UNSPECIFIED"]]
    /\ jobs = {} /\ started = 0
    /\ pc = [n \in Nodes |-> Idle]
    /\ alerts = 0
    /\ connected \in [Nodes -> BOOLEAN]
    /\ down = [n \in Nodes |-> <<>>] /\ up = [n \in Nodes |-> <<>>]
    /\ slot = [n \in Nodes |-> None]
    /\ ran = [n \in Nodes |-> {}]
    /\ budget = Budget
-----------------------------------------------------------------------------
(* Store                                                                   *)

\* A fault of Matches: the WHERE clause names the id only.
Matches_IdOnly(i, from) == TRUE

\* SetUpgradeState's WHERE clause: the upgrade is in the state the caller saw.
\* Whether a row matched is what SetUpgradeState and finish report.
Matches(i, from) == upgrades[i].state = from

SetUpgradeState(i, from, to) ==
    IF Matches(i, from) THEN [upgrades EXCEPT ![i].state = to] ELSE upgrades
-----------------------------------------------------------------------------
(* Jobs                                                                    *)

\* A job is numbered by the order it was started in.
Job(kind, i, n, v, act, rest) ==
    [num |-> started + 1, kind |-> kind, id |-> i, node |-> n, ver |-> v,
     activate |-> act, step |-> "fetch", todo |-> rest, failed |-> FALSE]

StartJob(j) == jobs' = jobs \cup {j} /\ started' = started + 1

\* The job goes on with the next node of its promotion, or ends.
GoOn(j, failed) ==
    IF j.todo = {}
    THEN jobs' = (jobs \ {j}) \cup {[j EXCEPT !.step = "end", !.failed = @ \/ failed]}
    ELSE \E m \in j.todo :
            jobs' = (jobs \ {j}) \cup
                {[j EXCEPT !.step = "fetch", !.failed = @ \/ failed,
                           !.node = m, !.todo = @ \ {m}]}

\* InstallOn before it writes anything: release, checksum, the panel's own copy.
JobCannotFetch(j) ==
    /\ j.step = "fetch" /\ Fault("fetch")
    /\ GoOn(j, TRUE)
    /\ UNCHANGED <<upgrades, row, started, pc, alerts, wireVars, slot, ran>>

\* StartXrayInstall: a new attempt replaces the node's row.
JobRecords(j) ==
    /\ j.step = "fetch"
    /\ row' = [row EXCEPT ![j.node] = [ver |-> j.ver, phase |-> "UNSPECIFIED"]]
    /\ jobs' = (jobs \ {j}) \cup {[j EXCEPT !.step = "send"]}
    /\ UNCHANGED <<upgrades, started, pc, alerts, wireVars, slot, ran, budget>>

\* enqueue: a registered session with room.
Reachable(n) == connected[n] /\ Len(down[n]) < QueueCap

\* SendXrayInstall: queued, or the attempt has failed.
JobSends(j) ==
    /\ j.step = "send"
    /\ LET ok == Reachable(j.node)
           m  == [ver |-> j.ver, activate |-> j.activate]
       IN /\ down' = IF ok THEN [down EXCEPT ![j.node] = Append(@, m)] ELSE down
          /\ GoOn(j, ~ok)
    /\ UNCHANGED <<upgrades, row, started, pc, alerts, connected, up, slot, ran, budget>>

\* installAsync and fanOut: failures block the upgrade, from the state it had
\* when the job was started.
JobEnds(j) ==
    /\ j.step = "end"
    /\ jobs' = jobs \ {j}
    /\ upgrades' = IF j.failed /\ j.kind # "oneoff"
                   THEN SetUpgradeState(j.id, j.kind, "blocked")
                   ELSE upgrades
    /\ UNCHANGED <<row, started, pc, alerts, wireVars, slot, ran, budget>>
-----------------------------------------------------------------------------
(* Operators                                                               *)

\* One node, one version, outside any fleet upgrade.
InstallOn(n, v, act) ==
    /\ Spend("oneoff")
    /\ StartJob(Job("oneoff", 0, n, v, act, {}))
    /\ UNCHANGED <<upgrades, row, pc, alerts, wireVars, slot, ran>>

StartCanary(v, n) ==
    /\ Len(upgrades) < MaxUpgrades /\ Active = {}
    /\ upgrades' = Append(upgrades, [ver |-> v, canary |-> n, state |-> "canary",
                                     abandoned |-> FALSE])
    /\ StartJob(Job("canary", Len(upgrades) + 1, n, v, TRUE, {}))
    /\ UNCHANGED <<row, pc, alerts, wireVars, slot, ran, budget>>

\* Promote: only by hand and only from awaiting_promote; every node but the canary is told, or the upgrade is
\* done if there is none.
Promote(i) ==
    /\ i \in Active /\ upgrades[i].state = "awaiting_promote"
    /\ IF Targets(i) = {}
       THEN /\ upgrades' = [upgrades EXCEPT ![i].state = "done"]
            /\ UNCHANGED <<jobs, started>>
       ELSE /\ upgrades' = [upgrades EXCEPT ![i].state = "promoting"]
            /\ \E n \in Targets(i) :
                  StartJob(Job("promoting", i, n, upgrades[i].ver, TRUE, Targets(i) \ {n}))
    /\ UNCHANGED <<row, pc, alerts, wireVars, slot, ran, budget>>

\* Retry: a blocked upgrade goes back through its canary.
Retry(i) ==
    /\ i \in Active /\ upgrades[i].state = "blocked" /\ Fault("retry")
    /\ upgrades' = [upgrades EXCEPT ![i].state = "canary"]
    /\ StartJob(Job("canary", i, upgrades[i].canary, upgrades[i].ver, TRUE, {}))
    /\ UNCHANGED <<row, pc, alerts, wireVars, slot, ran>>

\* Abandon: closes an upgrade in any state in flight.
Abandon(i) ==
    /\ i \in Active
    /\ upgrades' = [upgrades EXCEPT ![i].state = "done", ![i].abandoned = TRUE]
    /\ UNCHANGED <<row, jobs, started, pc, alerts, wireVars, slot, ran, budget>>
-----------------------------------------------------------------------------
(* Reports                                                                 *)

\* HandleStatus: recorded if the node is still installing that version.
HandleStatus(n) ==
    /\ pc[n] = Idle /\ up[n] # <<>>
    /\ up' = [up EXCEPT ![n] = Tail(@)]
    /\ LET m == Head(up[n]) IN
       \/ /\ row[n].ver = m.ver
          /\ row' = [row EXCEPT ![n].phase = m.phase]
          /\ pc' = [pc EXCEPT ![n] = [at |-> "advance", st |-> m]]
       \/ row[n].ver # m.ver /\ UNCHANGED <<row, pc>>
    /\ UNCHANGED <<upgrades, jobs, started, alerts, connected, down, slot, ran, budget>>

\* A fault of IsFailure: only a rollback counts.
IsFailure_RolledBack(phase) == phase = "ROLLED_BACK"

IsFailure(phase) == phase \in Failed

\* A fault of IsVerdict: an install that was only staged counts.
IsVerdict_Staged(n, i, phase) ==
    phase \in Settled \cup {"INSTALLED"} /\ n = upgrades[i].canary

\* The canary's own success.
IsVerdict(n, i, phase) == phase \in Settled /\ n = upgrades[i].canary

ToFinish(i, to, alert) ==
    [at |-> "finish", id |-> i, from |-> upgrades[i].state, to |-> to, alert |-> alert]

\* advance: what the report means for the upgrade in flight, if any.
Advance(n) ==
    /\ pc[n].at = "advance"
    /\ LET m == pc[n].st
           Concerned == {i \in Active : upgrades[i].ver = m.ver
                                        /\ upgrades[i].state # "blocked"}
           Blocks(i)    == IsFailure(m.phase)
           Judges(i)    == upgrades[i].state = "canary" /\ IsVerdict(n, i, m.phase)
           Completes(i) == upgrades[i].state = "promoting" /\ m.phase \in Settled
       IN \/ \E i \in Concerned :
                \/ Blocks(i) /\ pc' = [pc EXCEPT ![n] = ToFinish(i, "blocked", TRUE)]
                \/ Judges(i) /\ pc' = [pc EXCEPT ![n] = ToFinish(i, "awaiting_promote", FALSE)]
                \/ Completes(i) /\ pc' = [pc EXCEPT ![n] = [at |-> "check", id |-> i]]
          \/ /\ \A i \in Concerned : ~(Blocks(i) \/ Judges(i) \/ Completes(i))
             /\ pc' = [pc EXCEPT ![n] = Idle]
    /\ UNCHANGED <<upgrades, row, jobs, started, alerts, wireVars, slot, ran, budget>>

\* Faults of HasSettled: unconfirmed nodes are waited for, and any report will do.
HasSettled_Active(i, n) == row[n] = [ver |-> upgrades[i].ver, phase |-> "ACTIVE"]
HasSettled_AnyPhase(i, n) == row[n].ver = upgrades[i].ver

\* A target that no longer holds the promotion up.
HasSettled(i, n) ==
    row[n].ver = upgrades[i].ver /\ row[n].phase \in Settled \cup {"INSTALLED"}

\* checkPromotionComplete
CheckPromotionComplete(n) ==
    /\ pc[n].at = "check"
    /\ LET i == pc[n].id IN
       pc' = [pc EXCEPT ![n] =
                IF \A t \in Targets(i) : HasSettled(i, t)
                THEN [at |-> "finish", id |-> i, from |-> "promoting", to |-> "done",
                      alert |-> FALSE]
                ELSE Idle]
    /\ UNCHANGED <<upgrades, row, jobs, started, alerts, wireVars, slot, ran, budget>>

\* finish; block announces only the move it made itself.
Finish(n) ==
    /\ pc[n].at = "finish"
    /\ LET p == pc[n] IN
       /\ upgrades' = SetUpgradeState(p.id, p.from, p.to)
       /\ alerts' = IF p.alert /\ Matches(p.id, p.from) THEN alerts + 1 ELSE alerts
    /\ pc' = [pc EXCEPT ![n] = Idle]
    /\ UNCHANGED <<row, jobs, started, wireVars, slot, ran, budget>>
-----------------------------------------------------------------------------
(* The agent                                                               *)

Report(n, live, ms) == up' = IF live THEN [up EXCEPT ![n] = @ \o ms] ELSE up

\* startInstall: one install at a time, the others are refused.
TakeInstall(n) ==
    /\ down[n] # <<>>
    /\ down' = [down EXCEPT ![n] = Tail(@)]
    /\ LET m == Head(down[n]) IN
       \/ /\ slot[n] = None
          /\ slot' = [slot EXCEPT ![n] = [ver |-> m.ver, activate |-> m.activate,
                                          stage |-> "fetch", live |-> TRUE]]
          /\ UNCHANGED up
       \/ /\ slot[n] # None
          /\ Report(n, TRUE, <<[ver |-> m.ver, phase |-> "FAILED"]>>)
          /\ UNCHANGED slot
    /\ UNCHANGED <<coreVars, connected, ran, budget>>

\* Install up to Activate: it cannot be fetched, is staged, or gets started.  A
\* staged install is reported by progress and again as the result.
Install(n) ==
    /\ slot[n] # None /\ slot[n].stage = "fetch"
    /\ LET v == slot[n].ver
           staged == [ver |-> v, phase |-> "INSTALLED"]
       IN \/ /\ slot' = [slot EXCEPT ![n] = None]
             /\ Report(n, slot[n].live, <<[ver |-> v, phase |-> "FAILED"]>>)
          \/ /\ ~slot[n].activate
             /\ slot' = [slot EXCEPT ![n] = None]
             /\ Report(n, slot[n].live, <<staged, staged>>)
          \/ /\ slot[n].activate
             /\ slot' = [slot EXCEPT ![n].stage = "activate"]
             /\ Report(n, slot[n].live, <<[ver |-> v, phase |-> "ACTIVATING"]>>)
    /\ UNCHANGED <<coreVars, connected, down, ran, budget>>

\* Activate's outcome: the new kernel is up, confirmed or not, or the old one is
\* back.  With the stream gone it may stop before the swap and call that
\* inconclusive.
Activate(n) ==
    /\ slot[n] # None /\ slot[n].stage = "activate"
    /\ \E phase \in Settled \cup {"ROLLED_BACK"} :
          /\ Report(n, slot[n].live, <<[ver |-> slot[n].ver, phase |-> phase]>>)
          /\ \/ phase \in Settled /\ ran' = [ran EXCEPT ![n] = @ \cup {slot[n].ver}]
             \/ phase = "ROLLED_BACK" /\ UNCHANGED ran
             \/ phase = "INCONCLUSIVE" /\ ~slot[n].live /\ UNCHANGED ran
    /\ slot' = [slot EXCEPT ![n] = None]
    /\ UNCHANGED <<coreVars, connected, down, budget>>
-----------------------------------------------------------------------------
(* Faults                                                                  *)

\* What no install of n can report on any more.
Unheard(S) == [n \in Nodes |-> IF n \in S /\ slot[n] # None
                               THEN [slot[n] EXCEPT !.live = FALSE] ELSE slot[n]]
Emptied(q, S) == [n \in Nodes |-> IF n \in S THEN <<>> ELSE q[n]]

\* The stream breaks: frames not handled yet are lost, the install goes on.
StreamBreaks(n) ==
    /\ connected[n] /\ Fault("break")
    /\ connected' = [connected EXCEPT ![n] = FALSE]
    /\ down' = Emptied(down, {n}) /\ up' = Emptied(up, {n})
    /\ slot' = Unheard({n})
    /\ UNCHANGED <<coreVars, ran>>

Reconnect(n) ==
    /\ ~connected[n]
    /\ connected' = [connected EXCEPT ![n] = TRUE]
    /\ UNCHANGED <<coreVars, down, up, slot, ran, budget>>

\* The agent dies and its install with it.
AgentDies(n) ==
    /\ Fault("agent")
    /\ connected' = [connected EXCEPT ![n] = FALSE]
    /\ down' = Emptied(down, {n}) /\ up' = Emptied(up, {n})
    /\ slot' = [slot EXCEPT ![n] = None]
    /\ UNCHANGED <<coreVars, ran>>

\* Core stops and starts: only the database survives.
CoreRestart ==
    /\ Fault("core")
    /\ jobs' = {} /\ pc' = [n \in Nodes |-> Idle]
    /\ connected' = [n \in Nodes |-> FALSE]
    /\ down' = Emptied(down, Nodes) /\ up' = Emptied(up, Nodes)
    /\ slot' = Unheard(Nodes)
    /\ UNCHANGED <<upgrades, row, started, alerts, ran>>
-----------------------------------------------------------------------------
JobStep == \E j \in jobs : JobCannotFetch(j) \/ JobRecords(j) \/ JobSends(j) \/ JobEnds(j)
HandlerStep(n) == HandleStatus(n) \/ Advance(n) \/ CheckPromotionComplete(n) \/ Finish(n)
AgentStep(n) == TakeInstall(n) \/ Install(n) \/ Activate(n)

Operators ==
    \/ \E n \in Nodes, v \in Kernels, act \in OneOffActivates : InstallOn(n, v, act)
    \/ \E n \in Nodes, v \in Kernels : StartCanary(v, n)
    \/ \E i \in DOMAIN upgrades : Promote(i) \/ Retry(i) \/ Abandon(i)

Next == \/ Operators \/ JobStep \/ CoreRestart
        \/ \E n \in Nodes : \/ HandlerStep(n) \/ AgentStep(n)
                            \/ StreamBreaks(n) \/ Reconnect(n) \/ AgentDies(n)

Spec == Init /\ [][Next]_vars

\* Goroutines run on; operators and faults owe nothing.  A node comes back.
Fairness == /\ WF_vars(JobStep)
            /\ \A n \in Nodes : /\ WF_vars(HandlerStep(n)) /\ WF_vars(AgentStep(n))
                                /\ WF_vars(Reconnect(n))

FairSpec == Spec /\ Fairness
-----------------------------------------------------------------------------
(* Properties                                                              *)

\* Every variable keeps its type, and one upgrade at most is in flight.
TypeOK ==
    /\ \A i \in DOMAIN upgrades :
          upgrades[i] \in [ver : Kernels, canary : Nodes, state : InFlight \cup {"done"},
                           abandoned : BOOLEAN]
    /\ Cardinality(Active) <= 1
    /\ row \in [Nodes -> [ver : Kernels \cup {None}, phase : Phases]]
    /\ \A j \in jobs : /\ j.num \in 1..started /\ j.node \in Nodes /\ j.ver \in Kernels
                       /\ j.kind \in {"oneoff", "canary", "promoting"}
                       /\ j.step \in {"fetch", "send", "end"} /\ j.todo \subseteq Nodes
    /\ \A n \in Nodes : pc[n].at \in {"idle", "advance", "check", "finish"}
    /\ alerts \in Nat /\ started \in Nat
    /\ connected \in [Nodes -> BOOLEAN]
    /\ \A n \in Nodes : up[n] \in Seq(Status) /\ Len(down[n]) <= QueueCap
    /\ \A n \in Nodes : slot[n] # None => slot[n].ver \in Kernels
    /\ ran \in [Nodes -> SUBSET Kernels]
    /\ budget \in [Limited -> Nat]

\* Nobody is asked to promote, and nothing is promoted, that the canary has not
\* come up on: late reports, other nodes' successes and retries included
\* (advance, Promote, Retry).
CanaryProvesFirst ==
    \A i \in DOMAIN upgrades :
        upgrades[i].state \in {"awaiting_promote", "promoting"}
            => upgrades[i].ver \in ran[upgrades[i].canary]

\* An upgrade that finished by itself: every node has come up on its version
\* ("every target reached a terminal phase successfully", UpgradeDone;
\* checkPromotionComplete), whatever was superseded or reported late.
DoneMeansRan ==
    \A i \in DOMAIN upgrades : upgrades[i].state = "done" /\ ~upgrades[i].abandoned
        => \A n \in Nodes : upgrades[i].ver \in ran[n]

\* A failure while promoting blocks the upgrade, even one node's
\* (docs/xray-upgrade.md section 8): once the fan-out and the handlers are at
\* rest, no upgrade is left promoting with a target that failed.
FailureBlocks ==
    \A i \in Active :
        upgrades[i].state = "promoting" /\ jobs = {} /\ (\A n \in Nodes : pc[n] = Idle)
            => ~\E n \in Targets(i) :
                    row[n].ver = upgrades[i].ver /\ row[n].phase \in Failed

\* One notification per blocking, however many nodes fail at once (block).
OneAlertPerBlock ==
    [][alerts' # alerts => \E i \in DOMAIN upgrades : /\ upgrades[i].state # "blocked"
                                                      /\ upgrades'[i].state = "blocked"]_vars

\* Without faults a canary and a promotion are always decided: every report
\* finds its way into the state machine, whichever handler comes last.
EventuallyDecided ==
    \A st \in {"canary", "promoting"} :
        []<>(\A i \in DOMAIN upgrades : upgrades[i].state # st)
=============================================================================
