------------------------------- MODULE Alerts -------------------------------
(* Telling someone that a node changed availability (alert/alert.go, store/alert.go,    *)
(* api/alert.go): a sweep records what every node looks like, and announces what has     *)
(* held for Debounce.  The rows survive a restart of Core; the sweep does not.           *)
EXTENDS Integers, FiniteSets

CONSTANTS
    Watched,        \* nodes
    Targets,        \* alert targets
    Debounce,       \* in intervals of the enforcement loop
    MaxCrashes      \* bound: restarts of Core

ASSUME AlertsAssumption == Debounce \in Nat \ {0} /\ MaxCrashes \in Nat

VARIABLES
    up,         \* up[n]: what the session registry says (Liveness.IsOnline)
    row,        \* node_alert_state; since: intervals since changed_at, up to Debounce
    target,     \* alert_targets: "none", "off" or "on"
    sweep,      \* the sweep under way
    failing,    \* the targets with a last_error
    steady,     \* history: intervals since a sweep last saw the other state, up to Debounce
    crashes

avarsAlerts == <<up, row, target, sweep, failing, steady, crashes>>

NoRow == [announced |-> FALSE, observed |-> FALSE, since |-> 0, exists |-> FALSE]
Asleep == [pc |-> "asleep", todo |-> {}, states |-> [n \in Watched |-> NoRow], to |-> {}, left |-> {}]

AlertsInit ==
    /\ up = [n \in Watched |-> FALSE]
    /\ row = [n \in Watched |-> NoRow]
    /\ target = [t \in Targets |-> "none"]
    /\ sweep = Asleep
    /\ failing = {}
    /\ steady = [n \in Watched |-> 0]
    /\ crashes = 0

-----------------------------------------------------------------------------
(* The sweep.  The clock is read once, when it starts. *)

Older(d) == IF d < Debounce THEN d + 1 ELSE d

\* One tick of the enforcement loop: an interval has passed since the sweep before.
Sweep ==
    /\ sweep.pc = "asleep"
    /\ sweep' = [Asleep EXCEPT !.pc = "observe", !.todo = Watched]
    /\ row' = [n \in Watched |-> [row[n] EXCEPT !.since = Older(@)]]
    /\ steady' = [n \in Watched |-> Older(steady[n])]
    /\ UNCHANGED <<up, target, failing, crashes>>

ObserveNodeKeepsClock(r, online) ==
    IF ~ r.exists THEN [announced |-> online, observed |-> online, since |-> 0, exists |-> TRUE]
    ELSE [r EXCEPT !.observed = online]

ObserveNodeMovesClock(r, online) ==
    IF ~ r.exists THEN [announced |-> online, observed |-> online, since |-> 0, exists |-> TRUE]
    ELSE [r EXCEPT !.observed = online, !.since = 0]

\* changed_at moves only when the observation differs; a first sighting counts as announced.
ObserveNode(r, online) ==
    IF ~ r.exists THEN [announced |-> online, observed |-> online, since |-> 0, exists |-> TRUE]
    ELSE [r EXCEPT !.observed = online, !.since = IF r.observed = online THEN @ ELSE 0]

Observe(n) ==
    /\ sweep.pc = "observe" /\ n \in sweep.todo
    /\ row' = [row EXCEPT ![n] = ObserveNode(@, up[n])]
    /\ steady' = [steady EXCEPT ![n] = IF row[n].observed = up[n] THEN @ ELSE 0]
    /\ sweep' = [sweep EXCEPT !.todo = @ \ {n}]
    /\ UNCHANGED <<up, target, failing, crashes>>

\* Observed as announced, or still settling.
skip(r) == ~ r.exists \/ r.observed = r.announced \/ r.since < Debounce

\* NodeAlertStates and the enabled targets, read once for the whole round.
ReadStates ==
    /\ sweep.pc = "observe" /\ sweep.todo = {}
    /\ sweep' = [sweep EXCEPT !.pc = "announce", !.states = row,
                              !.todo = {n \in Watched : ~ skip(row[n])},
                              !.to = {t \in Targets : target[t] = "on"}]
    /\ UNCHANGED <<up, row, target, failing, steady, crashes>>

\* Marked first: a delivery that fails must not queue the same message for ever.
MarkAnnounced(n) ==
    /\ sweep.pc = "announce" /\ n \in sweep.todo
    /\ row' = [row EXCEPT ![n].announced = sweep.states[n].observed]
    /\ sweep' = [sweep EXCEPT !.pc = IF sweep.to = {} THEN "announce" ELSE "notify",
                              !.todo = @ \ {n}, !.left = sweep.to]
    /\ UNCHANGED <<up, target, failing, steady, crashes>>

\* One target at a time, delivered or not; the last one ends the node's round.
Deliver(t, ok) ==
    LET left == sweep.left \ {t} IN
    /\ sweep.pc = "notify" /\ t \in sweep.left
    /\ failing' = IF ok \/ target[t] = "none" THEN failing \ {t} ELSE failing \cup {t}
    /\ sweep' = [sweep EXCEPT !.left = left, !.pc = IF left = {} THEN "announce" ELSE "notify"]
    /\ UNCHANGED <<up, row, target, steady, crashes>>

SweepEnds ==
    /\ sweep.pc = "announce" /\ sweep.todo = {}
    /\ sweep' = Asleep
    /\ UNCHANGED <<up, row, target, failing, steady, crashes>>

-----------------------------------------------------------------------------
(* Around it *)

\* A node connects, or stops sending heartbeats.
Flip(n) ==
    /\ up' = [up EXCEPT ![n] = ~ @]
    /\ UNCHANGED <<row, target, sweep, failing, steady, crashes>>

createAlertTarget(t) ==
    /\ target[t] = "none" /\ target' = [target EXCEPT ![t] = "on"]
    /\ UNCHANGED <<up, row, sweep, failing, steady, crashes>>

updateAlertTarget(t, on) ==
    /\ target[t] # "none" /\ target' = [target EXCEPT ![t] = IF on THEN "on" ELSE "off"]
    /\ UNCHANGED <<up, row, sweep, failing, steady, crashes>>

deleteAlertTarget(t) ==
    /\ target[t] # "none" /\ target' = [target EXCEPT ![t] = "none"]
    /\ failing' = failing \ {t}
    /\ UNCHANGED <<up, row, sweep, steady, crashes>>

\* testAlertTarget: a message now, its outcome recorded like any other.
testAlertTarget(t, ok) ==
    /\ target[t] # "none"
    /\ failing' = IF ok THEN failing \ {t} ELSE failing \cup {t}
    /\ UNCHANGED <<up, row, target, sweep, steady, crashes>>

\* Core restarts: no session is up, the sweep is lost, the rows are not.
CoreRestarts ==
    /\ crashes < MaxCrashes /\ crashes' = crashes + 1
    /\ up' = [n \in Watched |-> FALSE] /\ sweep' = Asleep
    /\ UNCHANGED <<row, target, failing, steady>>

-----------------------------------------------------------------------------
SweepStep ==
    \/ Sweep \/ ReadStates \/ SweepEnds
    \/ \E n \in Watched : Observe(n) \/ MarkAnnounced(n)
    \/ \E t \in Targets, ok \in BOOLEAN : Deliver(t, ok)

AlertsNext ==
    \/ SweepStep \/ CoreRestarts
    \/ \E n \in Watched : Flip(n)
    \/ \E t \in Targets : \/ createAlertTarget(t) \/ deleteAlertTarget(t)
                          \/ \E b \in BOOLEAN : updateAlertTarget(t, b) \/ testAlertTarget(t, b)

\* The ticker of main.go runs the sweep for ever; every step of it ends.
AlertsFairness == WF_avarsAlerts(SweepStep)

AlertsSpec == AlertsInit /\ [][AlertsNext]_avarsAlerts /\ AlertsFairness

-----------------------------------------------------------------------------
\* "A flapping link would otherwise generate a message per heartbeat" (alert.go): what is
\* announced has been seen by every sweep of the last Debounce, restarts included.
OnlySettledAnnounced ==
    \A n \in Watched : sweep.pc = "announce" /\ n \in sweep.todo =>
        steady[n] >= Debounce /\ row[n].observed = sweep.states[n].observed

\* A change that lasts is announced in the end, whatever was lost to restarts meanwhile.
EventuallyAnnounced ==
    \A n \in Watched : []<>(row[n].exists /\ row[n].announced = row[n].observed)
=============================================================================
