--------------------------- MODULE ConfigDelivery ---------------------------
(***************************************************************************)
(* How Core delivers config.json to ONE node, from the stored version      *)
(* history to the kernel that runs it, over Channel streams that break and *)
(* are replaced.  Core's per-node state is keyed by node id everywhere, so *)
(* one node is the whole protocol.                                         *)
(*                                                                         *)
(* Core side                                                               *)
(*   configs    node_configs rows: configs[v] is version v, its body and   *)
(*              its recorded result (0 pending, 1 applied, -1 failed)      *)
(*   pruned     versions 1..pruned have been swept out of the table        *)
(*   toPush     versions stored by a request that has not pushed them yet  *)
(*   sess       the session registered in Manager.sessions                 *)
(* Streams (s \in Streams; a slot is reused once both ends are gone)        *)
(*   hstate     life of the Channel handler of s                           *)
(*   done       sess.done closed: the handler must return                  *)
(*   broken     the transport under s is gone                              *)
(*   hpc, harg  where the handler goroutine is inside reconcileConfig      *)
(*   lastPush, fresh   lastPushVersion, and "less than 30 s ago"           *)
(*   down, up   frames on their way to the agent / to the handler          *)
(* Agent side                                                              *)
(*   agentUp, astream  the process, and the stream its reader is on        *)
(*   disk       body of config.json on disk (NoBody: no file)              *)
(*   kstate, running   xray.Manager.state and the body its process runs    *)
(*   ver        xray.Manager.configVersion (0: unknown)                    *)
(*   settling   version inside the settle window of Apply (0: none)        *)
(* History variable (no code): refused, the versions whose Apply was tried  *)
(* and failed on the node.  budget bounds the faults of a behaviour.       *)
(***************************************************************************)
EXTENDS Integers, Sequences, FiniteSets

CONSTANTS
    Bodies,          \* config bodies, opaque
    NoBody,          \* no file / no process
    PanelRejects,    \* bodies the panel-side `xray -test` refuses
    NodeRejects,     \* bodies the node's own `xray -test` refuses
    Crashing,        \* bodies that pass the test and die in the settle window
    Restored,        \* [Bodies -> Bodies]: the body with today's block rules
    MaxVersions,     \* bound on stored versions
    HistoryDepth,    \* ConfigHistoryDepth
    Streams,         \* slots for streams one of whose ends is still there
    NoStream,
    QueueCap,        \* sendQueueSize (and the agent's sendCh)
    FaultBudget      \* how many faults of each kind may happen

Faults == {"break", "agent", "core", "kernel", "start", "restart"}

ASSUME ConstantsAssumption ==
    /\ NoBody \notin Bodies
    /\ PanelRejects \subseteq Bodies
    /\ NodeRejects \subseteq Bodies
    /\ Crashing \subseteq Bodies
    /\ Restored \in [Bodies -> Bodies]
    /\ MaxVersions \in Nat
    /\ HistoryDepth \in Nat \ {0}
    /\ NoStream \notin Streams
    /\ QueueCap \in Nat \ {0}
    /\ FaultBudget \in [Faults -> Nat]

VARIABLES
    configs, pruned, toPush, sess,
    hstate, done, broken, hpc, harg, lastPush, fresh, down, up,
    agentUp, astream, disk, kstate, running, ver, settling,
    refused, budget

storeVars  == <<configs, pruned, toPush>>
handlerVars == <<hstate, done, hpc, harg, lastPush, fresh>>
kernelVars == <<disk, kstate, running, ver, settling>>
vars == <<storeVars, sess, handlerVars, broken, down, up,
          agentUp, astream, kernelVars, refused, budget>>

-----------------------------------------------------------------------------
(* Frames.  A ConfigPush is its version: bodies are immutable rows.  The   *)
(* restart command shares the queue and is frame 0.                        *)

RestartFrame == 0
Heartbeat(v) == [kind |-> "heartbeat", v |-> v, ok |-> TRUE]
Ack(v, ok)   == [kind |-> "ack", v |-> v, ok |-> ok]
UpFrames     == [kind : {"heartbeat", "ack"}, v : Nat, ok : BOOLEAN]

Versions == 1..Len(configs)

\* Rows LatestPushableConfig may choose from; it takes the newest.
Pushable == {v \in Versions : v > pruned /\ configs[v].applied >= 0}
IsLatestPushable(v) == v \in Pushable /\ \A w \in Pushable : w <= v

Spend(f) == budget[f] > 0 /\ budget' = [budget EXCEPT ![f] = @ - 1]

Init ==
    /\ configs = <<>> /\ pruned = 0 /\ toPush = {} /\ sess = NoStream
    /\ hstate = [s \in Streams |-> "unused"]
    /\ done = [s \in Streams |-> FALSE]
    /\ broken = [s \in Streams |-> FALSE]
    /\ hpc = [s \in Streams |-> "idle"]
    /\ harg = [s \in Streams |-> 0]
    /\ lastPush = [s \in Streams |-> 0]
    /\ fresh = [s \in Streams |-> FALSE]
    /\ down = [s \in Streams |-> <<>>]
    /\ up = [s \in Streams |-> <<>>]
    /\ agentUp = TRUE /\ astream = NoStream
    /\ disk = NoBody /\ kstate = "STOPPED" /\ running = NoBody
    /\ ver = 0 /\ settling = 0
    /\ refused = {}
    /\ budget = FaultBudget

-----------------------------------------------------------------------------
(* Core: storing and pushing                                               *)

\* Manager.enqueue: the node's registered session, room in its queue.  What
\* is queued on a dead transport is lost, as is what finds no room.
Enqueue(f) ==
    down' = IF sess # NoStream /\ ~broken[sess] /\ Len(down[sess]) < QueueCap
            THEN [down EXCEPT ![sess] = Append(@, f)]
            ELSE down

\* MAX(version) + 1; the newest row is never pruned.
NextVersion == Len(configs) + 1

\* InsertConfig: the next version, result pending.
InsertConfig(b) ==
    /\ Len(configs) < MaxVersions
    /\ b \notin PanelRejects
    /\ configs' = Append(configs, [body |-> b, applied |-> 0])
    /\ toPush' = toPush \cup {NextVersion}

\* profile.Service.Apply up to the INSERT; PushStored is its last call.
StoreConfig(b) ==
    /\ InsertConfig(b)
    /\ UNCHANGED <<pruned, sess, handlerVars, broken, down, up,
                   agentUp, astream, kernelVars, refused, budget>>

\* profile.Service.Rollback: an old row's body, with its block rules
\* re-derived, tested again and stored as a new version.
RollbackTo(v) ==
    /\ v > pruned
    /\ InsertConfig(Restored[configs[v].body])
    /\ UNCHANGED <<pruned, sess, handlerVars, broken, down, up,
                   agentUp, astream, kernelVars, refused, budget>>

\* The PushConfig that ends Apply and Rollback.  Requests run concurrently,
\* so versions may be pushed in another order than they were stored.
PushStored(v) ==
    /\ v \in toPush
    /\ toPush' = toPush \ {v}
    /\ Enqueue(v)
    /\ UNCHANGED <<configs, pruned, sess, handlerVars, broken, up,
                   agentUp, astream, kernelVars, refused, budget>>

\* The restart button: a Command frame on the same queue.
SendRestart ==
    /\ sess # NoStream /\ ~broken[sess]
    /\ Len(down[sess]) < QueueCap
    /\ Spend("restart")
    /\ down' = [down EXCEPT ![sess] = Append(@, RestartFrame)]
    /\ UNCHANGED <<storeVars, sess, handlerVars, broken, up,
                   agentUp, astream, kernelVars, refused>>

\* PruneConfigs: all but the newest HistoryDepth versions.
PruneConfigs ==
    /\ Len(configs) - HistoryDepth > pruned
    /\ pruned' = Len(configs) - HistoryDepth
    /\ UNCHANGED <<configs, toPush, sess, handlerVars, broken, down, up,
                   agentUp, astream, kernelVars, refused, budget>>
-----------------------------------------------------------------------------
(* Core: the Channel handler                                               *)

\* attach: the new session replaces and closes the old one; the handler then
\* reconciles with "unknown" as the agent's version.
Attach(s) ==
    /\ hstate[s] = "dialed"
    /\ hstate' = [hstate EXCEPT ![s] = "live"]
    /\ sess' = s
    /\ done' = IF sess = NoStream THEN done ELSE [done EXCEPT ![sess] = TRUE]
    /\ hpc' = [hpc EXCEPT ![s] = "read"]
    /\ harg' = [harg EXCEPT ![s] = -1]
    /\ UNCHANGED <<storeVars, lastPush, fresh, broken, down, up,
                   agentUp, astream, kernelVars, refused, budget>>

\* A fault of Throttled: the thirty seconds are never over.
Throttled_Forever(s, v) == lastPush[s] = v

\* This session pushed v less than thirty seconds ago.
Throttled(s, v) == lastPush[s] = v /\ fresh[s]

\* reconcileConfig, its decision: nothing pushable, already there, throttled,
\* or go on to push the newest pushable version.
ReconcileRead(s) ==
    /\ hpc[s] = "read"
    /\ \/ /\ \/ Pushable = {}
             \/ \E v \in Pushable : /\ IsLatestPushable(v)
                                    /\ v = harg[s] \/ Throttled(s, v)
          /\ hpc' = [hpc EXCEPT ![s] = "idle"]
          /\ harg' = [harg EXCEPT ![s] = 0]
          /\ UNCHANGED <<lastPush, fresh>>
       \/ \E v \in Pushable :
            /\ IsLatestPushable(v)
            /\ v # harg[s] /\ ~Throttled(s, v)
            /\ hpc' = [hpc EXCEPT ![s] = "push"]
            /\ harg' = [harg EXCEPT ![s] = v]
            /\ lastPush' = [lastPush EXCEPT ![s] = v]
            /\ fresh' = [fresh EXCEPT ![s] = TRUE]
    /\ UNCHANGED <<storeVars, sess, hstate, done, broken, down, up,
                   agentUp, astream, kernelVars, refused, budget>>

\* reconcileConfig, its PushConfig: to whichever session is registered now.
ReconcilePush(s) ==
    /\ hpc[s] = "push"
    /\ Enqueue(harg[s])
    /\ hpc' = [hpc EXCEPT ![s] = "idle"]
    /\ harg' = [harg EXCEPT ![s] = 0]
    /\ UNCHANGED <<storeVars, sess, hstate, done, lastPush, fresh, broken,
                   up, agentUp, astream, kernelVars, refused, budget>>

\* Thirty seconds since the last reconcile push of this session.
ThrottleExpires(s) ==
    /\ hstate[s] = "live" /\ fresh[s]
    /\ fresh' = [fresh EXCEPT ![s] = FALSE]
    /\ UNCHANGED <<storeVars, sess, hstate, done, hpc, harg, lastPush, broken,
                   down, up, agentUp, astream, kernelVars, refused, budget>>

\* handleFrame, Heartbeat: reconcile against the version it reports.
HandleHeartbeat(s) ==
    /\ hstate[s] = "live" /\ hpc[s] = "idle"
    /\ up[s] # <<>> /\ Head(up[s]).kind = "heartbeat"
    /\ up' = [up EXCEPT ![s] = Tail(@)]
    /\ hpc' = [hpc EXCEPT ![s] = "read"]
    /\ harg' = [harg EXCEPT ![s] = Head(up[s]).v]
    /\ UNCHANGED <<storeVars, sess, hstate, done, lastPush, fresh, broken, down,
                   agentUp, astream, kernelVars, refused, budget>>

\* handleFrame, ConfigAck: SetConfigResult, which updates no row when the
\* version has been pruned.
HandleAck(s) ==
    /\ hstate[s] = "live" /\ hpc[s] = "idle"
    /\ up[s] # <<>> /\ Head(up[s]).kind = "ack"
    /\ up' = [up EXCEPT ![s] = Tail(@)]
    /\ LET m == Head(up[s]) IN
       configs' = IF m.v \in Versions /\ m.v > pruned
                  THEN [configs EXCEPT ![m.v].applied = IF m.ok THEN 1 ELSE -1]
                  ELSE configs
    /\ UNCHANGED <<pruned, toPush, sess, handlerVars, broken, down,
                   agentUp, astream, kernelVars, refused, budget>>

\* A fault of Detach: whoever leaves unregisters the node.
Detach_Always(s) == NoStream

\* detach: the registered session afterwards.
Detach(s) == IF sess = s THEN NoStream ELSE sess

\* The handler returns: replaced, or the stream failed (before its Hello, too).
\* Its deferred function closes the session and detaches it unless a newer one
\* took its place.  What reached the agent's end of the stream is still read
\* there; with nobody at that end the slot is free.
HandlerReturns(s) ==
    /\ \/ hstate[s] = "live" /\ hpc[s] = "idle" /\ (done[s] \/ broken[s])
       \/ hstate[s] = "dialed" /\ broken[s]
    /\ hstate' = [hstate EXCEPT ![s] = IF astream = s THEN "over" ELSE "unused"]
    /\ done' = [done EXCEPT ![s] = FALSE]
    /\ broken' = [broken EXCEPT ![s] = astream = s]
    /\ sess' = Detach(s)
    /\ down' = [down EXCEPT ![s] = IF astream = s THEN @ ELSE <<>>]
    /\ up' = [up EXCEPT ![s] = <<>>]
    /\ lastPush' = [lastPush EXCEPT ![s] = 0]
    /\ fresh' = [fresh EXCEPT ![s] = FALSE]
    /\ UNCHANGED <<storeVars, hpc, harg, agentUp, astream, kernelVars, refused,
                   budget>>

\* Core stops and starts again: only the database survives.
CoreRestart ==
    /\ Spend("core")
    /\ hstate' = [s \in Streams |-> IF s = astream THEN "over" ELSE "unused"]
    /\ broken' = [s \in Streams |-> s = astream]
    /\ done' = [s \in Streams |-> FALSE]
    /\ hpc' = [s \in Streams |-> "idle"]
    /\ harg' = [s \in Streams |-> 0]
    /\ lastPush' = [s \in Streams |-> 0]
    /\ fresh' = [s \in Streams |-> FALSE]
    /\ sess' = NoStream /\ toPush' = {}
    /\ down' = [s \in Streams |-> IF s = astream THEN down[s] ELSE <<>>]
    /\ up' = [s \in Streams |-> <<>>]
    /\ UNCHANGED <<configs, pruned, agentUp, astream, kernelVars, refused>>
-----------------------------------------------------------------------------
(* The agent's stream                                                      *)

\* Run: open the next stream and send Hello.
Dial(s) ==
    /\ agentUp /\ astream = NoStream /\ settling = 0
    /\ hstate[s] = "unused"
    /\ hstate' = [hstate EXCEPT ![s] = "dialed"]
    /\ astream' = s
    /\ UNCHANGED <<storeVars, sess, done, hpc, harg, lastPush, fresh, broken,
                   down, up, agentUp, kernelVars, refused, budget>>

\* The transport fails under a stream; each end finds out when it next looks.
StreamBreaks(s) ==
    /\ hstate[s] \in {"dialed", "live"} /\ ~broken[s]
    /\ Spend("break")
    /\ broken' = [broken EXCEPT ![s] = TRUE]
    /\ UNCHANGED <<storeVars, sess, handlerVars, down, up,
                   agentUp, astream, kernelVars, refused>>

\* The agent's end of its stream is gone.
AgentLeaves ==
    /\ astream' = NoStream
    /\ hstate' = [s \in Streams |->
            IF s = astream /\ hstate[s] = "over" THEN "unused" ELSE hstate[s]]
    /\ broken' = [s \in Streams |->
            IF s = astream THEN hstate[s] # "over" ELSE broken[s]]
    /\ down' = [s \in Streams |-> IF s = astream THEN <<>> ELSE down[s]]

\* The reader's Recv fails: runStream returns, the backoff starts.
LeaveStream ==
    /\ agentUp /\ astream # NoStream /\ settling = 0
    /\ broken[astream]
    /\ AgentLeaves
    /\ UNCHANGED <<storeVars, sess, done, hpc, harg, lastPush, fresh, up,
                   agentUp, kernelVars, refused, budget>>

CanSend == agentUp /\ astream # NoStream /\ (broken[astream] \/ Len(up[astream]) < QueueCap)

\* trySend and the writer goroutine: a frame for a dead stream is lost.
Send(m) ==
    up' = IF broken[astream] THEN up ELSE [up EXCEPT ![astream] = Append(@, m)]

\* The heartbeat ticker; it runs while an Apply is settling too.
SendHeartbeat ==
    /\ CanSend /\ ~broken[astream]
    /\ Heartbeat(ver) \notin {up[astream][i] : i \in DOMAIN up[astream]}
    /\ Send(Heartbeat(ver))
    /\ UNCHANGED <<storeVars, sess, handlerVars, broken, down,
                   agentUp, astream, kernelVars, refused, budget>>

\* The reader takes a ConfigPush of version v.
TakePush(v) ==
    /\ settling = 0 /\ CanSend
    /\ down[astream] # <<>> /\ Head(down[astream]) = v
    /\ v # RestartFrame
    /\ down' = [down EXCEPT ![astream] = Tail(@)]
    /\ UNCHANGED <<storeVars, sess, handlerVars, broken, agentUp, astream>>

\* Faults of Stale: no guard, and one that refuses a re-push.
Stale_Never(v) == FALSE
Stale_OffByOne(v) == ver # 0 /\ v <= ver

\* Apply's first guard.
Stale(v) == ver # 0 /\ v < ver

\* Apply's second guard: the same bytes on a running process.
Unchanged(v) == kstate = "RUNNING" /\ disk = configs[v].body

\* A fault of PersistConfig: the tested file is never renamed into place.
PersistConfig_Forgets(v) == UNCHANGED disk

\* Apply's rename of the tested file.
PersistConfig(v) == disk' = configs[v].body

\* Apply refuses a version older than the one it is at.
ApplyStale(v) ==
    /\ TakePush(v) /\ Stale(v)
    /\ Send(Ack(v, FALSE))
    /\ UNCHANGED <<disk, kstate, running, ver, settling, refused, budget>>

\* Apply acknowledges identical content without a restart.
ApplyUnchanged(v) ==
    /\ TakePush(v) /\ ~Stale(v) /\ Unchanged(v)
    /\ ver' = v
    /\ Send(Ack(v, TRUE))
    /\ UNCHANGED <<disk, kstate, running, settling, refused, budget>>

\* The node's own `xray -test` refuses the body, or the file cannot be written
\* or renamed; nothing has been touched.
ApplyRejected(v) ==
    /\ TakePush(v) /\ ~Stale(v) /\ ~Unchanged(v)
    /\ \/ configs[v].body \in NodeRejects /\ UNCHANGED budget
       \/ configs[v].body \notin NodeRejects /\ Spend("start")
    /\ refused' = refused \cup {v}
    /\ Send(Ack(v, FALSE))
    /\ UNCHANGED <<disk, kstate, running, ver, settling>>

\* The file is renamed into place and the old process stopped, but the new one
\* cannot be started: the manager is left in ERROR at its old version.
ApplyStartFails(v) ==
    /\ TakePush(v) /\ ~Stale(v) /\ ~Unchanged(v)
    /\ configs[v].body \notin NodeRejects
    /\ Spend("start")
    /\ PersistConfig(v)
    /\ kstate' = "ERROR" /\ running' = NoBody
    /\ refused' = refused \cup {v}
    /\ Send(Ack(v, FALSE))
    /\ UNCHANGED <<ver, settling>>

\* The new process is started; the settle window begins, no ack yet.
ApplyStarts(v) ==
    /\ TakePush(v) /\ ~Stale(v) /\ ~Unchanged(v)
    /\ configs[v].body \notin NodeRejects
    /\ PersistConfig(v)
    /\ kstate' = "RUNNING" /\ running' = configs[v].body
    /\ ver' = v /\ settling' = v
    /\ UNCHANGED <<up, refused, budget>>

\* A fault of StaysUp: the settle window is not waited out.
StaysUp_Unchecked == TRUE

\* staysUp over applySettleWindow.
StaysUp == kstate = "RUNNING" /\ running \notin Crashing

\* The kernel outlived the window.
SettleOK ==
    /\ settling # 0 /\ CanSend
    /\ StaysUp
    /\ settling' = 0
    /\ Send(Ack(settling, TRUE))
    /\ UNCHANGED <<storeVars, sess, handlerVars, broken, down, agentUp, astream,
                   disk, kstate, running, ver, refused, budget>>

\* staysUp saw it die.  The version stays recorded as the manager's own.
SettleDied ==
    /\ settling # 0 /\ CanSend
    /\ kstate # "RUNNING"
    /\ settling' = 0
    /\ refused' = refused \cup {settling}
    /\ Send(Ack(settling, FALSE))
    /\ UNCHANGED <<storeVars, sess, handlerVars, broken, down, agentUp, astream,
                   disk, kstate, running, ver, budget>>

\* startLocked on whatever is on disk: no file, a process, or a failed start.
StartFromDisk ==
    \/ /\ disk = NoBody
       /\ kstate' = "STOPPED" /\ running' = NoBody /\ UNCHANGED budget
    \/ /\ disk # NoBody
       /\ kstate' = "RUNNING" /\ running' = disk /\ UNCHANGED budget
    \/ /\ disk # NoBody
       /\ kstate' = "ERROR" /\ running' = NoBody /\ Spend("start")

\* Restart on command: stop, then start.
HandleRestart ==
    /\ settling = 0 /\ agentUp /\ astream # NoStream
    /\ down[astream] # <<>> /\ Head(down[astream]) = RestartFrame
    /\ down' = [down EXCEPT ![astream] = Tail(@)]
    /\ StartFromDisk
    /\ UNCHANGED <<storeVars, sess, handlerVars, broken, up, agentUp, astream,
                   disk, ver, settling, refused>>
-----------------------------------------------------------------------------
(* The kernel and the agent's process                                      *)

\* The waiter reports an exit nobody asked for: a body that cannot stay up, or
\* a fault.
KernelDies ==
    /\ kstate = "RUNNING"
    /\ \/ running \in Crashing /\ UNCHANGED budget
       \/ running \notin Crashing /\ Spend("kernel")
    /\ kstate' = "ERROR" /\ running' = NoBody
    /\ UNCHANGED <<storeVars, sess, handlerVars, broken, down, up, agentUp,
                   astream, disk, ver, settling, refused>>

\* The agent dies with its kernel; config.json and state.json stay.
AgentDies ==
    /\ agentUp /\ Spend("agent")
    /\ agentUp' = FALSE
    /\ AgentLeaves
    /\ kstate' = "STOPPED" /\ running' = NoBody
    /\ ver' = 0 /\ settling' = 0
    /\ UNCHANGED <<storeVars, sess, done, hpc, harg, lastPush, fresh, up, disk,
                   refused>>

\* main: serve the persisted config at once; its version is unknown.
AgentStarts ==
    /\ ~agentUp
    /\ agentUp' = TRUE
    /\ StartFromDisk
    /\ UNCHANGED <<storeVars, sess, handlerVars, broken, down, up, astream,
                   disk, ver, settling, refused>>
-----------------------------------------------------------------------------
Core ==
    \/ \E b \in Bodies : StoreConfig(b)
    \/ \E v \in Versions : RollbackTo(v) \/ PushStored(v)
    \/ SendRestart \/ PruneConfigs \/ CoreRestart
    \/ \E s \in Streams :
          \/ Attach(s) \/ ReconcileRead(s) \/ ReconcilePush(s)
          \/ ThrottleExpires(s) \/ HandleHeartbeat(s) \/ HandleAck(s)
          \/ HandlerReturns(s)

\* The reader's handling of a ConfigPush, by what Apply makes of it.
HandlePush ==
    \E v \in Versions :
        \/ ApplyStale(v) \/ ApplyUnchanged(v) \/ ApplyRejected(v)
        \/ ApplyStartFails(v) \/ ApplyStarts(v)

Agent ==
    \/ LeaveStream \/ SendHeartbeat
    \/ HandlePush \/ SettleOK \/ SettleDied \/ HandleRestart
    \/ KernelDies \/ AgentDies \/ AgentStarts
    \/ \E s \in Streams : Dial(s) \/ StreamBreaks(s)

Next == Core \/ Agent

Spec == Init /\ [][Next]_vars

\* The goroutines: a session's handler, and the agent's reader loop.
HandlerStep(s) ==
    ReconcileRead(s) \/ ReconcilePush(s) \/ HandleHeartbeat(s) \/ HandleAck(s)
ReaderStep == (\E s \in Streams : Dial(s)) \/ LeaveStream \/ HandleRestart
AckStep == HandlePush \/ SettleOK \/ SettleDied

\* What keeps running while nothing fails: Core's handlers and requests, the
\* passing of time, the agent's loops, and the supervisor that restarts it.
\* The ack competes with the heartbeat ticker for room in sendCh; a Go channel
\* serves blocked senders first come first served, and a handler's select picks
\* among frames and `done` at random: strong fairness for both.
\* Storing, rolling back, restarting by hand, pruning and faults get none.
Fairness ==
    /\ \A v \in 1..MaxVersions : WF_vars(v \in Versions /\ PushStored(v))
    /\ \A s \in Streams : /\ WF_vars(Attach(s)) /\ WF_vars(ThrottleExpires(s))
                          /\ WF_vars(HandlerStep(s)) /\ SF_vars(HandlerReturns(s))
    /\ WF_vars(SendHeartbeat) /\ WF_vars(ReaderStep) /\ SF_vars(AckStep)
    /\ WF_vars(AgentStarts) /\ WF_vars(KernelDies /\ running \in Crashing)

FairSpec == Spec /\ Fairness
-----------------------------------------------------------------------------
(* Properties                                                              *)

Rows == [body : Bodies, applied : {-1, 0, 1}]

StoreTypeOK ==
    /\ configs \in Seq(Rows)
    /\ pruned \in 0..Len(configs)
    /\ toPush \subseteq Versions

\* What reconcileConfig is about to push is a stored version.
HandlerTypeOK ==
    /\ sess \in Streams \cup {NoStream}
    /\ hstate \in [Streams -> {"unused", "dialed", "live", "over"}]
    /\ done \in [Streams -> BOOLEAN]
    /\ broken \in [Streams -> BOOLEAN]
    /\ hpc \in [Streams -> {"idle", "read", "push"}]
    /\ harg \in [Streams -> Int]
    /\ lastPush \in [Streams -> Nat]
    /\ fresh \in [Streams -> BOOLEAN]
    /\ \A s \in Streams : hpc[s] = "push" => harg[s] \in Versions

WireTypeOK ==
    /\ down \in [Streams -> Seq(Nat)]
    /\ up \in [Streams -> Seq(UpFrames)]

AgentTypeOK ==
    /\ agentUp \in BOOLEAN
    /\ astream \in Streams \cup {NoStream}
    /\ disk \in Bodies \cup {NoBody}
    /\ running \in Bodies \cup {NoBody}
    /\ kstate \in {"STOPPED", "RUNNING", "ERROR"}
    /\ ver \in Nat /\ settling \in Nat
    /\ refused \subseteq Nat

\* Every variable keeps its type.
TypeOK ==
    /\ StoreTypeOK /\ HandlerTypeOK /\ WireTypeOK /\ AgentTypeOK
    /\ budget \in [Faults -> Nat]

\* A handler that has not been told to stop is the registered one: attach
\* closes what it replaces, and a late detach never unregisters its successor
\* (manager.go attach, detach).  Otherwise pushes go to a stream nobody reads.
OpenSessionIsRegistered ==
    \A s \in Streams : hstate[s] = "live" /\ ~done[s] => sess = s

\* A body that cannot stay up is never recorded as applied: the ack waits out
\* the settle window (xray.go Apply; service.go ConfigAck), so the history a
\* rollback picks from does not offer the config that took the node down.
AppliedSurvives ==
    \A v \in Versions : configs[v].applied = 1 => configs[v].body \notin Crashing

\* The newest version is recorded as failed only if the agent tested or ran it
\* and it failed.  Refusals of stale or reordered pushes can only hit older
\* versions, so they never hide the newest config from a reconnecting agent.
NewestFailureIsReal ==
    \A v \in Versions :
        v = Len(configs) /\ configs[v].applied = -1 => v \in refused

\* While its process lives, the agent never goes back to an older version,
\* however pushes of two requests and of reconciliation are ordered.
VersionNeverRegresses ==
    [][agentUp' => ver' >= ver]_vars

\* The kernel always runs the file on disk, so a restart of Xray, of the agent
\* or of the host brings back what is being served, never something older.
RunningIsOnDisk == kstate = "RUNNING" => running = disk

Converged ==
    \A v \in Pushable : IsLatestPushable(v) =>
        agentUp /\ ver = v /\ kstate = "RUNNING" /\ running = configs[v].body

\* Once stores and faults stop, the node ends up serving the newest config that
\* has not failed, with no operator action: dropped, throttled and out-of-order
\* pushes heal through heartbeats (service.go handleFrame, reconcileConfig).
EventuallyConverged == <>[]Converged

-----------------------------------------------------------------------------
(* What comments of the code say, and the code does not keep               *)

\* store.go, ConfigHistoryDepth: "pruning can never strand a node": a sweep
\* leaves a pushable version if there was one.
PruningNeverStrands ==
    [][pruned' # pruned /\ Pushable # {} => Pushable' # {}]_vars
=============================================================================
