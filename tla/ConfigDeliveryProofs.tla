------------------------ MODULE ConfigDeliveryProofs ------------------------
(* Proofs about ConfigDelivery, for every value of its constants.          *)
EXTENDS ConfigDelivery, TLAPS

(* Type correctness.  A step keeps each part of TypeOK: one step of the     *)
(* proof per action, and under it one per part the action can disturb.      *)

\* The initial state is well typed.
LEMMA TypeInit == Init => TypeOK
  BY ConstantsAssumption DEF Init, TypeOK, StoreTypeOK, HandlerTypeOK, WireTypeOK,
     AgentTypeOK, Versions, Faults

\* A part whose variables do not change keeps its type.
LEMMA StoreSame == ASSUME StoreTypeOK, UNCHANGED storeVars PROVE StoreTypeOK'
  BY DEF StoreTypeOK, storeVars, Versions

\* Handlers keep their types when only the history grows.
LEMMA HandlerSame ==
    ASSUME HandlerTypeOK, UNCHANGED <<sess, handlerVars, broken>>,
           Versions \subseteq Versions'
    PROVE  HandlerTypeOK'
  BY DEF HandlerTypeOK, handlerVars

\* Frames on the wire keep their types.
LEMMA WireSame == ASSUME WireTypeOK, UNCHANGED <<down, up>> PROVE WireTypeOK'
  BY DEF WireTypeOK

\* The agent's state keeps its type.
LEMMA AgentSame ==
    ASSUME AgentTypeOK, UNCHANGED <<agentUp, astream, kernelVars, refused>>
    PROVE  AgentTypeOK'
  BY DEF AgentTypeOK, kernelVars

\* The stored versions are the domain of the history.
LEMMA VersionsSame == ASSUME UNCHANGED configs PROVE Versions' = Versions
  BY DEF Versions

\* The sub-actions keep their parts' types.
LEMMA SpendTyped ==
    ASSUME budget \in [Faults -> Nat], NEW f \in Faults, Spend(f)
    PROVE  budget' \in [Faults -> Nat]
  BY DEF Spend

\* Queueing a version or a restart keeps the wire typed.
LEMMA EnqueueTyped ==
    ASSUME WireTypeOK, HandlerTypeOK, NEW f \in Nat, Enqueue(f)
    PROVE  down' \in [Streams -> Seq(Nat)]
  BY DEF WireTypeOK, HandlerTypeOK, Enqueue

\* So does sending a heartbeat or an ack.
LEMMA SendTyped ==
    ASSUME WireTypeOK, AgentTypeOK, astream # NoStream, NEW m \in UpFrames, Send(m)
    PROVE  up' \in [Streams -> Seq(UpFrames)]
  BY DEF WireTypeOK, AgentTypeOK, Send

\* Taking a push leaves what was queued behind it.
LEMMA TakePushTyped ==
    ASSUME WireTypeOK, AgentTypeOK, NEW v, TakePush(v)
    PROVE  down' \in [Streams -> Seq(Nat)] /\ astream # NoStream
  BY DEF WireTypeOK, AgentTypeOK, TakePush, CanSend

\* The agent's leaving a stream.
LEMMA LeaveTyped ==
    ASSUME TypeOK, AgentLeaves
    PROVE  /\ hstate' \in [Streams -> {"unused", "dialed", "live", "over"}]
           /\ broken' \in [Streams -> BOOLEAN]
           /\ down' \in [Streams -> Seq(Nat)]
           /\ astream' \in Streams \cup {NoStream}
<1>1. hstate' \in [Streams -> {"unused", "dialed", "live", "over"}]
  BY DEF TypeOK, HandlerTypeOK, AgentLeaves
<1>2. \A s \in Streams : (IF s = astream THEN hstate[s] # "over" ELSE broken[s]) \in BOOLEAN
  BY DEF TypeOK, HandlerTypeOK
<1>3. broken' \in [Streams -> BOOLEAN]
  BY <1>2, Zenon DEF AgentLeaves
<1>4. down' \in [Streams -> Seq(Nat)]
  BY DEF TypeOK, WireTypeOK, AgentLeaves
<1> QED
  BY <1>1, <1>3, <1>4 DEF AgentLeaves

\* Starting from disk runs a body, or nothing.
LEMMA StartTyped ==
    ASSUME TypeOK, StartFromDisk
    PROVE  /\ kstate' \in {"STOPPED", "RUNNING", "ERROR"}
           /\ running' \in Bodies \cup {NoBody}
           /\ budget' \in [Faults -> Nat]
  BY DEF TypeOK, AgentTypeOK, StartFromDisk, Spend, Faults

\* A stored version has a body.
LEMMA BodyTyped ==
    ASSUME StoreTypeOK, NEW v \in Versions
    PROVE  configs[v] \in Rows /\ configs[v].body \in Bodies /\ v \in Nat \ {0}
<1>1. configs[v] \in Rows /\ v \in Nat \ {0}
  BY DEF StoreTypeOK, Versions
<1> QED
  BY <1>1 DEF Rows

\* Storing one more version: the old ones stay, the history grows by one.
LEMMA InsertTyped ==
    ASSUME StoreTypeOK, NEW b \in Bodies, InsertConfig(b), UNCHANGED pruned
    PROVE  StoreTypeOK' /\ Versions \subseteq Versions'
<1>1. [body |-> b, applied |-> 0] \in Rows
  BY DEF Rows
<1>2. /\ configs' \in Seq(Rows)
      /\ Len(configs') = Len(configs) + 1
      /\ Len(configs) \in Nat
  BY <1>1 DEF StoreTypeOK, InsertConfig
<1>3. Versions' = Versions \cup {Len(configs) + 1}
  BY <1>2 DEF Versions
<1> QED
  BY <1>2, <1>3 DEF StoreTypeOK, InsertConfig, NextVersion

\* Recording a result changes no row's version.
LEMMA AckTyped ==
    ASSUME StoreTypeOK, NEW s \in Streams, HandleAck(s)
    PROVE  StoreTypeOK' /\ Len(configs') = Len(configs)
<1>1. UNCHANGED <<pruned, toPush>>
  BY DEF HandleAck
<1>2. CASE UNCHANGED configs
  BY <1>1, <1>2 DEF StoreTypeOK, Versions
<1>3. ASSUME NEW v \in Versions, NEW r \in {-1, 1},
             configs' = [configs EXCEPT ![v].applied = r]
      PROVE  configs' \in Seq(Rows) /\ Len(configs') = Len(configs)
  <2>1. configs[v] \in Rows
    BY <1>3, BodyTyped
  <2>2. [configs[v] EXCEPT !.applied = r] \in Rows
    BY <1>3, <2>1 DEF Rows
  <2>3. configs' = [configs EXCEPT ![v] = [configs[v] EXCEPT !.applied = r]]
    BY <1>3
  <2> QED
    BY <2>2, <2>3 DEF StoreTypeOK, Versions
<1> QED
  BY <1>1, <1>2, <1>3 DEF HandleAck, StoreTypeOK, Versions

\* Every action keeps every part of the type invariant.
LEMMA TypeStep == ASSUME TypeOK, [Next]_vars PROVE TypeOK'
<1> USE DEF TypeOK
<1>1. ASSUME NEW b \in Bodies, StoreConfig(b) PROVE TypeOK'
  <2>1. StoreTypeOK'
    BY <1>1, InsertTyped DEF StoreConfig, StoreTypeOK
  <2>2. HandlerTypeOK'
    BY <1>1, InsertTyped, HandlerSame DEF StoreConfig, HandlerTypeOK
  <2> QED
    BY <1>1, <2>1, <2>2, WireSame, AgentSame DEF StoreConfig, storeVars, handlerVars, kernelVars
<1>2. ASSUME NEW v \in Versions, RollbackTo(v) PROVE TypeOK'
  <2>1. StoreTypeOK'
    BY <1>2, InsertTyped, BodyTyped, ConstantsAssumption DEF RollbackTo, StoreTypeOK
  <2>2. HandlerTypeOK'
    BY <1>2, InsertTyped, BodyTyped, ConstantsAssumption, HandlerSame DEF RollbackTo, HandlerTypeOK
  <2> QED
    BY <1>2, <2>1, <2>2, WireSame, AgentSame DEF RollbackTo, storeVars, handlerVars, kernelVars
<1>3. ASSUME NEW v \in Versions, PushStored(v) PROVE TypeOK'
  <2>1. StoreTypeOK'
    BY <1>3 DEF PushStored, StoreTypeOK, Versions
  <2>2. WireTypeOK'
    BY <1>3, EnqueueTyped, BodyTyped DEF PushStored, WireTypeOK
  <2> QED
    BY <1>3, <2>1, <2>2, HandlerSame, VersionsSame, AgentSame DEF PushStored, storeVars, handlerVars, kernelVars
<1>4. CASE SendRestart
  <2>1. WireTypeOK'
    BY <1>4 DEF SendRestart, WireTypeOK, RestartFrame, HandlerTypeOK
  <2>2. budget' \in [Faults -> Nat]
    BY <1>4, SpendTyped DEF SendRestart, Faults
  <2> QED
    BY <1>4, <2>1, <2>2, StoreSame, HandlerSame, VersionsSame, AgentSame DEF SendRestart, storeVars, handlerVars, kernelVars
<1>5. CASE PruneConfigs
  <2>1. StoreTypeOK'
    BY <1>5, ConstantsAssumption DEF PruneConfigs, StoreTypeOK, Versions
  <2> QED
    BY <1>5, <2>1, HandlerSame, VersionsSame, WireSame, AgentSame DEF PruneConfigs, storeVars, handlerVars, kernelVars
<1>6. CASE CoreRestart
  <2>1. StoreTypeOK'
    BY <1>6 DEF CoreRestart, StoreTypeOK, Versions
  <2>2. HandlerTypeOK'
    BY <1>6 DEF CoreRestart, HandlerTypeOK
  <2>3. WireTypeOK'
    BY <1>6 DEF CoreRestart, WireTypeOK
  <2>4. budget' \in [Faults -> Nat]
    BY <1>6, SpendTyped DEF CoreRestart, Faults
  <2> QED
    BY <1>6, <2>1, <2>2, <2>3, <2>4, AgentSame DEF CoreRestart, storeVars, handlerVars, kernelVars
<1>7. ASSUME NEW s \in Streams, Attach(s) PROVE TypeOK'
  <2>1. HandlerTypeOK'
    BY <1>7, VersionsSame DEF Attach, HandlerTypeOK, storeVars
  <2> QED
    BY <1>7, <2>1, StoreSame, WireSame, AgentSame DEF Attach, storeVars, handlerVars, kernelVars
<1>8. ASSUME NEW s \in Streams, ReconcileRead(s) PROVE TypeOK'
  <2>1. UNCHANGED <<configs, sess, hstate, done, broken>> /\ Versions' = Versions
    BY <1>8, VersionsSame DEF ReconcileRead, storeVars
  <2>2. HandlerTypeOK'
    <3>1. CASE /\ hpc' = [hpc EXCEPT ![s] = "idle"]
               /\ harg' = [harg EXCEPT ![s] = 0]
               /\ UNCHANGED <<lastPush, fresh>>
      BY <2>1, <3>1 DEF HandlerTypeOK
    <3>2. ASSUME NEW v \in Versions,
                 hpc' = [hpc EXCEPT ![s] = "push"],
                 harg' = [harg EXCEPT ![s] = v],
                 lastPush' = [lastPush EXCEPT ![s] = v],
                 fresh' = [fresh EXCEPT ![s] = TRUE]
          PROVE  HandlerTypeOK'
      BY <2>1, <3>2, BodyTyped DEF HandlerTypeOK
    <3> QED
      BY <1>8, <3>1, <3>2 DEF ReconcileRead, Pushable
  <2> QED
    BY <1>8, <2>2, StoreSame, WireSame, AgentSame DEF ReconcileRead, storeVars, handlerVars, kernelVars
<1>9. ASSUME NEW s \in Streams, ReconcilePush(s) PROVE TypeOK'
  <2>1. HandlerTypeOK'
    BY <1>9, VersionsSame DEF ReconcilePush, HandlerTypeOK, storeVars
  <2>2. WireTypeOK'
    BY <1>9, EnqueueTyped, BodyTyped DEF ReconcilePush, WireTypeOK, HandlerTypeOK
  <2> QED
    BY <1>9, <2>1, <2>2, StoreSame, AgentSame DEF ReconcilePush, storeVars, handlerVars, kernelVars
<1>10. ASSUME NEW s \in Streams, ThrottleExpires(s) PROVE TypeOK'
  <2>1. HandlerTypeOK'
    BY <1>10, VersionsSame DEF ThrottleExpires, HandlerTypeOK, storeVars
  <2> QED
    BY <1>10, <2>1, StoreSame, WireSame, AgentSame DEF ThrottleExpires, storeVars, handlerVars, kernelVars
<1>11. ASSUME NEW s \in Streams, HandleHeartbeat(s) PROVE TypeOK'
  <2>1. HandlerTypeOK'
    <3>1. Head(up[s]) \in UpFrames
      BY <1>11 DEF HandleHeartbeat, WireTypeOK
    <3>2. Head(up[s]).v \in Int
      BY <3>1 DEF UpFrames
    <3> QED
      BY <1>11, <3>2, VersionsSame DEF HandleHeartbeat, HandlerTypeOK, storeVars
  <2>2. WireTypeOK'
    BY <1>11 DEF HandleHeartbeat, WireTypeOK
  <2> QED
    BY <1>11, <2>1, <2>2, StoreSame, AgentSame DEF HandleHeartbeat, storeVars, handlerVars, kernelVars
<1>12. ASSUME NEW s \in Streams, HandleAck(s) PROVE TypeOK'
  <2>1. StoreTypeOK'
    BY <1>12, AckTyped DEF HandleAck, StoreTypeOK
  <2>2. HandlerTypeOK'
    BY <1>12, AckTyped, HandlerSame DEF HandleAck, HandlerTypeOK, Versions
  <2>3. WireTypeOK'
    BY <1>12 DEF HandleAck, WireTypeOK
  <2> QED
    BY <1>12, <2>1, <2>2, <2>3, AgentSame DEF HandleAck, storeVars, handlerVars, kernelVars
<1>13. ASSUME NEW s \in Streams, HandlerReturns(s) PROVE TypeOK'
  <2>1. HandlerTypeOK'
    BY <1>13, VersionsSame DEF HandlerReturns, HandlerTypeOK, Detach, storeVars
  <2>2. WireTypeOK'
    BY <1>13 DEF HandlerReturns, WireTypeOK
  <2> QED
    BY <1>13, <2>1, <2>2, StoreSame, AgentSame DEF HandlerReturns, storeVars, handlerVars, kernelVars
<1>14. ASSUME NEW s \in Streams, Dial(s) PROVE TypeOK'
  <2>1. HandlerTypeOK'
    BY <1>14, VersionsSame DEF Dial, HandlerTypeOK, storeVars
  <2>2. AgentTypeOK'
    BY <1>14 DEF Dial, AgentTypeOK, kernelVars
  <2> QED
    BY <1>14, <2>1, <2>2, StoreSame, WireSame DEF Dial, storeVars, handlerVars, kernelVars
<1>15. ASSUME NEW s \in Streams, StreamBreaks(s) PROVE TypeOK'
  <2>1. HandlerTypeOK'
    BY <1>15, VersionsSame DEF StreamBreaks, HandlerTypeOK, handlerVars, storeVars
  <2>2. budget' \in [Faults -> Nat]
    BY <1>15, SpendTyped DEF StreamBreaks, Faults
  <2> QED
    BY <1>15, <2>1, <2>2, StoreSame, WireSame, AgentSame DEF StreamBreaks, storeVars, handlerVars, kernelVars
<1>16. CASE LeaveStream
  <2>1. HandlerTypeOK'
    BY <1>16, LeaveTyped, VersionsSame DEF LeaveStream, HandlerTypeOK, storeVars
  <2>2. WireTypeOK'
    BY <1>16, LeaveTyped DEF LeaveStream, WireTypeOK
  <2>3. AgentTypeOK'
    BY <1>16, LeaveTyped DEF LeaveStream, AgentTypeOK, kernelVars
  <2> QED
    BY <1>16, <2>1, <2>2, <2>3, StoreSame DEF LeaveStream, storeVars, handlerVars, kernelVars
<1>17. CASE SendHeartbeat
  <2>1. WireTypeOK'
    BY <1>17, SendTyped DEF SendHeartbeat, WireTypeOK, Heartbeat, UpFrames, CanSend, AgentTypeOK
  <2> QED
    BY <1>17, <2>1, StoreSame, HandlerSame, VersionsSame, AgentSame DEF SendHeartbeat, storeVars, handlerVars, kernelVars
<1>18. ASSUME NEW v \in Versions, ApplyStale(v) PROVE TypeOK'
  <2>1. WireTypeOK'
    BY <1>18, TakePushTyped, SendTyped, BodyTyped DEF ApplyStale, WireTypeOK, Ack, UpFrames
  <2> QED
    BY <1>18, <2>1, StoreSame, HandlerSame, VersionsSame, AgentSame DEF ApplyStale, TakePush, storeVars, handlerVars, kernelVars
<1>19. ASSUME NEW v \in Versions, ApplyUnchanged(v) PROVE TypeOK'
  <2>1. WireTypeOK'
    BY <1>19, TakePushTyped, SendTyped, BodyTyped DEF ApplyUnchanged, WireTypeOK, Ack, UpFrames
  <2>2. AgentTypeOK'
    BY <1>19, BodyTyped DEF ApplyUnchanged, AgentTypeOK, TakePush
  <2> QED
    BY <1>19, <2>1, <2>2, StoreSame, HandlerSame, VersionsSame DEF ApplyUnchanged, TakePush, storeVars, handlerVars, kernelVars
<1>20. ASSUME NEW v \in Versions, ApplyRejected(v) PROVE TypeOK'
  <2>1. WireTypeOK'
    BY <1>20, TakePushTyped, SendTyped, BodyTyped DEF ApplyRejected, WireTypeOK, Ack, UpFrames
  <2>2. AgentTypeOK'
    BY <1>20, BodyTyped DEF ApplyRejected, AgentTypeOK, TakePush
  <2>3. budget' \in [Faults -> Nat]
    BY <1>20, SpendTyped DEF ApplyRejected, Faults
  <2> QED
    BY <1>20, <2>1, <2>2, <2>3, StoreSame, HandlerSame, VersionsSame DEF ApplyRejected, TakePush, storeVars, handlerVars, kernelVars
<1>21. ASSUME NEW v \in Versions, ApplyStartFails(v) PROVE TypeOK'
  <2>1. WireTypeOK'
    BY <1>21, TakePushTyped, SendTyped, BodyTyped DEF ApplyStartFails, WireTypeOK, Ack, UpFrames
  <2>2. AgentTypeOK'
    BY <1>21, BodyTyped DEF ApplyStartFails, AgentTypeOK, TakePush, PersistConfig
  <2>3. budget' \in [Faults -> Nat]
    BY <1>21, SpendTyped DEF ApplyStartFails, Faults
  <2> QED
    BY <1>21, <2>1, <2>2, <2>3, StoreSame, HandlerSame, VersionsSame DEF ApplyStartFails, TakePush, storeVars, handlerVars, kernelVars
<1>22. ASSUME NEW v \in Versions, ApplyStarts(v) PROVE TypeOK'
  <2>1. WireTypeOK'
    BY <1>22, TakePushTyped DEF ApplyStarts, WireTypeOK
  <2>2. AgentTypeOK'
    BY <1>22, BodyTyped DEF ApplyStarts, AgentTypeOK, TakePush, PersistConfig
  <2> QED
    BY <1>22, <2>1, <2>2, StoreSame, HandlerSame, VersionsSame DEF ApplyStarts, TakePush, storeVars, handlerVars, kernelVars
<1>23. CASE SettleOK
  <2>1. WireTypeOK'
    BY <1>23, SendTyped DEF SettleOK, WireTypeOK, Ack, UpFrames, CanSend, AgentTypeOK
  <2>2. AgentTypeOK'
    BY <1>23 DEF SettleOK, AgentTypeOK
  <2> QED
    BY <1>23, <2>1, <2>2, StoreSame, HandlerSame, VersionsSame DEF SettleOK, storeVars, handlerVars, kernelVars
<1>24. CASE SettleDied
  <2>1. WireTypeOK'
    BY <1>24, SendTyped DEF SettleDied, WireTypeOK, Ack, UpFrames, CanSend, AgentTypeOK
  <2>2. AgentTypeOK'
    BY <1>24 DEF SettleDied, AgentTypeOK
  <2> QED
    BY <1>24, <2>1, <2>2, StoreSame, HandlerSame, VersionsSame DEF SettleDied, storeVars, handlerVars, kernelVars
<1>25. CASE HandleRestart
  <2>1. WireTypeOK'
    BY <1>25 DEF HandleRestart, WireTypeOK, AgentTypeOK
  <2>2. AgentTypeOK'
    BY <1>25, StartTyped DEF HandleRestart, AgentTypeOK
  <2>3. budget' \in [Faults -> Nat]
    BY <1>25, StartTyped DEF HandleRestart
  <2> QED
    BY <1>25, <2>1, <2>2, <2>3, StoreSame, HandlerSame, VersionsSame DEF HandleRestart, storeVars, handlerVars, kernelVars
<1>26. CASE KernelDies
  <2>1. AgentTypeOK'
    BY <1>26 DEF KernelDies, AgentTypeOK
  <2>2. budget' \in [Faults -> Nat]
    BY <1>26, SpendTyped DEF KernelDies, Faults
  <2> QED
    BY <1>26, <2>1, <2>2, StoreSame, HandlerSame, VersionsSame, WireSame DEF KernelDies, storeVars, handlerVars, kernelVars
<1>27. CASE AgentDies
  <2>1. HandlerTypeOK'
    BY <1>27, LeaveTyped, VersionsSame DEF AgentDies, HandlerTypeOK, storeVars
  <2>2. WireTypeOK'
    BY <1>27, LeaveTyped DEF AgentDies, WireTypeOK
  <2>3. AgentTypeOK'
    BY <1>27, LeaveTyped DEF AgentDies, AgentTypeOK, kernelVars
  <2>4. budget' \in [Faults -> Nat]
    BY <1>27, SpendTyped DEF AgentDies, Faults
  <2> QED
    BY <1>27, <2>1, <2>2, <2>3, <2>4, StoreSame DEF AgentDies, storeVars, handlerVars, kernelVars
<1>28. CASE AgentStarts
  <2>1. AgentTypeOK'
    BY <1>28, StartTyped DEF AgentStarts, AgentTypeOK
  <2>2. budget' \in [Faults -> Nat]
    BY <1>28, StartTyped DEF AgentStarts
  <2> QED
    BY <1>28, <2>1, <2>2, StoreSame, HandlerSame, VersionsSame, WireSame DEF AgentStarts, storeVars, handlerVars, kernelVars
<1>29. CASE UNCHANGED vars
  BY <1>29, StoreSame, HandlerSame, VersionsSame, WireSame, AgentSame DEF vars, storeVars
<1> QED
  BY <1>1, <1>2, <1>3, <1>4, <1>5, <1>6, <1>7, <1>8, <1>9, <1>10, <1>11, <1>12, <1>13, <1>14, <1>15, <1>16, <1>17, <1>18, <1>19, <1>20, <1>21, <1>22, <1>23, <1>24, <1>25, <1>26, <1>27, <1>28, <1>29 DEF Next, Core, Agent, HandlePush

(***************************************************************************)
(* Every variable keeps its type in every reachable state.                 *)
(***************************************************************************)
THEOREM TypeCorrect == Spec => []TypeOK
<1>1. TypeOK /\ [Next]_vars => TypeOK'
  BY TypeStep
<1> QED
  BY <1>1, TypeInit, PTL DEF Spec
-----------------------------------------------------------------------------
(* Sessions *)

\* Only attach, the handler's return, Core's restart and the agent's dialling
\* and leaving touch a session's life.
LEMMA SessionStep ==
    ASSUME TypeOK, OpenSessionIsRegistered, [Next]_vars
    PROVE  OpenSessionIsRegistered'
<1> USE DEF TypeOK, HandlerTypeOK, OpenSessionIsRegistered
<1>1. ASSUME NEW s \in Streams, Attach(s) PROVE OpenSessionIsRegistered'
  BY <1>1, ConstantsAssumption DEF Attach
<1>2. ASSUME NEW s \in Streams, HandlerReturns(s) PROVE OpenSessionIsRegistered'
  BY <1>2 DEF HandlerReturns, Detach
<1>3. CASE CoreRestart
  BY <1>3 DEF CoreRestart
<1>4. ASSUME NEW s \in Streams, Dial(s) PROVE OpenSessionIsRegistered'
  BY <1>4 DEF Dial
<1>5. CASE LeaveStream \/ AgentDies
  BY <1>5 DEF LeaveStream, AgentDies, AgentLeaves
<1>6. CASE UNCHANGED <<sess, hstate, done>>
  BY <1>6
<1> QED
  <2>1. ASSUME Core, ~(\E s \in Streams : Attach(s) \/ HandlerReturns(s)), ~CoreRestart
        PROVE  UNCHANGED <<sess, hstate, done>>
    BY <2>1 DEF Core, StoreConfig, RollbackTo, PushStored, SendRestart, PruneConfigs,
       ReconcileRead, ReconcilePush, ThrottleExpires, HandleHeartbeat, HandleAck,
       handlerVars
  <2>2. ASSUME Agent, ~(\E s \in Streams : Dial(s)), ~(LeaveStream \/ AgentDies)
        PROVE  UNCHANGED <<sess, hstate, done>>
    BY <2>2 DEF Agent, StreamBreaks, SendHeartbeat, HandlePush, ApplyStale,
       ApplyUnchanged, ApplyRejected, ApplyStartFails, ApplyStarts, TakePush, SettleOK,
       SettleDied, HandleRestart, KernelDies, AgentStarts, handlerVars
  <2>3. CASE UNCHANGED vars
    BY <1>6, <2>3 DEF vars, handlerVars
  <2> QED
    BY <1>1, <1>2, <1>3, <1>4, <1>5, <1>6, <2>1, <2>2, <2>3 DEF Next

(***************************************************************************)
(* However streams break, are replaced and are torn down late, a handler   *)
(* that still serves is the one Core pushes to: detach by a replaced       *)
(* session never unregisters its successor.                                *)
(***************************************************************************)
THEOREM OpenSessionsAreRegistered == Spec => []OpenSessionIsRegistered
<1>1. Init => OpenSessionIsRegistered
  BY DEF Init, OpenSessionIsRegistered
<1>2. TypeOK /\ OpenSessionIsRegistered /\ [Next]_vars => OpenSessionIsRegistered'
  BY SessionStep
<1> QED
  BY <1>1, <1>2, TypeCorrect, PTL DEF Spec
-----------------------------------------------------------------------------
(* The kernel *)

\* Core never touches the node's own state.
LEMMA CoreLeavesNode ==
    ASSUME Core PROVE UNCHANGED <<agentUp, astream, kernelVars, refused>>
  BY DEF Core, StoreConfig, RollbackTo, PushStored, SendRestart, PruneConfigs,
     CoreRestart, Attach, ReconcileRead, ReconcilePush, ThrottleExpires,
     HandleHeartbeat, HandleAck, HandlerReturns

(***************************************************************************)
(* Whatever the order of pushes, restarts and crashes, the kernel runs the *)
(* file on disk.                                                           *)
(***************************************************************************)
THEOREM RunningConfigIsOnDisk == Spec => []RunningIsOnDisk
<1>1. Init => RunningIsOnDisk
  BY DEF Init, RunningIsOnDisk
<1>2. ASSUME RunningIsOnDisk, Next PROVE RunningIsOnDisk'
  <2> USE DEF RunningIsOnDisk
  <2>1. CASE Core
    BY <1>2, <2>1, CoreLeavesNode DEF kernelVars
  <2>2. ASSUME NEW v \in Versions, ApplyStale(v) \/ ApplyUnchanged(v) \/ ApplyRejected(v)
        PROVE  RunningIsOnDisk'
    BY <1>2, <2>2 DEF ApplyStale, ApplyUnchanged, ApplyRejected
  <2>3. ASSUME NEW v \in Versions, ApplyStartFails(v) \/ ApplyStarts(v)
        PROVE  RunningIsOnDisk'
    BY <2>3 DEF ApplyStartFails, ApplyStarts, PersistConfig
  <2>4. CASE HandleRestart \/ AgentStarts
    BY <1>2, <2>4 DEF HandleRestart, AgentStarts, StartFromDisk
  <2>5. CASE KernelDies \/ AgentDies
    BY <1>2, <2>5 DEF KernelDies, AgentDies
  <2>6. CASE \/ LeaveStream \/ SendHeartbeat \/ SettleOK \/ SettleDied
             \/ \E s \in Streams : Dial(s) \/ StreamBreaks(s)
    BY <1>2, <2>6 DEF LeaveStream, SendHeartbeat, SettleOK, SettleDied, Dial,
       StreamBreaks, kernelVars
  <2> QED
    BY <1>2, <2>1, <2>2, <2>3, <2>4, <2>5, <2>6 DEF Next, Agent, HandlePush
<1>3. RunningIsOnDisk /\ [Next]_vars => RunningIsOnDisk'
  BY <1>2 DEF RunningIsOnDisk, vars, kernelVars
<1> QED
  BY <1>1, <1>3, PTL DEF Spec

(***************************************************************************)
(* While the agent's process lives, no interleaving of requests, throttled *)
(* reconciliation and reconnects makes it go back to an older version.     *)
(***************************************************************************)
THEOREM AgentVersionNeverRegresses == Spec => VersionNeverRegresses
<1>1. ASSUME TypeOK, [Next]_vars PROVE [agentUp' => ver' >= ver]_vars
  <2>1. ver \in Nat /\ (ver' = ver => ver' >= ver)
    BY <1>1 DEF TypeOK, AgentTypeOK
  <2>2. CASE UNCHANGED vars
    BY <2>2
  <2>3. CASE Core
    BY <2>1, <2>3, CoreLeavesNode DEF kernelVars
  <2>4. ASSUME NEW v \in Versions, ApplyUnchanged(v) \/ ApplyStarts(v)
        PROVE  ver' >= ver
    <3>1. ver' = v /\ ~Stale(v)
      BY <2>4 DEF ApplyUnchanged, ApplyStarts
    <3>2. v \in Nat
      BY <1>1, BodyTyped DEF TypeOK
    <3> QED
      BY <2>1, <3>1, <3>2 DEF Stale
  <2>5. ASSUME NEW v \in Versions, ApplyStale(v) \/ ApplyRejected(v) \/ ApplyStartFails(v)
        PROVE  ver' = ver
    BY <2>5 DEF ApplyStale, ApplyRejected, ApplyStartFails
  <2>6. CASE AgentDies
    BY <2>6 DEF AgentDies
  <2>7. ASSUME \/ LeaveStream \/ SendHeartbeat \/ SettleOK \/ SettleDied \/ HandleRestart
               \/ KernelDies \/ AgentStarts \/ \E s \in Streams : Dial(s) \/ StreamBreaks(s)
        PROVE  ver' = ver
    BY <2>7 DEF LeaveStream, SendHeartbeat, SettleOK, SettleDied, HandleRestart,
       KernelDies, AgentStarts, Dial, StreamBreaks, kernelVars
  <2> QED
    BY <1>1, <2>1, <2>2, <2>3, <2>4, <2>5, <2>6, <2>7 DEF Next, Agent, HandlePush
<1> QED
  BY <1>1, TypeCorrect, PTL DEF Spec, VersionNeverRegresses
-----------------------------------------------------------------------------
(* The recorded results.  NewestFailureIsReal is not inductive: it needs    *)
(* that the agent is never ahead of the history (so a refusal as stale hits *)
(* an older version), and that a refusal still on the wire is as founded as *)
(* a recorded one.                                                          *)

AgentNotAhead == ver <= Len(configs) /\ settling <= Len(configs)

FoundedFrames ==
    {m \in UpFrames : m.kind = "ack" =>
        /\ m.v \in Versions
        /\ ~m.ok /\ m.v = Len(configs) => m.v \in refused}

AcksAreFounded == up \in [Streams -> Seq(FoundedFrames)]

HistoryInv == NewestFailureIsReal /\ AgentNotAhead /\ AcksAreFounded

\* The history grows, rows keep their version, and refused only grows: a
\* founded frame stays founded.
LEMMA FoundedMonotone ==
    ASSUME Len(configs) \in Nat, Len(configs') \in Nat, Len(configs') >= Len(configs),
           refused \subseteq refused', AcksAreFounded
    PROVE  up \in [Streams -> Seq(FoundedFrames')]
<1>1. FoundedFrames \subseteq FoundedFrames'
  BY DEF FoundedFrames, UpFrames, Versions
<1>2. Seq(FoundedFrames) \subseteq Seq(FoundedFrames')
  BY <1>1
<1> QED
  BY <1>2 DEF AcksAreFounded

\* Sending one more founded frame.
LEMMA SendFounded ==
    ASSUME TypeOK, up \in [Streams -> Seq(FoundedFrames')], astream # NoStream,
           NEW m \in FoundedFrames', Send(m)
    PROVE  AcksAreFounded'
  BY DEF TypeOK, AgentTypeOK, AcksAreFounded, Send

\* A step that stores nothing, records nothing and sends nothing.
LEMMA HistorySame ==
    ASSUME HistoryInv, UNCHANGED <<configs, up, refused>>,
           ver' \in {0, ver}, settling' \in {0, settling}, Len(configs) \in Nat
    PROVE  HistoryInv'
<1>1. NewestFailureIsReal'
  BY DEF HistoryInv, NewestFailureIsReal, Versions
<1>2. AgentNotAhead'
  BY DEF HistoryInv, AgentNotAhead
<1>3. AcksAreFounded'
  BY DEF HistoryInv, AcksAreFounded, FoundedFrames, Versions
<1> QED
  BY <1>1, <1>2, <1>3 DEF HistoryInv

\* Storing a version: it is pending, and nobody is ahead of the history.
LEMMA HistoryInsert ==
    ASSUME TypeOK, HistoryInv, NEW b \in Bodies, InsertConfig(b),
           UNCHANGED <<up, refused, ver, settling>>
    PROVE  HistoryInv'
<1>1. /\ Len(configs) \in Nat /\ Len(configs') = Len(configs) + 1
      /\ configs'[Len(configs')].applied = 0
  BY DEF InsertConfig, TypeOK, StoreTypeOK
<1>2. NewestFailureIsReal'
  BY <1>1 DEF NewestFailureIsReal
<1>3. AgentNotAhead'
  BY <1>1 DEF HistoryInv, AgentNotAhead, TypeOK, AgentTypeOK
<1>4. AcksAreFounded'
  BY <1>1, FoundedMonotone DEF HistoryInv, AcksAreFounded
<1> QED
  BY <1>2, <1>3, <1>4 DEF HistoryInv

\* Recording an acknowledgement: a failure of the newest version is founded
\* because the frame that reports it is.
LEMMA HistoryAck ==
    ASSUME TypeOK, HistoryInv, NEW s \in Streams, HandleAck(s)
    PROVE  HistoryInv'
<1> DEFINE m == Head(up[s])
<1>1. /\ Len(configs) \in Nat /\ Len(configs') = Len(configs)
      /\ UNCHANGED <<refused, ver, settling>>
  BY AckTyped DEF TypeOK, StoreTypeOK, HandleAck, kernelVars
<1>2. m \in FoundedFrames /\ m.kind = "ack" /\ up' = [up EXCEPT ![s] = Tail(@)]
  BY DEF HandleAck, HistoryInv, AcksAreFounded
<1>3. ASSUME NEW v \in Versions', v = Len(configs'), configs'[v].applied = -1
      PROVE  v \in refused'
  <2>1. v \in Versions /\ v = Len(configs)
    BY <1>1, <1>3 DEF Versions
  <2>2. CASE UNCHANGED configs
    BY <1>1, <1>3, <2>1, <2>2 DEF HistoryInv, NewestFailureIsReal
  <2>3. CASE m.v \in Versions
             /\ configs' = [configs EXCEPT ![m.v].applied = IF m.ok THEN 1 ELSE -1]
    <3>1. CASE v # m.v
      <4>1. configs'[v] = configs[v]
        BY <2>1, <2>3, <3>1 DEF TypeOK, StoreTypeOK, Versions
      <4> QED
        BY <1>1, <1>3, <2>1, <4>1 DEF HistoryInv, NewestFailureIsReal
    <3>2. CASE v = m.v
      <4>1. configs[v] \in Rows
        BY <2>1, BodyTyped DEF TypeOK
      <4>2. configs'[v] = [configs[v] EXCEPT !.applied = IF m.ok THEN 1 ELSE -1]
        BY <2>1, <2>3, <3>2 DEF TypeOK, StoreTypeOK, Versions
      <4>3. ~m.ok
        BY <1>3, <4>1, <4>2 DEF Rows
      <4> QED
        BY <1>1, <1>2, <2>1, <3>2, <4>3 DEF FoundedFrames
    <3> QED
      BY <3>1, <3>2
  <2> QED
    BY <2>2, <2>3 DEF HandleAck
<1>4. NewestFailureIsReal'
  BY <1>3 DEF NewestFailureIsReal
<1>5. AgentNotAhead'
  BY <1>1 DEF HistoryInv, AgentNotAhead
<1>6. up \in [Streams -> Seq(FoundedFrames')]
  BY <1>1, FoundedMonotone DEF HistoryInv
<1>7. AcksAreFounded'
  BY <1>2, <1>6 DEF AcksAreFounded, HandleAck
<1> QED
  BY <1>4, <1>5, <1>7 DEF HistoryInv

\* What the agent adds: every answer of Apply and of its settle window.
LEMMA HistoryAnswer ==
    ASSUME TypeOK, HistoryInv, UNCHANGED configs, astream # NoStream,
           NEW v \in Versions, NEW ok \in BOOLEAN, Send(Ack(v, ok)),
           refused \subseteq refused',
           ok \/ v < Len(configs) \/ v \in refused',
           ver' \in {ver, v}, settling' \in {0, settling}
    PROVE  HistoryInv'
<1>1. Len(configs) \in Nat /\ v \in Nat /\ v <= Len(configs)
  BY DEF TypeOK, StoreTypeOK, Versions
<1>2. NewestFailureIsReal'
  BY DEF HistoryInv, NewestFailureIsReal, Versions
<1>3. AgentNotAhead'
  BY <1>1 DEF HistoryInv, AgentNotAhead
<1>4. Ack(v, ok) \in FoundedFrames'
  BY <1>1 DEF Ack, FoundedFrames, UpFrames, Versions
<1>5. up \in [Streams -> Seq(FoundedFrames')]
  BY <1>1, FoundedMonotone DEF HistoryInv
<1>6. AcksAreFounded'
  BY <1>4, <1>5, SendFounded
<1> QED
  BY <1>2, <1>3, <1>6 DEF HistoryInv

\* HistoryInv is inductive.
LEMMA HistoryStep == ASSUME TypeOK, HistoryInv, [Next]_vars PROVE HistoryInv'
<1>0. Len(configs) \in Nat
  BY DEF TypeOK, StoreTypeOK
<1>1. ASSUME NEW b \in Bodies, StoreConfig(b) PROVE HistoryInv'
  BY <1>1, HistoryInsert DEF StoreConfig, kernelVars
<1>2. ASSUME NEW v \in Versions, RollbackTo(v) PROVE HistoryInv'
  <2>1. Restored[configs[v].body] \in Bodies
    BY BodyTyped, ConstantsAssumption DEF TypeOK
  <2> QED
    BY <1>2, <2>1, HistoryInsert DEF RollbackTo, kernelVars
<1>3. ASSUME NEW s \in Streams, HandleAck(s) PROVE HistoryInv'
  BY <1>3, HistoryAck
<1>4. ASSUME NEW s \in Streams, HandleHeartbeat(s) \/ HandlerReturns(s) PROVE HistoryInv'
  <2>1. /\ UNCHANGED <<configs, refused, ver, settling>>
        /\ \/ up' = [up EXCEPT ![s] = Tail(@)] /\ up[s] # <<>>
           \/ up' = [up EXCEPT ![s] = <<>>]
    BY <1>4 DEF HandleHeartbeat, HandlerReturns, storeVars, kernelVars
  <2>2. NewestFailureIsReal'
    BY <2>1 DEF HistoryInv, NewestFailureIsReal, Versions
  <2>3. AgentNotAhead'
    BY <2>1 DEF HistoryInv, AgentNotAhead
  <2>4. up \in [Streams -> Seq(FoundedFrames')]
    BY <1>0, <2>1, FoundedMonotone DEF HistoryInv
  <2>5. up' \in [Streams -> Seq(FoundedFrames')]
    <3>1. CASE up' = [up EXCEPT ![s] = <<>>]
      BY <2>4, <3>1
    <3>2. CASE up' = [up EXCEPT ![s] = Tail(@)] /\ up[s] # <<>>
      BY <2>4, <3>2
    <3> QED
      BY <2>1, <3>1, <3>2
  <2>6. AcksAreFounded'
    BY <2>5 DEF AcksAreFounded
  <2> QED
    BY <2>2, <2>3, <2>6 DEF HistoryInv
<1>5. CASE CoreRestart
  <2>1. UNCHANGED <<configs, refused, ver, settling>> /\ up' = [s \in Streams |-> <<>>]
    BY <1>5 DEF CoreRestart, kernelVars
  <2> QED
    BY <2>1 DEF HistoryInv, NewestFailureIsReal, AgentNotAhead, AcksAreFounded, Versions
<1>6. ASSUME NEW v \in Versions, ApplyStale(v) PROVE HistoryInv'
  <2>1. /\ Send(Ack(v, FALSE)) /\ Stale(v) /\ astream # NoStream
        /\ UNCHANGED <<configs, refused, ver, settling>>
    BY <1>6 DEF ApplyStale, TakePush, CanSend, storeVars
  <2>2. v < Len(configs)
    BY <1>0, <2>1, BodyTyped DEF Stale, HistoryInv, AgentNotAhead, TypeOK, AgentTypeOK
  <2> QED
    BY <2>1, <2>2, HistoryAnswer
<1>7. ASSUME NEW v \in Versions, ApplyUnchanged(v) PROVE HistoryInv'
  BY <1>7, HistoryAnswer DEF ApplyUnchanged, TakePush, CanSend, storeVars
<1>8. ASSUME NEW v \in Versions, ApplyRejected(v) \/ ApplyStartFails(v) PROVE HistoryInv'
  BY <1>8, HistoryAnswer DEF ApplyRejected, ApplyStartFails, TakePush, CanSend, storeVars
<1>9. ASSUME NEW v \in Versions, ApplyStarts(v) PROVE HistoryInv'
  <2>1. UNCHANGED <<configs, up, refused>> /\ ver' = v /\ settling' = v
    BY <1>9 DEF ApplyStarts, TakePush, storeVars
  <2>2. NewestFailureIsReal' /\ AcksAreFounded'
    BY <2>1 DEF HistoryInv, NewestFailureIsReal, AcksAreFounded, FoundedFrames, Versions
  <2>3. AgentNotAhead'
    BY <1>0, <2>1 DEF AgentNotAhead, Versions
  <2> QED
    BY <2>2, <2>3 DEF HistoryInv
<1>10. CASE SettleOK \/ SettleDied
  <2>1. settling # 0
    BY <1>10 DEF SettleOK, SettleDied
  <2>2. settling \in Versions
    BY <1>0, <2>1 DEF HistoryInv, AgentNotAhead, TypeOK, AgentTypeOK, Versions
  <2> QED
    BY <1>10, <2>2, HistoryAnswer DEF SettleOK, SettleDied, CanSend, storeVars
<1>11. CASE SendHeartbeat
  <2>1. /\ Send(Heartbeat(ver)) /\ astream # NoStream
        /\ UNCHANGED <<configs, refused, ver, settling>>
    BY <1>11 DEF SendHeartbeat, CanSend, storeVars, kernelVars
  <2>2. Heartbeat(ver) \in FoundedFrames'
    BY DEF Heartbeat, FoundedFrames, UpFrames, TypeOK, AgentTypeOK
  <2>3. up \in [Streams -> Seq(FoundedFrames')]
    BY <1>0, <2>1, FoundedMonotone DEF HistoryInv
  <2>4. AcksAreFounded'
    BY <2>1, <2>2, <2>3, SendFounded
  <2> QED
    BY <2>1, <2>4 DEF HistoryInv, NewestFailureIsReal, AgentNotAhead, Versions
<1>12. ASSUME \/ \E v \in Versions : PushStored(v)
              \/ SendRestart \/ PruneConfigs
              \/ \E s \in Streams : \/ Attach(s) \/ ReconcileRead(s) \/ ReconcilePush(s)
                                    \/ ThrottleExpires(s)
       PROVE  HistoryInv'
  BY <1>0, <1>12, HistorySame DEF PushStored, SendRestart, PruneConfigs, Attach,
     ReconcileRead, ReconcilePush, ThrottleExpires, storeVars, kernelVars
<1>13. ASSUME \/ LeaveStream \/ HandleRestart \/ KernelDies \/ AgentDies \/ AgentStarts
              \/ \E s \in Streams : Dial(s) \/ StreamBreaks(s)
       PROVE  HistoryInv'
  BY <1>0, <1>13, HistorySame DEF LeaveStream, HandleRestart, KernelDies, AgentDies,
     AgentStarts, Dial, StreamBreaks, storeVars, kernelVars
<1>14. CASE UNCHANGED vars
  BY <1>0, <1>14, HistorySame DEF vars, storeVars, kernelVars
<1> QED
  BY <1>1, <1>2, <1>3, <1>4, <1>5, <1>6, <1>7, <1>8, <1>9, <1>10, <1>11, <1>12, <1>13,
     <1>14 DEF Next, Core, Agent, HandlePush

(***************************************************************************)
(* The newest version is recorded as failed only if the agent really tried *)
(* it and it failed: reconciliation never skips a good newest config        *)
(* because of a refusal that meant something else.                          *)
(***************************************************************************)
THEOREM NewestFailuresAreReal == Spec => []NewestFailureIsReal
<1>1. Init => HistoryInv
  BY DEF Init, HistoryInv, NewestFailureIsReal, AgentNotAhead, AcksAreFounded, Versions
<1>2. TypeOK /\ HistoryInv /\ [Next]_vars => HistoryInv'
  BY HistoryStep
<1>3. HistoryInv => NewestFailureIsReal
  BY DEF HistoryInv
<1> QED
  BY <1>1, <1>2, <1>3, TypeCorrect, PTL DEF Spec

(***************************************************************************)
(* What is recorded as applied.  Neither a restart of the kernel on command *)
(* nor one of the agent may bring back a body that died: either would run   *)
(* it outside any settle window, and a push of the same bytes then answers  *)
(* for it without one.  So a process outside a window is one that outlived  *)
(* it, one inside runs the version being settled, and an acknowledgement on *)
(* its way back speaks for a body that stays up.                            *)
(***************************************************************************)

Steady == FaultBudget["agent"] = 0 /\ FaultBudget["restart"] = 0

SoundFrames ==
    {m \in UpFrames : m.kind = "ack" /\ m.ok =>
        m.v \in Versions /\ configs[m.v].body \notin Crashing}

NoRestarts ==
    /\ budget["agent"] = 0 /\ budget["restart"] = 0 /\ agentUp
    /\ down \in [Streams -> Seq(Nat \ {0})]

OutlivedWindow ==
    /\ RunningIsOnDisk
    /\ kstate = "RUNNING" =>
          IF settling = 0 THEN running \notin Crashing
          ELSE settling \in Versions /\ running = configs[settling].body

AcksAreSound == up \in [Streams -> Seq(SoundFrames)]

SurvivalInv == NoRestarts /\ OutlivedWindow /\ AcksAreSound /\ AppliedSurvives

\* Bodies are immutable and versions stay: every step keeps what a version stands for.
LEMMA BodiesStay ==
    ASSUME TypeOK, [Next]_vars
    PROVE  \A v \in Versions : v \in Versions' /\ configs'[v].body = configs[v].body
<1>1. ASSUME NEW b, InsertConfig(b)
      PROVE  \A v \in Versions : v \in Versions' /\ configs'[v].body = configs[v].body
  BY <1>1 DEF InsertConfig, TypeOK, StoreTypeOK, Versions
<1>2. ASSUME NEW s \in Streams, HandleAck(s)
      PROVE  \A v \in Versions : v \in Versions' /\ configs'[v].body = configs[v].body
  <2>1. Len(configs') = Len(configs)
    BY <1>2, AckTyped DEF TypeOK
  <2> SUFFICES ASSUME NEW v \in Versions PROVE configs'[v].body = configs[v].body
    BY <2>1 DEF Versions
  <2>2. PICK a : \/ configs' = configs
                 \/ /\ Head(up[s]).v \in Versions
                    /\ configs' = [configs EXCEPT ![Head(up[s]).v].applied = a]
    BY <1>2 DEF HandleAck
  <2>3. CASE configs' = configs
    BY <2>3
  <2>4. CASE /\ Head(up[s]).v \in Versions
             /\ configs' = [configs EXCEPT ![Head(up[s]).v].applied = a]
    <3>1. configs[v] \in Rows
      BY BodyTyped DEF TypeOK
    <3>2. configs'[v] = configs[v] \/ configs'[v] = [configs[v] EXCEPT !.applied = a]
      BY <2>4 DEF TypeOK, StoreTypeOK, Versions
    <3> QED
      BY <3>1, <3>2 DEF Rows
  <2> QED
    BY <2>2, <2>3, <2>4
<1>3. CASE UNCHANGED configs
  BY <1>3 DEF Versions
<1>4. CASE Core
  <2>1. \/ UNCHANGED configs \/ (\E b : InsertConfig(b)) \/ \E s \in Streams : HandleAck(s)
    BY <1>4 DEF Core, StoreConfig, RollbackTo, PushStored, SendRestart, PruneConfigs,
       CoreRestart, Attach, ReconcileRead, ReconcilePush, ThrottleExpires,
       HandleHeartbeat, HandlerReturns, storeVars
  <2> QED
    BY <1>1, <1>2, <1>3, <2>1
<1>5. CASE Agent
  <2>1. UNCHANGED configs
    BY <1>5 DEF Agent, HandlePush, ApplyStale, ApplyUnchanged, ApplyRejected,
       ApplyStartFails, ApplyStarts, TakePush, LeaveStream, SendHeartbeat, SettleOK,
       SettleDied, HandleRestart, KernelDies, AgentDies, AgentStarts, Dial, StreamBreaks,
       storeVars
  <2> QED
    BY <1>3, <2>1
<1> QED
  BY <1>3, <1>4, <1>5 DEF Next, vars, storeVars

\* A frame that speaks for a body that stays up goes on doing so.
LEMMA SoundMonotone ==
    ASSUME TypeOK, [Next]_vars, AcksAreSound
    PROVE  up \in [Streams -> Seq(SoundFrames')]
<1>1. SoundFrames \subseteq SoundFrames'
  BY BodiesStay DEF SoundFrames
<1> QED
  BY <1>1 DEF AcksAreSound

\* What is added to the frames on their way to Core.
LEMMA SendSound ==
    ASSUME TypeOK, up \in [Streams -> Seq(SoundFrames')], astream # NoStream,
           NEW m \in SoundFrames', Send(m)
    PROVE  AcksAreSound'
  BY DEF TypeOK, AgentTypeOK, AcksAreSound, Send

\* Every step keeps the frames sound.
LEMMA AcksStep == ASSUME TypeOK, SurvivalInv, [Next]_vars PROVE AcksAreSound'
<1>0. up \in [Streams -> Seq(SoundFrames')]
  BY SoundMonotone DEF SurvivalInv
<1>1. ASSUME UNCHANGED up PROVE AcksAreSound'
  BY <1>0, <1>1 DEF AcksAreSound
<1>2. ASSUME NEW v, Send(Ack(v, FALSE)), v \in Nat, astream # NoStream PROVE AcksAreSound'
  <2>1. Ack(v, FALSE) \in SoundFrames'
    BY <1>2 DEF Ack, SoundFrames, UpFrames
  <2> QED
    BY <1>0, <1>2, <2>1, SendSound
<1>3. ASSUME NEW v \in Versions, configs[v].body \notin Crashing, Send(Ack(v, TRUE)),
             astream # NoStream
      PROVE  AcksAreSound'
  <2>1. v \in Nat /\ v \in Versions' /\ configs'[v].body \notin Crashing
    BY <1>3, BodiesStay DEF Versions
  <2>2. Ack(v, TRUE) \in SoundFrames'
    BY <2>1 DEF Ack, SoundFrames, UpFrames
  <2> QED
    BY <1>0, <1>3, <2>2, SendSound
<1>4. CASE SendHeartbeat
  <2>1. Send(Heartbeat(ver)) /\ astream # NoStream
    BY <1>4 DEF SendHeartbeat, CanSend
  <2>2. Heartbeat(ver) \in SoundFrames'
    BY DEF Heartbeat, SoundFrames, UpFrames, TypeOK, AgentTypeOK
  <2> QED
    BY <1>0, <2>1, <2>2, SendSound
<1>5. ASSUME NEW v \in Versions, ApplyStale(v) \/ ApplyRejected(v) \/ ApplyStartFails(v)
      PROVE  AcksAreSound'
  <2>1. Send(Ack(v, FALSE)) /\ astream # NoStream
    BY <1>5, Zenon DEF ApplyStale, ApplyRejected, ApplyStartFails, TakePush, CanSend
  <2>2. v \in Nat
    BY DEF Versions
  <2> QED
    BY <1>2, <2>1, <2>2
<1>6. ASSUME NEW v \in Versions, ApplyUnchanged(v) PROVE AcksAreSound'
  <2>1. /\ Send(Ack(v, TRUE)) /\ astream # NoStream
        /\ settling = 0 /\ kstate = "RUNNING" /\ disk = configs[v].body
    BY <1>6 DEF ApplyUnchanged, TakePush, CanSend, Unchanged
  <2>2. configs[v].body \notin Crashing
    BY <2>1 DEF SurvivalInv, OutlivedWindow, RunningIsOnDisk
  <2> QED
    BY <1>3, <2>1, <2>2
<1>7. CASE SettleOK
  <2>1. /\ Send(Ack(settling, TRUE)) /\ astream # NoStream
        /\ settling # 0 /\ kstate = "RUNNING" /\ running \notin Crashing
    BY <1>7 DEF SettleOK, CanSend, StaysUp
  <2>2. settling \in Versions /\ configs[settling].body \notin Crashing
    BY <2>1 DEF SurvivalInv, OutlivedWindow
  <2> QED
    BY <1>3, <2>1, <2>2
<1>8. CASE SettleDied
  BY <1>2, <1>8 DEF SettleDied, CanSend, TypeOK, AgentTypeOK
<1>9. ASSUME NEW s \in Streams, HandleHeartbeat(s) \/ HandleAck(s) PROVE AcksAreSound'
  <2>1. up[s] # <<>> /\ up' = [up EXCEPT ![s] = Tail(@)]
    BY <1>9 DEF HandleHeartbeat, HandleAck
  <2> QED
    BY <1>0, <2>1 DEF AcksAreSound
<1>10. ASSUME NEW s \in Streams, HandlerReturns(s) PROVE AcksAreSound'
  <2>1. up' = [up EXCEPT ![s] = <<>>]
    BY <1>10 DEF HandlerReturns
  <2> QED
    BY <1>0, <2>1 DEF AcksAreSound
<1>11. CASE CoreRestart
  BY <1>11 DEF CoreRestart, AcksAreSound
<1>12. ASSUME \/ \E b \in Bodies : StoreConfig(b)
              \/ \E v \in Versions : RollbackTo(v) \/ PushStored(v) \/ ApplyStarts(v)
              \/ SendRestart \/ PruneConfigs
              \/ \E s \in Streams : \/ Attach(s) \/ ReconcileRead(s) \/ ReconcilePush(s)
                                    \/ ThrottleExpires(s) \/ Dial(s) \/ StreamBreaks(s)
              \/ LeaveStream \/ HandleRestart \/ KernelDies \/ AgentDies \/ AgentStarts
       PROVE  UNCHANGED up
  BY <1>12 DEF StoreConfig, RollbackTo, PushStored, ApplyStarts, SendRestart, PruneConfigs,
     Attach, ReconcileRead, ReconcilePush, ThrottleExpires, Dial, StreamBreaks, LeaveStream,
     HandleRestart, KernelDies, AgentDies, AgentStarts
<1>13. CASE UNCHANGED vars
  BY <1>1, <1>13 DEF vars
<1> QED
  BY <1>1, <1>4, <1>5, <1>6, <1>7, <1>8, <1>9, <1>10, <1>11, <1>12, <1>13
     DEF Next, Core, Agent, HandlePush

\* Without restarts on command the wire has pushes only.
LEMMA NoRestartsStep == ASSUME TypeOK, SurvivalInv, [Next]_vars PROVE NoRestarts'
<1> USE DEF SurvivalInv, NoRestarts
<1>0. budget \in [Faults -> Nat] /\ budget["agent"] = 0 /\ budget["restart"] = 0
  BY DEF TypeOK
<1>1. ~AgentDies /\ ~SendRestart /\ ~AgentStarts
  BY <1>0 DEF AgentDies, SendRestart, AgentStarts, Spend
<1>2. ASSUME NEW f, Spend(f) PROVE budget'["agent"] = 0 /\ budget'["restart"] = 0
  BY <1>0, <1>2 DEF Spend, Faults
<1>3. ASSUME NEW v \in Nat \ {0}, Enqueue(v) PROVE down' \in [Streams -> Seq(Nat \ {0})]
  BY <1>3 DEF Enqueue, TypeOK, HandlerTypeOK
<1>4. ASSUME NEW v, TakePush(v) PROVE down' \in [Streams -> Seq(Nat \ {0})]
  BY <1>4 DEF TakePush, CanSend, TypeOK, AgentTypeOK
<1>5. ASSUME NEW v \in Versions, PushStored(v) PROVE NoRestarts'
  BY <1>3, <1>5 DEF PushStored, Versions
<1>6. ASSUME NEW s \in Streams, ReconcilePush(s) PROVE NoRestarts'
  <2>1. harg[s] \in Nat \ {0}
    BY <1>6 DEF ReconcilePush, TypeOK, HandlerTypeOK, Versions
  <2> QED
    BY <1>3, <1>6, <2>1 DEF ReconcilePush
<1>7. ASSUME NEW v \in Versions,
             \/ ApplyStale(v) \/ ApplyUnchanged(v) \/ ApplyRejected(v)
             \/ ApplyStartFails(v) \/ ApplyStarts(v)
      PROVE  NoRestarts'
  <2>1. TakePush(v) /\ (UNCHANGED budget \/ Spend("start"))
    BY <1>7 DEF ApplyStale, ApplyUnchanged, ApplyRejected, ApplyStartFails, ApplyStarts
  <2> QED
    BY <1>2, <1>4, <2>1 DEF TakePush
<1>8. ~HandleRestart
  <2> SUFFICES ASSUME HandleRestart PROVE FALSE
    OBVIOUS
  <2>1. astream \in Streams /\ down[astream] # <<>> /\ Head(down[astream]) = 0
    BY DEF HandleRestart, RestartFrame, TypeOK, AgentTypeOK
  <2>2. down[astream] \in Seq(Nat \ {0})
    BY <2>1
  <2> QED
    BY <2>1, <2>2
<1>9. ASSUME NEW s \in Streams, HandlerReturns(s) PROVE NoRestarts'
  BY <1>9 DEF HandlerReturns
<1>10. CASE CoreRestart
  <2>1. /\ Spend("core") /\ UNCHANGED agentUp
        /\ down' = [s \in Streams |-> IF s = astream THEN down[s] ELSE <<>>]
    BY <1>10 DEF CoreRestart
  <2> QED
    BY <1>2, <2>1
<1>11. CASE LeaveStream
  BY <1>11 DEF LeaveStream, AgentLeaves
<1>12. ASSUME \/ \E b \in Bodies : StoreConfig(b)
              \/ \E v \in Versions : RollbackTo(v)
              \/ PruneConfigs
              \/ \E s \in Streams : \/ Attach(s) \/ ReconcileRead(s) \/ ThrottleExpires(s)
                                    \/ HandleHeartbeat(s) \/ HandleAck(s)
                                    \/ Dial(s) \/ StreamBreaks(s)
              \/ SendHeartbeat \/ SettleOK \/ SettleDied \/ KernelDies
       PROVE  UNCHANGED <<agentUp, down>> /\ (UNCHANGED budget \/ \E f : Spend(f))
  BY <1>12 DEF StoreConfig, RollbackTo, PruneConfigs, Attach, ReconcileRead,
     ThrottleExpires, HandleHeartbeat, HandleAck, Dial, StreamBreaks, SendHeartbeat,
     SettleOK, SettleDied, KernelDies
<1>13. ASSUME UNCHANGED <<agentUp, down>>, UNCHANGED budget \/ \E f : Spend(f)
       PROVE  NoRestarts'
  BY <1>2, <1>13
<1>14. CASE UNCHANGED vars
  BY <1>13, <1>14 DEF vars
<1> QED
  BY <1>1, <1>5, <1>6, <1>7, <1>8, <1>9, <1>10, <1>11, <1>12, <1>13, <1>14
     DEF Next, Core, Agent, HandlePush

\* A process outside a settle window is one that outlived it.
LEMMA WindowStep == ASSUME TypeOK, SurvivalInv, [Next]_vars PROVE OutlivedWindow'
<1> USE DEF SurvivalInv, OutlivedWindow, RunningIsOnDisk
<1>1. ASSUME UNCHANGED kernelVars PROVE OutlivedWindow'
  BY <1>1, BodiesStay DEF kernelVars
<1>2. ASSUME NEW v \in Versions, ApplyStarts(v) PROVE OutlivedWindow'
  <2>1. /\ disk' = configs[v].body /\ running' = configs[v].body /\ settling' = v
        /\ v \in Versions' /\ configs'[v].body = configs[v].body
    BY <1>2, BodiesStay DEF ApplyStarts, PersistConfig
  <2>2. v # 0
    BY DEF Versions
  <2> QED
    BY <2>1, <2>2
<1>3. ASSUME NEW v \in Versions,
             ApplyStale(v) \/ ApplyUnchanged(v) \/ ApplyRejected(v)
      PROVE  OutlivedWindow'
  <2>1. UNCHANGED <<disk, kstate, running, settling>>
    BY <1>3 DEF ApplyStale, ApplyUnchanged, ApplyRejected
  <2> QED
    BY <2>1, BodiesStay
<1>4. ASSUME \/ KernelDies \/ SettleDied \/ \E v \in Versions : ApplyStartFails(v)
      PROVE  OutlivedWindow'
  <2>1. kstate' # "RUNNING"
    BY <1>4 DEF KernelDies, SettleDied, ApplyStartFails
  <2> QED
    BY <2>1
<1>5. CASE SettleOK
  BY <1>5 DEF SettleOK, StaysUp
<1>6. ~AgentDies /\ ~AgentStarts
  BY DEF NoRestarts, TypeOK, AgentDies, AgentStarts, Spend
<1>7. ~HandleRestart
  <2> SUFFICES ASSUME HandleRestart PROVE FALSE
    OBVIOUS
  <2>1. astream \in Streams /\ down[astream] # <<>> /\ Head(down[astream]) = 0
    BY DEF HandleRestart, RestartFrame, TypeOK, AgentTypeOK
  <2>2. down[astream] \in Seq(Nat \ {0})
    BY <2>1 DEF NoRestarts
  <2> QED
    BY <2>1, <2>2
<1>8. ASSUME LeaveStream \/ SendHeartbeat \/ \E s \in Streams : Dial(s) \/ StreamBreaks(s)
      PROVE  UNCHANGED kernelVars
  BY <1>8 DEF LeaveStream, SendHeartbeat, Dial, StreamBreaks
<1>9. CASE Core
  BY <1>1, <1>9, CoreLeavesNode
<1>10. CASE UNCHANGED vars
  BY <1>1, <1>10 DEF vars
<1> QED
  BY <1>1, <1>2, <1>3, <1>4, <1>5, <1>6, <1>7, <1>8, <1>9, <1>10 DEF Next, Agent, HandlePush

\* Only a sound acknowledgement records a version as applied.
LEMMA AppliedStep == ASSUME TypeOK, SurvivalInv, [Next]_vars PROVE AppliedSurvives'
<1>1. ASSUME NEW v \in Versions', configs'[v].applied = 1,
             v \in Versions, configs[v].applied = 1
      PROVE  configs'[v].body \notin Crashing
  BY <1>1, BodiesStay DEF SurvivalInv, AppliedSurvives
<1>2. CASE UNCHANGED configs
  BY <1>2 DEF SurvivalInv, AppliedSurvives, Versions
<1>3. ASSUME NEW b, InsertConfig(b) PROVE AppliedSurvives'
  <2>1. \A v \in Versions' : (v \in Versions /\ configs'[v] = configs[v]) \/ configs'[v].applied = 0
    BY <1>3 DEF InsertConfig, Versions, TypeOK, StoreTypeOK
  <2> QED
    BY <1>1, <2>1 DEF AppliedSurvives
<1>4. ASSUME NEW s \in Streams, HandleAck(s) PROVE AppliedSurvives'
  <2> DEFINE m == Head(up[s])
  <2>1. m \in SoundFrames /\ m.kind = "ack" /\ Versions' = Versions
    BY <1>4, AckTyped DEF HandleAck, SurvivalInv, AcksAreSound, TypeOK, Versions
  <2>2. PICK a : a = IF m.ok THEN 1 ELSE -1
    OBVIOUS
  <2>3. \/ configs' = configs
        \/ m.v \in Versions /\ configs' = [configs EXCEPT ![m.v].applied = a]
    BY <1>4, <2>2 DEF HandleAck
  <2>4. CASE m.v \in Versions /\ configs' = [configs EXCEPT ![m.v].applied = a]
    <3> SUFFICES ASSUME NEW v \in Versions, configs'[v].applied = 1
                 PROVE  configs'[v].body \notin Crashing
      BY <2>1 DEF AppliedSurvives
    <3>1. CASE v # m.v
      <4>1. configs'[v] = configs[v]
        BY <2>4, <3>1 DEF TypeOK, StoreTypeOK, Versions
      <4> QED
        BY <4>1 DEF SurvivalInv, AppliedSurvives
    <3>2. CASE v = m.v
      <4>1. configs[v] \in Rows
        BY BodyTyped DEF TypeOK
      <4>2. configs'[v] = [configs[v] EXCEPT !.applied = a]
        BY <2>4, <3>2 DEF TypeOK, StoreTypeOK, Versions
      <4>3. m.ok
        BY <2>2, <4>1, <4>2 DEF Rows
      <4> QED
        BY <2>1, <3>2, <4>3, BodiesStay DEF SoundFrames
    <3> QED
      BY <3>1, <3>2
  <2> QED
    BY <1>2, <2>3, <2>4
<1>5. CASE Core
  <2>1. \/ UNCHANGED configs \/ (\E b : InsertConfig(b)) \/ \E s \in Streams : HandleAck(s)
    BY <1>5 DEF Core, StoreConfig, RollbackTo, PushStored, SendRestart, PruneConfigs,
       CoreRestart, Attach, ReconcileRead, ReconcilePush, ThrottleExpires,
       HandleHeartbeat, HandlerReturns, storeVars
  <2> QED
    BY <1>2, <1>3, <1>4, <2>1
<1>6. CASE Agent
  <2>1. UNCHANGED configs
    BY <1>6 DEF Agent, HandlePush, ApplyStale, ApplyUnchanged, ApplyRejected,
       ApplyStartFails, ApplyStarts, TakePush, LeaveStream, SendHeartbeat, SettleOK,
       SettleDied, HandleRestart, KernelDies, AgentDies, AgentStarts, Dial, StreamBreaks,
       storeVars
  <2> QED
    BY <1>2, <2>1
<1> QED
  BY <1>2, <1>5, <1>6 DEF Next, vars, storeVars

(***************************************************************************)
(* As long as neither the agent nor, on command, its kernel is restarted,   *)
(* a body that cannot stay up is never recorded as applied, whatever breaks, *)
(* is reordered, pushed twice or lost, and whenever Core is restarted.      *)
(***************************************************************************)
THEOREM AppliedBodiesSurvive == ASSUME Steady PROVE Spec => []AppliedSurvives
<1>1. Init => SurvivalInv
  BY DEF Steady, Init, SurvivalInv, NoRestarts, OutlivedWindow, RunningIsOnDisk,
     AcksAreSound, AppliedSurvives, Versions
<1>2. TypeOK /\ SurvivalInv /\ [Next]_vars => SurvivalInv'
  <2> SUFFICES ASSUME TypeOK, SurvivalInv, [Next]_vars PROVE SurvivalInv'
    OBVIOUS
  <2> QED
    BY AcksStep, NoRestartsStep, WindowStep, AppliedStep DEF SurvivalInv
<1>3. SurvivalInv => AppliedSurvives
  BY DEF SurvivalInv
<1> QED
  BY <1>1, <1>2, <1>3, TypeCorrect, PTL DEF Spec
=============================================================================
