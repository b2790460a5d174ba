----------------------- MODULE AccessEnforcementProofs -----------------------
(* Proofs about AccessEnforcement, for every value of its constants.       *)
EXTENDS AccessEnforcement, SequenceTheorems, FiniteSetTheorems, TLAPS

(* Type correctness.                                                       *)

\* The initial state is well typed.
LEMMA TypeInit == Init => TypeOK
<1> SUFFICES ASSUME Init PROVE TypeOK
  OBVIOUS
<1>1. DbTypeOK /\ NodeTypeOK
  BY AccessAssumption DEF Init, DbTypeOK, NodeTypeOK, User
<1>2. WireTypeOK
  BY AccessAssumption, EmptySeq DEF Init, WireTypeOK
<1>3. Idle \in Request
  BY DEF Idle, Request
<1> QED
  BY <1>1, <1>2, <1>3, AccessAssumption DEF Init, TypeOK

\* Spending from the budget keeps it a budget.
LEMMA SpendTyped ==
    ASSUME budget \in [Limited -> Nat], NEW f \in Limited, Spend(f)
    PROVE  budget' \in [Limited -> Nat]
  BY DEF Spend

\* A part whose variables do not change keeps its type.
LEMMA DbSame == ASSUME DbTypeOK, UNCHANGED dbVars PROVE DbTypeOK'
  BY DEF DbTypeOK, dbVars

\* The same for the wire.
LEMMA WireSame == ASSUME WireTypeOK, UNCHANGED <<session, queue>> PROVE WireTypeOK'
  BY DEF WireTypeOK

\* The same for the nodes.
LEMMA NodeSame == ASSUME NodeTypeOK, UNCHANGED nodeVars PROVE NodeTypeOK'
  BY DEF NodeTypeOK, nodeVars

\* Where a request goes from a user is a request.
LEMMA AfterUserTyped == ASSUME NEW r \in Request PROVE AfterUser(r) \in Request
  BY DEF AfterUser, Request, Idle

\* Where a request goes from a node is a request.
LEMMA AfterNodeTyped == ASSUME NEW r \in Request PROVE AfterNode(r) \in Request
  BY DEF AfterNode, Request, Idle

\* Entitlement is a truth value.
LEMMA AllowedTyped == ASSUME NEW u PROVE Allowed(u) \in BOOLEAN
  BY Zenon DEF Allowed, Reason

\* Superseding changes no frame but its mark, and no length.
LEMMA SupersededFrames ==
    ASSUME NEW q \in Seq(Frame)
    PROVE  /\ Superseded(q) \in Seq(Frame)
           /\ Len(Superseded(q)) = Len(q)
           /\ \A i \in 1 .. Len(q) : /\ Superseded(q)[i] \in Frame
                                     /\ Superseded(q)[i].kind = "push"
                                           => Superseded(q)[i].newest = FALSE
<1>1. Len(q) \in Nat /\ DOMAIN q = 1 .. Len(q) /\ \A i \in 1 .. Len(q) : q[i] \in Frame
  BY LenProperties, ElementOfSeq
<1>2. DOMAIN Superseded(q) = 1 .. Len(q)
  BY <1>1 DEF Superseded
<1>3. ASSUME NEW i \in 1 .. Len(q)
      PROVE  /\ Superseded(q)[i] \in Frame
             /\ Superseded(q)[i].kind = "push" => Superseded(q)[i].newest = FALSE
  <2>1. q[i] \in Frame
    BY <1>1
  <2>2. CASE q[i].kind = "push"
    <3>1. Superseded(q)[i] = [q[i] EXCEPT !.newest = FALSE]
      BY <1>1, <2>2 DEF Superseded
    <3> QED
      BY <2>1, <2>2, <3>1 DEF Frame
  <2>3. CASE q[i].kind # "push"
    BY <1>1, <2>1, <2>3 DEF Superseded
  <2> QED
    BY <2>2, <2>3
<1>4. Superseded(q) \in [1 .. Len(q) -> Frame]
  BY <1>1, <1>2, <1>3 DEF Superseded
<1>5. Superseded(q) \in Seq(Frame)
  BY <1>1, <1>4, SeqDef
<1>6. DOMAIN Superseded(q) = 1 .. Len(Superseded(q)) /\ Len(Superseded(q)) \in Nat
  BY <1>5, LenProperties
<1>7. Len(Superseded(q)) = Len(q)
  BY <1>1, <1>2, <1>6
<1> QED
  BY <1>3, <1>5, <1>7

\* An assembled body is a set of users.
LEMMA EntitledTyped == ASSUME NEW n PROVE Entitled(n) \in SUBSET Users
  BY DEF Entitled

\* Every step keeps the types of the database.
LEMMA DbStep == ASSUME TypeOK, [Next]_vars PROVE DbTypeOK'
<1>0. DbTypeOK /\ req \in [Slots -> Request]
  BY DEF TypeOK
<1>1. ASSUME NEW u \in Users, Expires(u) \/ UsesUp(u) PROVE DbTypeOK'
  BY <1>0, <1>1 DEF Expires, UsesUp, DbTypeOK, User
<1>2. ASSUME NEW o \in Operators, NEW u \in Users, NEW r \in User, UpdateUser(o, u, r)
      PROVE  DbTypeOK'
  BY <1>0, <1>2 DEF UpdateUser, DbTypeOK
<1>3. ASSUME NEW u \in Users, Renew(u) PROVE DbTypeOK'
  BY <1>0, <1>3 DEF Renew, DbTypeOK, User
<1>4. ASSUME NEW s \in Slots, NEW u \in Users, SyncRead(s, u) PROVE DbTypeOK'
  <2>1. active' = active \/ active' = [active EXCEPT ![u] = Allowed(u)]
    BY <1>4 DEF SyncRead
  <2> QED
    BY <1>0, <1>4, <2>1, AllowedTyped DEF SyncRead, DbTypeOK
<1>5. ASSUME NEW s \in Slots, SyncRecord(s) PROVE DbTypeOK'
  <2>1. req[s].want \in BOOLEAN /\ req[s].user \subseteq Users
    BY <1>0 DEF Request
  <2>2. PICK u \in req[s].user :
           active' = IF req[s].ok THEN [active EXCEPT ![u] = req[s].want] ELSE active
    BY <1>5 DEF SyncRecord
  <2> QED
    BY <1>0, <1>5, <2>1, <2>2 DEF SyncRecord, DbTypeOK
<1>6. ASSUME NEW s \in Slots, StoreAndPush(s) PROVE DbTypeOK'
  <2>1. req[s].body \in SUBSET Users
    BY <1>0 DEF Request
  <2> QED
    BY <1>0, <1>6, <2>1 DEF StoreAndPush, DbTypeOK
<1>7. ASSUME UNCHANGED dbVars PROVE DbTypeOK'
  BY <1>0, <1>7, DbSame
<1>8. ASSUME NEW s \in Slots, RequestStep(s) PROVE DbTypeOK'
  <2>1. ASSUME NEW n \in Nodes, SendOp(s, n) \/ Assemble(s, n) PROVE UNCHANGED dbVars
    BY <2>1 DEF SendOp, Assemble
  <2>2. ASSUME ApplyFails(s) PROVE UNCHANGED dbVars
    BY <2>2 DEF ApplyFails
  <2> QED
    BY <1>3, <1>4, <1>5, <1>6, <1>7, <1>8, <2>1, <2>2 DEF RequestStep
<1>9. ASSUME NEW o \in Operators, NEW n \in Nodes, Deploy(o, n) PROVE UNCHANGED dbVars
  BY <1>9 DEF Deploy
<1>10. ASSUME SweepStarts \/ CoreRestart PROVE UNCHANGED dbVars
  BY <1>10 DEF SweepStarts, CoreRestart
<1>11. ASSUME NEW n \in Nodes,
              \/ AgentStep(n) \/ Reconcile(n) \/ StreamBreaks(n) \/ HandlerReturns(n)
              \/ Reconnect(n) \/ KernelRestarts(n) \/ AgentRestarts(n)
       PROVE  UNCHANGED dbVars
  BY <1>11 DEF AgentStep, TakePush, TakeOp, Reconcile, StreamBreaks, HandlerReturns,
     Reconnect, KernelRestarts, AgentRestarts
<1>12. ASSUME UNCHANGED vars PROVE UNCHANGED dbVars
  BY <1>12 DEF vars
<1> QED
  BY <1>1, <1>2, <1>7, <1>8, <1>9, <1>10, <1>11, <1>12 DEF Next

\* Every step keeps the types of the requests.
LEMMA RequestsStep == ASSUME TypeOK, [Next]_vars PROVE req' \in [Slots -> Request]
<1>0. req \in [Slots -> Request] /\ Idle \in Request
  BY DEF TypeOK, Idle, Request
<1>1. ASSUME NEW s \in Slots, NEW r \in Request, req' = [req EXCEPT ![s] = r]
      PROVE  req' \in [Slots -> Request]
  BY <1>0, <1>1
<1>2. ASSUME NEW o \in Operators, NEW u \in Users, NEW r \in User, UpdateUser(o, u, r)
      PROVE  req' \in [Slots -> Request]
  <2>1. [Idle EXCEPT !.step = "sync", !.todo = {u}, !.dirty = Holds[u]] \in Request
    BY AccessAssumption DEF Idle, Request
  <2> QED
    BY <1>1, <1>2, <2>1 DEF UpdateUser, Begin, Slots
<1>3. ASSUME NEW o \in Operators, NEW n \in Nodes, Deploy(o, n)
      PROVE  req' \in [Slots -> Request]
  <2>1. [Idle EXCEPT !.step = "assemble", !.dirty = {n}] \in Request
    BY DEF Idle, Request
  <2> QED
    BY <1>1, <1>3, <2>1 DEF Deploy, Begin, Slots
<1>4. CASE SweepStarts
  <2>1. [Idle EXCEPT !.step = "sync", !.todo = Users, !.due = {u \in Users : Due(u)}] \in Request
    BY DEF Idle, Request
  <2> QED
    BY <1>1, <1>4, <2>1 DEF SweepStarts, Begin, Slots
<1>5. CASE CoreRestart
  BY <1>0, <1>5 DEF CoreRestart
<1>6. ASSUME NEW s \in Slots, RequestStep(s) PROVE req' \in [Slots -> Request]
  <2>0. req[s] \in Request
    BY <1>0
  <2>1. ASSUME NEW u \in Users, SyncRead(s, u) PROVE req' \in [Slots -> Request]
    <3> DEFINE r == [req[s] EXCEPT !.todo = @ \ {u}]
    <3> DEFINE t == [r EXCEPT !.step = "send", !.user = {u}, !.want = Allowed(u),
                              !.send = Holds[u], !.ok = TRUE]
    <3>1. r \in Request
      BY <2>0 DEF Request
    <3>2. req' = [req EXCEPT ![s] = AfterUser(r)] \/ req' = [req EXCEPT ![s] = t]
      BY <2>1 DEF SyncRead
    <3> HIDE DEF r
    <3>3. t \in Request
      BY <3>1, AllowedTyped, AccessAssumption DEF Request
    <3> QED
      BY <1>1, <3>1, <3>2, <3>3, AfterUserTyped
  <2>2. ASSUME NEW u \in Users, s = Sweep, Renew(u) PROVE req' \in [Slots -> Request]
    BY <1>0, <2>0, <2>2 DEF Renew, Request
  <2>3. ASSUME NEW n \in Nodes, SendOp(s, n) PROVE req' \in [Slots -> Request]
    <3> DEFINE ok == req[s].ok /\ Accepts(n)
    <3>1. ok \in BOOLEAN
      BY Zenon
    <3>2. req' = [req EXCEPT ![s] = [req[s] EXCEPT !.send = @ \ {n}, !.ok = ok]]
      BY <1>0, <2>3 DEF SendOp
    <3> HIDE DEF ok
    <3>3. [req[s] EXCEPT !.send = @ \ {n}, !.ok = ok] \in Request
      BY <2>0, <3>1 DEF Request
    <3> QED
      BY <1>1, <3>2, <3>3
  <2>4. ASSUME NEW n \in Nodes, Assemble(s, n) PROVE req' \in [Slots -> Request]
    <3>1. [req[s] EXCEPT !.step = "store", !.node = {n}, !.body = Entitled(n)] \in Request
      BY <2>0, EntitledTyped DEF Request
    <3>2. req' = [req EXCEPT ![s] =
                    [req[s] EXCEPT !.step = "store", !.node = {n}, !.body = Entitled(n)]]
      BY <1>0, <2>4 DEF Assemble
    <3> QED
      BY <1>1, <3>1, <3>2
  <2>5. ASSUME SyncRecord(s) PROVE req' \in [Slots -> Request]
    <3>1. PICK u \in req[s].user : req' = [req EXCEPT ![s] = AfterUser(
              [req[s] EXCEPT !.user = {}, !.dirty = @ \cup Touched(s, u)])]
      BY <2>5 DEF SyncRecord
    <3>2. [req[s] EXCEPT !.user = {}, !.dirty = @ \cup Touched(s, u)] \in Request
      BY <2>0, AccessAssumption DEF Request, Touched
    <3> QED
      BY <1>1, <3>1, <3>2, AfterUserTyped
  <2>6. ASSUME StoreAndPush(s) \/ ApplyFails(s) PROVE req' \in [Slots -> Request]
    <3>1. req' = [req EXCEPT ![s] = AfterNode(req[s])]
      BY <2>6 DEF StoreAndPush, ApplyFails
    <3> QED
      BY <1>1, <2>0, <3>1, AfterNodeTyped
  <2> QED
    BY <1>6, <2>1, <2>2, <2>3, <2>4, <2>5, <2>6 DEF RequestStep
<1>7. ASSUME NEW n \in Nodes,
              \/ AgentStep(n) \/ Reconcile(n) \/ StreamBreaks(n) \/ HandlerReturns(n)
              \/ Reconnect(n) \/ KernelRestarts(n) \/ AgentRestarts(n)
       PROVE  UNCHANGED req
  BY <1>7 DEF AgentStep, TakePush, TakeOp, Reconcile, StreamBreaks, HandlerReturns,
     Reconnect, KernelRestarts, AgentRestarts
<1>8. ASSUME NEW u \in Users, Expires(u) \/ UsesUp(u) PROVE UNCHANGED req
  BY <1>8 DEF Expires, UsesUp
<1>9. ASSUME UNCHANGED vars PROVE UNCHANGED req
  BY <1>9 DEF vars
<1> QED
  BY <1>0, <1>2, <1>3, <1>4, <1>5, <1>6, <1>7, <1>8, <1>9 DEF Next

\* Frames are frames.
LEMMA FramesTyped ==
    /\ \A us \in SUBSET Users, b \in BOOLEAN : Push(us, b) \in Frame
    /\ \A u \in Users, b \in BOOLEAN : Op(u, b) \in Frame
  BY DEF Push, Op, Frame

\* Appending to a queue that accepts, and taking its head, keep within the bound.
LEMMA QueueBound ==
    ASSUME NEW q \in Seq(Frame), Len(q) <= QueueCap
    PROVE  /\ \A f \in Frame : /\ Append(q, f) \in Seq(Frame)
                                /\ Len(q) < QueueCap => Len(Append(q, f)) <= QueueCap
           /\ q # <<>> => Tail(q) \in Seq(Frame) /\ Len(Tail(q)) <= QueueCap
  BY AccessAssumption

\* Every step keeps the types of sessions and queues, and queues within bounds.
LEMMA WireStep == ASSUME TypeOK, [Next]_vars PROVE WireTypeOK'
<1>0. /\ DbTypeOK /\ WireTypeOK /\ req \in [Slots -> Request]
      /\ QueueCap \in Nat \ {0}
  BY AccessAssumption DEF TypeOK
<1>1. ASSUME NEW n \in Nodes, NEW q \in Seq(Frame), Len(q) <= QueueCap,
             queue' = [queue EXCEPT ![n] = q]
      PROVE  queue' \in [Nodes -> Seq(Frame)] /\ \A m \in Nodes : Len(queue'[m]) <= QueueCap
  BY <1>0, <1>1 DEF WireTypeOK
<1>2. ASSUME NEW s \in Slots, NEW n \in Nodes, SendOp(s, n) PROVE WireTypeOK'
  <2>1. req[s].user \subseteq Users /\ req[s].want \in BOOLEAN
    BY <1>0 DEF Request
  <2>2. PICK u \in req[s].user :
           queue' = IF Accepts(n) THEN [queue EXCEPT ![n] = Append(@, Op(u, req[s].want))]
                                  ELSE queue
    BY <1>2 DEF SendOp
  <2>3. Op(u, req[s].want) \in Frame
    BY <2>1, FramesTyped
  <2>4. CASE Accepts(n)
    <3>1. queue' = [queue EXCEPT ![n] = Append(queue[n], Op(u, req[s].want))]
      BY <2>2, <2>4
    <3>2. queue[n] \in Seq(Frame) /\ Len(queue[n]) < QueueCap
      BY <1>0, <2>4 DEF WireTypeOK, Accepts
    <3>3. /\ Append(queue[n], Op(u, req[s].want)) \in Seq(Frame)
          /\ Len(Append(queue[n], Op(u, req[s].want))) <= QueueCap
      BY <1>0, <2>3, <3>2, QueueBound
    <3> QED
      BY <1>0, <1>1, <1>2, <3>1, <3>3 DEF WireTypeOK, SendOp
  <2>5. CASE ~Accepts(n)
    BY <1>0, <1>2, <2>2, <2>5 DEF WireTypeOK, SendOp
  <2> QED
    BY <2>4, <2>5
<1>3. ASSUME NEW s \in Slots, StoreAndPush(s) PROVE WireTypeOK'
  <2>1. req[s].node \subseteq Nodes /\ req[s].body \in SUBSET Users
    BY <1>0 DEF Request
  <2>2. PICK n \in req[s].node :
           queue' = [queue EXCEPT ![n] =
                IF Accepts(n) THEN Append(Superseded(@), Push(req[s].body, TRUE))
                              ELSE Superseded(@)]
    BY <1>3 DEF StoreAndPush
  <2>3. n \in Nodes /\ queue[n] \in Seq(Frame) /\ Len(queue[n]) <= QueueCap
    BY <1>0, <2>1 DEF WireTypeOK
  <2>4. Superseded(queue[n]) \in Seq(Frame) /\ Len(Superseded(queue[n])) = Len(queue[n])
    BY <2>3, SupersededFrames
  <2>5. Push(req[s].body, TRUE) \in Frame
    BY <2>1, FramesTyped
  <2>6. CASE Accepts(n)
    <3>1. queue' = [queue EXCEPT ![n] = Append(Superseded(queue[n]), Push(req[s].body, TRUE))]
      BY <2>2, <2>6
    <3>2. ASSUME NEW f \in Frame
          PROVE  /\ Append(Superseded(queue[n]), f) \in Seq(Frame)
                 /\ Len(Append(Superseded(queue[n]), f)) <= QueueCap
      BY <2>3, <2>4, <2>6, QueueBound DEF Accepts
    <3> QED
      BY <1>0, <1>1, <1>3, <2>3, <2>5, <3>1, <3>2 DEF WireTypeOK, StoreAndPush
  <2>7. CASE ~Accepts(n)
    <3>1. queue' = [queue EXCEPT ![n] = Superseded(queue[n])]
      BY <2>2, <2>7
    <3> QED
      BY <1>0, <1>1, <1>3, <2>3, <2>4, <3>1 DEF WireTypeOK, StoreAndPush
  <2> QED
    BY <2>6, <2>7
<1>4. ASSUME NEW n \in Nodes, AgentStep(n) PROVE WireTypeOK'
  <2>1. queue[n] # <<>> /\ queue' = [queue EXCEPT ![n] = Tail(queue[n])] /\ UNCHANGED session
    BY <1>4 DEF AgentStep, TakePush, TakeOp
  <2>2. Tail(queue[n]) \in Seq(Frame) /\ Len(Tail(queue[n])) <= QueueCap
    BY <1>0, <2>1, QueueBound DEF WireTypeOK
  <2> QED
    BY <1>0, <1>1, <2>1, <2>2 DEF WireTypeOK
<1>5. ASSUME NEW n \in Nodes, Reconcile(n) PROVE WireTypeOK'
  <2>1. Push(stored[n], TRUE) \in Frame
    BY <1>0, FramesTyped DEF DbTypeOK
  <2>2. Len(queue[n]) < QueueCap /\ queue[n] \in Seq(Frame)
    BY <1>0, <1>5 DEF WireTypeOK, Reconcile
  <2>3. ASSUME NEW f \in Frame
        PROVE  Append(queue[n], f) \in Seq(Frame) /\ Len(Append(queue[n], f)) <= QueueCap
    BY <1>0, <2>2, QueueBound
  <2> QED
    BY <1>0, <1>1, <1>5, <2>1, <2>3 DEF WireTypeOK, Reconcile
<1>6. ASSUME NEW n \in Nodes, Reconnect(n) PROVE WireTypeOK'
  <2>1. Push(stored[n], TRUE) \in Frame
    BY <1>0, FramesTyped DEF DbTypeOK
  <2>2. ASSUME NEW f \in Frame PROVE <<f>> \in Seq(Frame) /\ Len(<<f>>) <= QueueCap
    BY <1>0
  <2> QED
    BY <1>0, <1>1, <1>6, <2>1, <2>2 DEF WireTypeOK, Reconnect
<1>7. ASSUME NEW n \in Nodes, StreamBreaks(n) \/ AgentRestarts(n) PROVE WireTypeOK'
  BY <1>0, <1>7 DEF StreamBreaks, AgentRestarts, WireTypeOK
<1>8. ASSUME NEW n \in Nodes, HandlerReturns(n) PROVE WireTypeOK'
  BY <1>0, <1>1, <1>8 DEF HandlerReturns, WireTypeOK
<1>9. CASE CoreRestart
  BY <1>0, <1>9 DEF CoreRestart, WireTypeOK
<1>10. ASSUME UNCHANGED <<session, queue>> PROVE WireTypeOK'
  BY <1>0, <1>10, WireSame
<1>11. ASSUME NEW s \in Slots, RequestStep(s) PROVE WireTypeOK'
  <2>1. ASSUME NEW u \in Users, SyncRead(s, u) \/ Renew(u) PROVE UNCHANGED <<session, queue>>
    BY <2>1 DEF SyncRead, Renew
  <2>2. ASSUME NEW n \in Nodes, Assemble(s, n) PROVE UNCHANGED <<session, queue>>
    BY <2>2 DEF Assemble
  <2>3. ASSUME SyncRecord(s) \/ ApplyFails(s) PROVE UNCHANGED <<session, queue>>
    BY <2>3 DEF SyncRecord, ApplyFails
  <2> QED
    BY <1>2, <1>3, <1>10, <1>11, <2>1, <2>2, <2>3 DEF RequestStep
<1>12. ASSUME NEW u \in Users, \/ Expires(u) \/ UsesUp(u)
                                \/ \E o \in Operators, r \in User : UpdateUser(o, u, r)
       PROVE  UNCHANGED <<session, queue>>
  BY <1>12 DEF Expires, UsesUp, UpdateUser
<1>13. ASSUME NEW n \in Nodes, KernelRestarts(n) \/ \E o \in Operators : Deploy(o, n)
       PROVE  UNCHANGED <<session, queue>>
  BY <1>13 DEF KernelRestarts, Deploy
<1>14. ASSUME SweepStarts \/ UNCHANGED vars PROVE UNCHANGED <<session, queue>>
  BY <1>14 DEF SweepStarts, vars
<1> QED
  BY <1>4, <1>5, <1>6, <1>7, <1>8, <1>9, <1>10, <1>11, <1>12, <1>13, <1>14 DEF Next

\* Every step keeps the types of the nodes.
LEMMA NodeStep == ASSUME TypeOK, [Next]_vars PROVE NodeTypeOK'
<1>0. /\ NodeTypeOK /\ WireTypeOK
      /\ req \in [Slots -> Request]
  BY DEF TypeOK
<1>1. ASSUME NEW s \in Slots, StoreAndPush(s) PROVE NodeTypeOK'
  BY <1>0, <1>1 DEF StoreAndPush, NodeTypeOK
<1>2. ASSUME NEW n \in Nodes, TakePush(n) PROVE NodeTypeOK'
  <2>1. Head(queue[n]) \in Frame /\ Head(queue[n]).kind = "push"
    BY <1>0, <1>2, HeadTailProperties DEF TakePush, WireTypeOK
  <2>2. Head(queue[n]).newest \in BOOLEAN /\ Head(queue[n]).users \in SUBSET Users
    BY <2>1 DEF Frame
  <2>3. current' \in [Nodes -> BOOLEAN]
    BY <1>0, <1>2, <2>2 DEF TakePush, NodeTypeOK
  <2>4. disk' \in [Nodes -> SUBSET Users] /\ live' \in [Nodes -> SUBSET Users]
    BY <1>0, <1>2, <2>2 DEF TakePush, NodeTypeOK
  <2> QED
    BY <2>3, <2>4 DEF NodeTypeOK
<1>3. ASSUME NEW n \in Nodes, TakeOp(n) PROVE NodeTypeOK'
  <2>1. Head(queue[n]) \in Frame /\ Head(queue[n]).kind = "op"
    BY <1>0, <1>3, HeadTailProperties DEF TakeOp, WireTypeOK
  <2>2. Head(queue[n]).user \in Users
    BY <2>1 DEF Frame
  <2>3. \/ live' = live
        \/ live' = [live EXCEPT ![n] = @ \cup {Head(queue[n]).user}]
        \/ live' = [live EXCEPT ![n] = @ \ {Head(queue[n]).user}]
    BY <1>3 DEF TakeOp
  <2> QED
    BY <1>0, <1>3, <2>2, <2>3 DEF TakeOp, NodeTypeOK
<1>4. ASSUME NEW n \in Nodes, KernelRestarts(n) \/ AgentRestarts(n) PROVE NodeTypeOK'
  BY <1>0, <1>4 DEF KernelRestarts, AgentRestarts, NodeTypeOK
<1>5. ASSUME UNCHANGED nodeVars PROVE NodeTypeOK'
  BY <1>0, <1>5, NodeSame
<1>6. ASSUME NEW s \in Slots, RequestStep(s) PROVE NodeTypeOK'
  <2>1. ASSUME NEW u \in Users, SyncRead(s, u) \/ Renew(u) PROVE UNCHANGED nodeVars
    BY <2>1 DEF SyncRead, Renew
  <2>2. ASSUME NEW n \in Nodes, Assemble(s, n) \/ SendOp(s, n) PROVE UNCHANGED nodeVars
    BY <2>2 DEF Assemble, SendOp
  <2>3. ASSUME SyncRecord(s) \/ ApplyFails(s) PROVE UNCHANGED nodeVars
    BY <2>3 DEF SyncRecord, ApplyFails
  <2> QED
    BY <1>1, <1>5, <1>6, <2>1, <2>2, <2>3 DEF RequestStep
<1>7. ASSUME NEW n \in Nodes, \/ Reconcile(n) \/ StreamBreaks(n) \/ HandlerReturns(n)
                               \/ Reconnect(n) \/ \E o \in Operators : Deploy(o, n)
      PROVE  UNCHANGED nodeVars
  BY <1>7 DEF Reconcile, StreamBreaks, HandlerReturns, Reconnect, Deploy
<1>8. ASSUME NEW u \in Users, \/ Expires(u) \/ UsesUp(u)
                               \/ \E o \in Operators, r \in User : UpdateUser(o, u, r)
      PROVE  UNCHANGED nodeVars
  BY <1>8 DEF Expires, UsesUp, UpdateUser
<1>9. ASSUME SweepStarts \/ CoreRestart \/ UNCHANGED vars PROVE UNCHANGED nodeVars
  BY <1>9 DEF SweepStarts, CoreRestart, vars
<1> QED
  BY <1>2, <1>3, <1>4, <1>5, <1>6, <1>7, <1>8, <1>9 DEF Next, AgentStep

\* Every step keeps the budget a budget.
LEMMA BudgetStep == ASSUME TypeOK, [Next]_vars PROVE budget' \in [Limited -> Nat]
<1>0. budget \in [Limited -> Nat]
  BY DEF TypeOK
<1>1. ASSUME NEW f \in Limited, Spend(f) PROVE budget' \in [Limited -> Nat]
  BY <1>0, <1>1, SpendTyped
<1>2. {"update", "deploy", "expire", "use", "apply", "op", "break", "agent", "restart", "core"}
         \subseteq Limited
  BY DEF Limited
<1>3. ASSUME NEW s \in Slots, RequestStep(s) PROVE budget' = budget \/ Spend("apply")
  BY <1>3 DEF RequestStep, SyncRead, Renew, SendOp, Assemble, SyncRecord, StoreAndPush, ApplyFails
<1>4. ASSUME NEW n \in Nodes, AgentStep(n) PROVE budget' = budget \/ Spend("op")
  BY <1>4 DEF AgentStep, TakePush, TakeOp
<1>5. ASSUME NEW n \in Nodes, \/ Reconcile(n) \/ StreamBreaks(n) \/ HandlerReturns(n)
                               \/ Reconnect(n) \/ KernelRestarts(n) \/ AgentRestarts(n)
      PROVE  budget' = budget \/ Spend("break") \/ Spend("restart") \/ Spend("agent")
  BY <1>5 DEF Reconcile, StreamBreaks, HandlerReturns, Reconnect, KernelRestarts, AgentRestarts
<1>6. ASSUME NEW u \in Users, \/ Expires(u) \/ UsesUp(u)
                               \/ \E o \in Operators, r \in User : UpdateUser(o, u, r)
      PROVE  Spend("expire") \/ Spend("use") \/ Spend("update")
  BY <1>6 DEF Expires, UsesUp, UpdateUser
<1>7. ASSUME NEW o \in Operators, NEW n \in Nodes, Deploy(o, n) PROVE Spend("deploy")
  BY <1>7 DEF Deploy
<1>8. ASSUME SweepStarts \/ CoreRestart \/ UNCHANGED vars PROVE budget' = budget \/ Spend("core")
  BY <1>8 DEF SweepStarts, CoreRestart, vars
<1> QED
  BY <1>0, <1>1, <1>2, <1>3, <1>4, <1>5, <1>6, <1>7, <1>8 DEF Next

\* For any number of users, nodes, requests and faults, every variable keeps its
\* type and no send queue outgrows its channel (manager.go enqueue).
THEOREM TypeCorrect == Spec => []TypeOK
<1>1. TypeOK /\ [Next]_vars => TypeOK'
  BY DbStep, WireStep, NodeStep, RequestsStep, BudgetStep DEF TypeOK
<1> QED
  BY <1>1, TypeInit, PTL DEF Spec

-----------------------------------------------------------------------------
(* A node on the newest version has its users on disk.  What is still on the *)
(* wire has to be known too: a push marked newest carries the stored users.  *)

FreshFrames(n) ==
    {f \in Frame : f.kind = "push" => (f.newest => f.users = stored[n])}

NewestIsStored == \A n \in Nodes : queue[n] \in Seq(FreshFrames(n))

FreshInv == CurrentIsStored /\ NewestIsStored

\* A converged fleet with empty queues.
LEMMA FreshInit == Init => FreshInv
  BY EmptySeq DEF Init, FreshInv, CurrentIsStored, NewestIsStored

\* Frames that are fresh: operations, pushes of older versions, and the push of what
\* is stored.
LEMMA FreshKinds ==
    ASSUME DbTypeOK, NEW n \in Nodes
    PROVE  /\ \A u \in Users, b \in BOOLEAN : Op(u, b) \in FreshFrames(n)
           /\ Push(stored[n], TRUE) \in FreshFrames(n)
<1>1. \A u \in Users, b \in BOOLEAN : Op(u, b) \in Frame /\ Op(u, b).kind = "op"
  BY DEF Op, Frame
<1>2. Push(stored[n], TRUE) \in Frame /\ Push(stored[n], TRUE).users = stored[n]
  BY DEF DbTypeOK, Push, Frame
<1> QED
  BY <1>1, <1>2 DEF FreshFrames

\* A step that stores nothing, and queues at most one fresh frame or takes some off.
LEMMA QueueFresh ==
    ASSUME TypeOK, NewestIsStored, UNCHANGED stored, NEW n \in Nodes,
           NEW q \in Seq(FreshFrames(n)), queue' = [queue EXCEPT ![n] = q]
    PROVE  NewestIsStored'
<1>1. \A m \in Nodes : queue'[m] \in Seq(FreshFrames(m))
  BY DEF NewestIsStored, TypeOK, WireTypeOK
<1> QED
  BY <1>1 DEF NewestIsStored, FreshFrames

\* A step that touches neither the stored configs, the queues nor the files, and
\* declares no node current.
LEMMA FreshIdle ==
    ASSUME FreshInv, UNCHANGED <<stored, queue, disk>>,
           \A n \in Nodes : current'[n] => current[n]
    PROVE  FreshInv'
<1>1. CurrentIsStored'
  BY DEF FreshInv, CurrentIsStored
<1>2. NewestIsStored'
  BY DEF FreshInv, NewestIsStored, FreshFrames
<1> QED
  BY <1>1, <1>2 DEF FreshInv

\* Storing a version supersedes what is queued, and no node is on the new one yet.
LEMMA FreshStore ==
    ASSUME TypeOK, FreshInv, NEW s \in Slots, StoreAndPush(s) PROVE FreshInv'
<1>0. /\ req[s] \in Request
      /\ queue \in [Nodes -> Seq(Frame)]
      /\ stored \in [Nodes -> SUBSET Users]
      /\ current \in [Nodes -> BOOLEAN]
  BY DEF TypeOK, WireTypeOK, DbTypeOK, NodeTypeOK
<1>1. req[s].node \subseteq Nodes /\ req[s].body \in SUBSET Users
  BY <1>0 DEF Request
<1>2. PICK n \in req[s].node :
         /\ stored' = [stored EXCEPT ![n] = req[s].body]
         /\ current' = [current EXCEPT ![n] = FALSE]
         /\ queue' = [queue EXCEPT ![n] =
                IF Accepts(n) THEN Append(Superseded(@), Push(req[s].body, TRUE))
                              ELSE Superseded(@)]
         /\ disk' = disk
  BY DEF StoreAndPush
<1>3. n \in Nodes /\ queue[n] \in Seq(Frame)
  BY <1>0, <1>1, <1>2
<1>4. CurrentIsStored'
  BY <1>0, <1>2, <1>3 DEF FreshInv, CurrentIsStored
<1>5. Superseded(queue[n]) \in Seq(FreshFrames(n)')
  <2> DEFINE q == Superseded(queue[n])
  <2>1. /\ q \in Seq(Frame)
        /\ \A i \in 1 .. Len(q) : q[i] \in Frame /\ (q[i].kind = "push" => q[i].newest = FALSE)
    BY <1>3, SupersededFrames
  <2> HIDE DEF q
  <2>2. \A i \in 1 .. Len(q) : q[i] \in FreshFrames(n)'
    BY <2>1 DEF FreshFrames
  <2>3. Len(q) \in Nat /\ q \in [1 .. Len(q) -> Frame]
    BY <2>1, LenProperties
  <2>4. q \in [1 .. Len(q) -> FreshFrames(n)']
    BY <2>2, <2>3
  <2>5. q \in Seq(FreshFrames(n)')
    BY <2>3, <2>4, SeqDef
  <2> QED
    BY <2>5 DEF q
<1>6. Push(req[s].body, TRUE) \in FreshFrames(n)'
  <2>1. DbTypeOK' /\ stored'[n] = req[s].body
    BY <1>0, <1>1, <1>2, <1>3 DEF TypeOK, DbTypeOK, StoreAndPush
  <2>2. Push(req[s].body, TRUE) \in Frame /\ Push(req[s].body, TRUE).users = req[s].body
    BY <1>1 DEF Push, Frame
  <2> QED
    BY <2>1, <2>2 DEF FreshFrames
<1>7. queue'[n] \in Seq(FreshFrames(n)')
  <2>1. ASSUME NEW f \in FreshFrames(n)', NEW q \in Seq(FreshFrames(n)')
        PROVE  Append(q, f) \in Seq(FreshFrames(n)')
    OBVIOUS
  <2> QED
    BY <1>0, <1>2, <1>3, <1>5, <1>6, <2>1
<1>8. ASSUME NEW m \in Nodes, m # n PROVE queue'[m] \in Seq(FreshFrames(m)')
  <2>1. queue'[m] = queue[m] /\ stored'[m] = stored[m]
    BY <1>0, <1>2, <1>3, <1>8
  <2> QED
    BY <2>1 DEF FreshInv, NewestIsStored, FreshFrames
<1>9. NewestIsStored'
  BY <1>7, <1>8 DEF NewestIsStored
<1> QED
  BY <1>4, <1>9 DEF FreshInv

\* Taking a push: a node becomes current only with the stored users in its file.
LEMMA FreshTake ==
    ASSUME TypeOK, FreshInv, NEW n \in Nodes, TakePush(n) PROVE FreshInv'
<1> DEFINE f == Head(queue[n])
<1>1. queue[n] \in Seq(FreshFrames(n)) /\ queue[n] # <<>> /\ f.kind = "push"
  BY DEF FreshInv, NewestIsStored, TakePush
<1>2. f \in FreshFrames(n) /\ Tail(queue[n]) \in Seq(FreshFrames(n))
  BY <1>1, HeadTailProperties
<1>3. /\ queue' = [queue EXCEPT ![n] = Tail(queue[n])]
      /\ UNCHANGED stored
      /\ current' = [current EXCEPT ![n] = f.newest]
      /\ \/ disk[n] = f.users /\ disk' = disk
         \/ disk' = [disk EXCEPT ![n] = f.users]
  BY DEF TakePush, Unchanged, dbVars
<1>4. NewestIsStored'
  BY <1>2, <1>3, QueueFresh DEF FreshInv
<1>5. f.newest => f.users = stored[n]
  BY <1>1, <1>2 DEF FreshFrames
<1> HIDE DEF f
<1>6. disk \in [Nodes -> SUBSET Users] /\ current \in [Nodes -> BOOLEAN]
  BY DEF TypeOK, NodeTypeOK
<1>7. disk'[n] = f.users /\ \A m \in Nodes : m # n => disk'[m] = disk[m]
  BY <1>3, <1>6
<1>8. ASSUME NEW m \in Nodes, current'[m] PROVE disk'[m] = stored'[m]
  <2>1. CASE m = n
    <3>1. f.newest
      BY <1>3, <1>6, <1>8, <2>1
    <3> QED
      BY <1>3, <1>5, <1>7, <2>1, <3>1
  <2>2. CASE m # n
    BY <1>3, <1>6, <1>7, <1>8, <2>2 DEF FreshInv, CurrentIsStored
  <2> QED
    BY <2>1, <2>2
<1>9. CurrentIsStored'
  BY <1>8 DEF CurrentIsStored
<1> QED
  BY <1>4, <1>9 DEF FreshInv

\* FreshInv is inductive.
LEMMA FreshStep == ASSUME TypeOK, FreshInv, [Next]_vars PROVE FreshInv'
<1>0. /\ DbTypeOK /\ queue \in [Nodes -> Seq(Frame)] /\ req \in [Slots -> Request]
      /\ current \in [Nodes -> BOOLEAN]
      /\ \A n \in Nodes : queue[n] \in Seq(FreshFrames(n))
  BY DEF TypeOK, WireTypeOK, NodeTypeOK, FreshInv, NewestIsStored
<1>1. ASSUME NEW n \in Nodes, NEW q \in Seq(FreshFrames(n)),
             queue' = [queue EXCEPT ![n] = q], UNCHANGED <<stored, disk, current>>
      PROVE  FreshInv'
  BY <1>1, QueueFresh DEF FreshInv, CurrentIsStored
<1>2. ASSUME NEW n \in Nodes, NEW f \in FreshFrames(n)
      PROVE  /\ Append(queue[n], f) \in Seq(FreshFrames(n))
             /\ <<f>> \in Seq(FreshFrames(n))
  BY <1>0
<1>3. ASSUME UNCHANGED <<stored, queue, disk, current>> PROVE FreshInv'
  BY <1>3, FreshIdle
<1>4. ASSUME NEW s \in Slots, RequestStep(s) PROVE FreshInv'
  <2>1. ASSUME NEW n \in Nodes, SendOp(s, n) PROVE FreshInv'
    <3>1. req[s].user \subseteq Users /\ req[s].want \in BOOLEAN
      BY <1>0 DEF Request
    <3>2. PICK u \in req[s].user :
             queue' = IF Accepts(n) THEN [queue EXCEPT ![n] = Append(@, Op(u, req[s].want))]
                                    ELSE queue
      BY <2>1 DEF SendOp
    <3>3. Op(u, req[s].want) \in FreshFrames(n)
      BY <1>0, <3>1, FreshKinds
    <3>4. UNCHANGED <<stored, disk, current>>
      BY <2>1 DEF SendOp, dbVars, nodeVars
    <3>5. \/ queue' = queue
          \/ queue' = [queue EXCEPT ![n] = Append(queue[n], Op(u, req[s].want))]
      BY <3>2
    <3> QED
      BY <1>1, <1>2, <1>3, <3>3, <3>4, <3>5
  <2>2. ASSUME NEW u \in Users, SyncRead(s, u) \/ Renew(u) PROVE FreshInv'
    BY <1>3, <2>2 DEF SyncRead, Renew, nodeVars
  <2>3. ASSUME NEW n \in Nodes, Assemble(s, n) PROVE FreshInv'
    BY <1>3, <2>3 DEF Assemble, dbVars, nodeVars
  <2>4. ASSUME SyncRecord(s) \/ ApplyFails(s) PROVE FreshInv'
    BY <1>3, <2>4 DEF SyncRecord, ApplyFails, dbVars, nodeVars
  <2>5. ASSUME StoreAndPush(s) PROVE FreshInv'
    BY <2>5, FreshStore
  <2> QED
    BY <1>4, <2>1, <2>2, <2>3, <2>4, <2>5 DEF RequestStep
<1>5. ASSUME NEW n \in Nodes, AgentStep(n) PROVE FreshInv'
  <2>1. ASSUME TakeOp(n) PROVE FreshInv'
    <3>1. /\ queue' = [queue EXCEPT ![n] = Tail(queue[n])] /\ queue[n] # <<>>
          /\ UNCHANGED <<stored, disk, current>>
      BY <2>1 DEF TakeOp, dbVars
    <3>2. Tail(queue[n]) \in Seq(FreshFrames(n))
      BY <1>0, <3>1, HeadTailProperties
    <3> QED
      BY <1>1, <3>1, <3>2
  <2> QED
    BY <1>5, <2>1, FreshTake DEF AgentStep
<1>6. ASSUME NEW n \in Nodes, Reconcile(n) PROVE FreshInv'
  BY <1>0, <1>1, <1>2, <1>6, FreshKinds DEF Reconcile, dbVars, nodeVars
<1>7. ASSUME NEW n \in Nodes, Reconnect(n) PROVE FreshInv'
  BY <1>0, <1>1, <1>2, <1>7, FreshKinds DEF Reconnect, dbVars, nodeVars
<1>8. ASSUME NEW n \in Nodes, HandlerReturns(n) PROVE FreshInv'
  <2>1. <<>> \in Seq(FreshFrames(n))
    BY EmptySeq
  <2> QED
    BY <1>1, <1>8, <2>1 DEF HandlerReturns, dbVars, nodeVars
<1>9. ASSUME NEW n \in Nodes, AgentRestarts(n) PROVE FreshInv'
  BY <1>0, <1>9, FreshIdle DEF AgentRestarts, dbVars
<1>10. ASSUME NEW n \in Nodes, StreamBreaks(n) \/ KernelRestarts(n) PROVE FreshInv'
  BY <1>3, <1>10 DEF StreamBreaks, KernelRestarts, dbVars, nodeVars
<1>11. CASE CoreRestart
  <2>1. CurrentIsStored'
    BY <1>11 DEF CoreRestart, dbVars, nodeVars, FreshInv, CurrentIsStored
  <2>2. \A n \in Nodes : queue'[n] = <<>>
    BY <1>11 DEF CoreRestart
  <2>3. NewestIsStored'
    BY <2>2, EmptySeq DEF NewestIsStored
  <2> QED
    BY <2>1, <2>3 DEF FreshInv
<1>12. ASSUME NEW u \in Users, \/ Expires(u) \/ UsesUp(u)
                                \/ \E o \in Operators, r \in User : UpdateUser(o, u, r)
       PROVE  FreshInv'
  BY <1>3, <1>12 DEF Expires, UsesUp, UpdateUser, nodeVars
<1>13. ASSUME NEW o \in Operators, NEW n \in Nodes, Deploy(o, n) PROVE FreshInv'
  BY <1>3, <1>13 DEF Deploy, dbVars, nodeVars
<1>14. ASSUME SweepStarts \/ UNCHANGED vars PROVE FreshInv'
  BY <1>3, <1>14 DEF SweepStarts, vars, dbVars, nodeVars
<1> QED
  BY <1>4, <1>5, <1>6, <1>7, <1>8, <1>9, <1>10, <1>11, <1>12, <1>13, <1>14 DEF Next

\* For any number of users, nodes, overlapping requests and faults, a node that
\* reports the newest version has that version's users in its file (Apply's
\* identical-content guard, reconcileConfig).
THEOREM CurrentConfigIsStored == Spec => []CurrentIsStored
<1>1. FreshInv /\ TypeOK /\ [Next]_vars => FreshInv'
  BY FreshStep
<1>2. FreshInv => CurrentIsStored
  BY DEF FreshInv
<1> QED
  BY <1>1, <1>2, FreshInit, TypeCorrect, PTL DEF Spec

(* What is stored once nothing is in flight, for requests one at a time.  A user *)
(* who is allowed is believed to be installed and is in every config; one who is *)
(* believed gone is in no config, or the request in flight has the config still  *)
(* to rewrite.                                                                   *)

Calm ==
    /\ MaxInFlight = 1 /\ Regrants = FALSE /\ Renewing = {}
    /\ Budget["apply"] = 0 /\ Budget["core"] = 0

OneRequest ==
    /\ budget["apply"] = 0 /\ budget["core"] = 0
    /\ \A s, t \in InFlight : s = t

\* What the request at s is doing: it only ever cuts off, and the config it has assembled
\* has everybody who is allowed and nobody who is believed gone.
RequestSound(s) ==
    /\ req[s].due = {}
    /\ req[s].step = "send" => req[s].want = FALSE /\ \A u \in req[s].user : ~Allowed(u)
    /\ req[s].step = "store" =>
          \E n \in Nodes :
             /\ req[s].node = {n}
             /\ \A u \in Users : /\ u \in req[s].body => active[u]
                                 /\ Allowed(u) /\ n \in Holds[u] => u \in req[s].body

Rewrites(n) == \E s \in Slots : req[s].step # "idle" /\ n \in req[s].dirty

UsersSound ==
    \A u \in Users :
        /\ Allowed(u) => active[u] /\ \A n \in Holds[u] : u \in stored[n]
        /\ ~active[u] => \A n \in Holds[u] : u \notin stored[n] \/ Rewrites(n)

StoredInv == OneRequest /\ UsersSound /\ \A s \in Slots : RequestSound(s)

\* Nothing starts beside a request in flight.
LEMMA BeginsAlone ==
    ASSUME Calm, NEW s \in Slots, NEW r, Begin(s, r)
    PROVE  InFlight = {}
<1>1. IsFiniteSet(Slots)
  BY AccessAssumption, FS_AddElement DEF Slots
<1>2. IsFiniteSet(InFlight)
  BY <1>1, FS_Subset DEF InFlight
<1>3. Cardinality(InFlight) \in Nat /\ Cardinality(InFlight) < 1
  BY <1>2, FS_CardinalityType DEF Begin, Calm
<1> QED
  BY <1>2, <1>3, FS_EmptySet

\* Nobody who is cut off is let in again, and budgets that are empty stay so.
LEMMA OnlyCutsOff ==
    ASSUME TypeOK, Calm, StoredInv, [Next]_vars
    PROVE  /\ \A u \in Users : Allowed(u)' => Allowed(u)
           /\ budget'["apply"] = 0 /\ budget'["core"] = 0
<1>0. users \in [Users -> User] /\ budget \in [Limited -> Nat]
  BY DEF TypeOK, DbTypeOK
<1>1. ASSUME NEW f, Spend(f) PROVE budget'["apply"] = 0 /\ budget'["core"] = 0
  BY <1>0, <1>1 DEF Spend, StoredInv, OneRequest, Limited
<1>2. UNCHANGED budget \/ \E f : Spend(f)
  BY DEF Next, Expires, UsesUp, UpdateUser, Deploy, SweepStarts, CoreRestart, RequestStep,
     SyncRead, Renew, SendOp, Assemble, SyncRecord, StoreAndPush, ApplyFails, AgentStep,
     TakePush, TakeOp, Reconcile, StreamBreaks, HandlerReturns, Reconnect, KernelRestarts,
     AgentRestarts, vars
<1>3. budget'["apply"] = 0 /\ budget'["core"] = 0
  BY <1>1, <1>2 DEF StoredInv, OneRequest
<1>4. ASSUME NEW v \in Users, Expires(v) \/ UsesUp(v), NEW u \in Users, Allowed(u)'
      PROVE  Allowed(u)
  BY <1>0, <1>4 DEF Expires, UsesUp, Allowed, Reason, User
<1>5. ASSUME NEW o \in Operators, NEW v \in Users, NEW r \in User, UpdateUser(o, v, r),
             NEW u \in Users, Allowed(u)'
      PROVE  Allowed(u)
  <2>1. users' = [users EXCEPT ![v] = r] /\ (Reason(r) => Allowed(v))
    BY <1>5 DEF UpdateUser, Calm
  <2> QED
    BY <1>0, <1>5, <2>1 DEF Allowed
<1>6. ASSUME NEW v \in Users, Renew(v) PROVE FALSE
  BY <1>6 DEF Renew, StoredInv, RequestSound, Slots
<1>7. ASSUME UNCHANGED users, NEW u \in Users, Allowed(u)' PROVE Allowed(u)
  BY <1>7 DEF Allowed
<1>8. \/ UNCHANGED users
      \/ \E v \in Users : Expires(v) \/ UsesUp(v) \/ Renew(v)
      \/ \E o \in Operators, v \in Users, r \in User : UpdateUser(o, v, r)
  BY DEF Next, Deploy, SweepStarts, CoreRestart, RequestStep,
     SyncRead, SendOp, Assemble, SyncRecord, StoreAndPush, ApplyFails, AgentStep,
     TakePush, TakeOp, Reconcile, StreamBreaks, HandlerReturns, Reconnect, KernelRestarts,
     AgentRestarts, vars, dbVars
<1> QED
  BY <1>3, <1>4, <1>5, <1>6, <1>7, <1>8

\* A step that is no request's keeps the invariant.
LEMMA StoredElsewhere ==
    ASSUME TypeOK, Calm, StoredInv, [Next]_vars, UNCHANGED <<active, stored, req>>
    PROVE  StoredInv'
<1>1. \A u \in Users : Allowed(u)' => Allowed(u)
  BY OnlyCutsOff
<1>2. OneRequest'
  BY OnlyCutsOff DEF StoredInv, OneRequest, InFlight
<1>3. UsersSound'
  BY <1>1 DEF StoredInv, UsersSound, Rewrites
<1>4. ASSUME NEW s \in Slots PROVE RequestSound(s)'
  <2>1. RequestSound(s) /\ req[s].user \subseteq Users
    BY DEF StoredInv, TypeOK, Request
  <2> QED
    BY <1>1, <2>1 DEF RequestSound
<1> QED
  BY <1>2, <1>3, <1>4 DEF StoredInv

\* A request that starts is the only one.
LEMMA StoredBegin ==
    ASSUME TypeOK, Calm, StoredInv, [Next]_vars, UNCHANGED <<active, stored>>,
           NEW s \in Slots, NEW r, Begin(s, r), r.due = {}, r.step \in {"sync", "assemble"}
    PROVE  StoredInv'
<1>0. req \in [Slots -> Request]
  BY DEF TypeOK
<1>1. \A u \in Users : Allowed(u)' => Allowed(u)
  BY OnlyCutsOff
<1>2. \A t \in Slots : req[t].step = "idle"
  BY BeginsAlone DEF InFlight
<1>3. \A t \in Slots : req'[t] = IF t = s THEN r ELSE req[t]
  BY <1>0 DEF Begin
<1>4. OneRequest'
  BY <1>2, <1>3, OnlyCutsOff DEF OneRequest, InFlight
<1>5. ~ \E n : Rewrites(n)
  BY <1>2 DEF Rewrites
<1>6. UsersSound'
  BY <1>1, <1>5 DEF StoredInv, UsersSound
<1>7. \A t \in Slots : RequestSound(t)'
  BY <1>2, <1>3 DEF StoredInv, RequestSound
<1> QED
  BY <1>4, <1>6, <1>7 DEF StoredInv

\* The request at s goes on as r, which keeps the nodes it has to rewrite.
LEMMA StoredOn ==
    ASSUME TypeOK, Calm, StoredInv, [Next]_vars, UNCHANGED stored,
           NEW s \in Slots, req[s].step # "idle",
           NEW r, req' = [req EXCEPT ![s] = r],
           req[s].dirty # {} => r.step # "idle" /\ req[s].dirty \subseteq r.dirty,
           \A u \in Users : \/ active'[u] = active[u]
                            \/ ~Allowed(u) /\ ~active'[u] /\ (Holds[u] # {} => r.step # "idle" /\ Holds[u] \subseteq r.dirty),
           RequestSound(s)'
    PROVE  StoredInv'
<1>0. req \in [Slots -> Request]
  BY DEF TypeOK
<1>1. \A u \in Users : Allowed(u)' => Allowed(u)
  BY OnlyCutsOff
<1>2. \A t \in Slots : req'[t] = IF t = s THEN r ELSE req[t]
  BY <1>0
<1>3. \A t \in Slots : t # s => req[t].step = "idle"
  BY DEF StoredInv, OneRequest, InFlight
<1>4. OneRequest'
  BY <1>2, <1>3, OnlyCutsOff DEF OneRequest, InFlight
<1>5. \A n : Rewrites(n) => Rewrites(n)'
  BY <1>2, <1>3 DEF Rewrites
<1>6. UsersSound'
  <2> SUFFICES ASSUME NEW u \in Users
               PROVE  /\ Allowed(u)' => active'[u] /\ \A n \in Holds[u] : u \in stored[n]
                      /\ ~active'[u] => \A n \in Holds[u] : u \notin stored[n] \/ Rewrites(n)'
    BY DEF UsersSound
  <2>1. CASE active'[u] = active[u]
    BY <1>1, <1>5, <2>1 DEF StoredInv, UsersSound
  <2>2. CASE /\ ~Allowed(u) /\ ~active'[u]
             /\ Holds[u] # {} => r.step # "idle" /\ Holds[u] \subseteq r.dirty
    <3>1. \A n \in Holds[u] : Rewrites(n)'
      BY <1>2, <2>2 DEF Rewrites
    <3> QED
      BY <1>1, <2>2, <3>1
  <2> QED
    BY <2>1, <2>2
<1>7. ASSUME NEW t \in Slots, t # s PROVE RequestSound(t)'
  BY <1>2, <1>3, <1>7 DEF StoredInv, RequestSound
<1> QED
  BY <1>4, <1>6, <1>7 DEF StoredInv

\* Where a request goes from a user: it keeps the nodes it has to rewrite.
LEMMA AfterUserKeeps ==
    ASSUME NEW r \in Request
    PROVE  /\ r.dirty # {} => AfterUser(r).step # "idle" /\ AfterUser(r).dirty = r.dirty
           /\ AfterUser(r).step \in {"idle", "sync", "assemble"}
           /\ r.due = {} => AfterUser(r).due = {}
  BY DEF AfterUser, Request, Idle

\* SyncUser's read only ever starts to cut a user off.
LEMMA StoredRead ==
    ASSUME TypeOK, Calm, StoredInv, [Next]_vars, NEW s \in Slots, NEW u \in Users, SyncRead(s, u)
    PROVE  StoredInv'
<1>0. /\ req[s] \in Request /\ req \in [Slots -> Request] /\ RequestSound(s)
      /\ active \in [Users -> BOOLEAN] /\ Allowed(u) \in BOOLEAN
      /\ Holds[u] \subseteq Nodes
  BY AllowedTyped, AccessAssumption DEF TypeOK, DbTypeOK, StoredInv
<1>1. PICK r : r = [req[s] EXCEPT !.todo = @ \ {u}]
  OBVIOUS
<1>2. /\ r \in Request /\ r.dirty = req[s].dirty /\ r.due = {}
      /\ req[s].step = "sync" /\ UNCHANGED <<stored, users>>
  BY <1>0, <1>1 DEF Request, SyncRead, RequestSound
<1>3. CASE UNCHANGED active /\ req' = [req EXCEPT ![s] = AfterUser(r)]
  <2>1. req'[s] = AfterUser(r)
    BY <1>0, <1>3
  <2>2. RequestSound(s)'
    BY <1>2, <2>1, AfterUserKeeps DEF RequestSound
  <2> QED
    BY <1>2, <1>3, <2>2, AfterUserKeeps, StoredOn
<1>4. CASE /\ Allowed(u) # active[u] /\ Holds[u] = {}
           /\ active' = [active EXCEPT ![u] = Allowed(u)]
           /\ req' = [req EXCEPT ![s] = AfterUser(r)]
  <2>1. req'[s] = AfterUser(r)
    BY <1>0, <1>4
  <2>2. RequestSound(s)'
    BY <1>2, <2>1, AfterUserKeeps DEF RequestSound
  <2>3. ~Allowed(u)
    BY <1>0, <1>4 DEF StoredInv, UsersSound
  <2>4. \A v \in Users : \/ active'[v] = active[v]
                         \/ ~Allowed(v) /\ ~active'[v] /\ Holds[v] = {}
    BY <1>0, <1>4, <2>3
  <2> QED
    BY <1>2, <1>4, <2>2, <2>4, AfterUserKeeps, StoredOn
<1>5. ASSUME Allowed(u) # active[u], UNCHANGED active,
             req' = [req EXCEPT ![s] = [r EXCEPT !.step = "send", !.user = {u},
                            !.want = Allowed(u), !.send = Holds[u], !.ok = TRUE]]
      PROVE  StoredInv'
  <2>1. ~Allowed(u)
    BY <1>0, <1>5 DEF StoredInv, UsersSound
  <2>2. PICK t : t = [r EXCEPT !.step = "send", !.user = {u},
                            !.want = Allowed(u), !.send = Holds[u], !.ok = TRUE]
    OBVIOUS
  <2>3. /\ t.step = "send" /\ t.user = {u} /\ t.want = Allowed(u)
        /\ t.dirty = req[s].dirty /\ t.due = {}
    BY <1>2, <2>2 DEF Request
  <2>4. req' = [req EXCEPT ![s] = t] /\ req'[s] = t
    BY <1>0, <1>5, <2>2
  <2>5. ~Allowed(u)'
    BY <2>1, OnlyCutsOff
  <2>6. t.want = FALSE
    BY <1>0, <2>1, <2>3
  <2>7. RequestSound(s)'
    BY <2>3, <2>4, <2>5, <2>6 DEF RequestSound
  <2> QED
    BY <1>2, <1>5, <2>3, <2>4, <2>7, StoredOn
<1> QED
  BY <1>1, <1>3, <1>4, <1>5 DEF SyncRead

\* Sending and recording: the user in hand is cut off, and the user's nodes follow.
LEMMA StoredSync ==
    ASSUME TypeOK, Calm, StoredInv, [Next]_vars, NEW s \in Slots,
           SyncRecord(s) \/ \E n \in Nodes : SendOp(s, n)
    PROVE  StoredInv'
<1>0. /\ req[s] \in Request /\ req \in [Slots -> Request] /\ RequestSound(s)
      /\ active \in [Users -> BOOLEAN] /\ req[s].step = "send"
      /\ req[s].want = FALSE /\ \A u \in req[s].user : u \in Users /\ ~Allowed(u)
      /\ req[s].due = {}
  BY DEF TypeOK, DbTypeOK, StoredInv, SyncRecord, SendOp, RequestSound, Request
<1>1. ASSUME NEW n \in Nodes, SendOp(s, n) PROVE StoredInv'
  <2>1. PICK ok : req' = [req EXCEPT ![s] = [req[s] EXCEPT !.send = @ \ {n}, !.ok = ok]]
    BY <1>0, <1>1 DEF SendOp
  <2>2. PICK t : t = [req[s] EXCEPT !.send = @ \ {n}, !.ok = ok]
    OBVIOUS
  <2>3. /\ t.step = "send" /\ t.user = req[s].user /\ t.want = FALSE
        /\ t.dirty = req[s].dirty /\ t.due = {}
    BY <1>0, <2>2 DEF Request
  <2>4. req' = [req EXCEPT ![s] = t] /\ req'[s] = t
    BY <1>0, <2>1, <2>2
  <2>5. RequestSound(s)'
    BY <1>0, <2>3, <2>4, OnlyCutsOff DEF RequestSound
  <2> QED
    BY <1>0, <1>1, <2>3, <2>4, <2>5, StoredOn DEF SendOp, dbVars
<1>2. CASE SyncRecord(s)
  <2>1. PICK u \in req[s].user :
          /\ active' = IF req[s].ok THEN [active EXCEPT ![u] = req[s].want] ELSE active
          /\ req' = [req EXCEPT ![s] = AfterUser([req[s] EXCEPT !.user = {},
                                            !.dirty = @ \cup Touched(s, u)])]
    BY <1>2 DEF SyncRecord
  <2>2. PICK t : t = [req[s] EXCEPT !.user = {}, !.dirty = @ \cup Touched(s, u)]
    OBVIOUS
  <2>3. t \in Request /\ t.dirty = req[s].dirty \cup Holds[u] /\ t.due = {}
    BY <1>0, <2>2, AccessAssumption DEF Request, Touched
  <2>4. req' = [req EXCEPT ![s] = AfterUser(t)] /\ req'[s] = AfterUser(t)
    BY <1>0, <2>1, <2>2
  <2>5. RequestSound(s)'
    BY <2>3, <2>4, AfterUserKeeps DEF RequestSound
  <2>6. active' = [active EXCEPT ![u] = FALSE] \/ active' = active
    BY <1>0, <2>1
  <2>8. \A v \in Users : active'[v] = active[v] \/ (v = u /\ ~active'[v])
    BY <1>0, <2>6
  <2>7. UNCHANGED stored
    BY <1>2 DEF SyncRecord
  <2>9. PICK r : r = AfterUser(t)
    OBVIOUS
  <2>10. /\ t.dirty # {} => r.step # "idle" /\ r.dirty = t.dirty
         /\ req' = [req EXCEPT ![s] = r]
    BY <2>3, <2>4, <2>9, AfterUserKeeps
  <2>11. req[s].dirty # {} => r.step # "idle" /\ req[s].dirty \subseteq r.dirty
    BY <2>3, <2>10
  <2>12. Holds[u] # {} => r.step # "idle" /\ Holds[u] \subseteq r.dirty
    BY <2>3, <2>10
  <2>13. \A v \in Users :
           \/ active'[v] = active[v]
           \/ ~Allowed(v) /\ ~active'[v] /\ (Holds[v] # {} => r.step # "idle" /\ Holds[v] \subseteq r.dirty)
    BY <1>0, <2>8, <2>12
  <2> QED
    BY <1>0, <2>5, <2>7, <2>10, <2>11, <2>13, StoredOn
<1> QED
  BY <1>1, <1>2

\* Apply's assembly: from the users of the moment.
LEMMA StoredAssemble ==
    ASSUME TypeOK, Calm, StoredInv, [Next]_vars, NEW s \in Slots, NEW n \in Nodes, Assemble(s, n)
    PROVE  StoredInv'
<1>0. /\ req[s] \in Request /\ req \in [Slots -> Request] /\ RequestSound(s)
      /\ req[s].step = "assemble" /\ req[s].due = {}
  BY DEF TypeOK, StoredInv, Assemble, RequestSound
<1>1. PICK t : t = [req[s] EXCEPT !.step = "store", !.node = {n}, !.body = Entitled(n)]
  OBVIOUS
<1>2. /\ t.step = "store" /\ t.node = {n} /\ t.body = Entitled(n)
      /\ t.dirty = req[s].dirty /\ t.due = {}
  BY <1>0, <1>1 DEF Request
<1>3. req' = [req EXCEPT ![s] = t] /\ req'[s] = t /\ UNCHANGED <<users, active, stored>>
  BY <1>0, <1>1 DEF Assemble, dbVars
<1>4. \A u \in Users : /\ u \in Entitled(n) => active[u]
                       /\ Allowed(u) /\ n \in Holds[u] => u \in Entitled(n)
  BY DEF Entitled, StoredInv, UsersSound
<1>5. RequestSound(s)'
  BY <1>2, <1>3, <1>4 DEF RequestSound, Allowed
<1> QED
  BY <1>0, <1>2, <1>3, <1>5, StoredOn

\* Storing it: the node has exactly what was assembled, and only other nodes are left.
LEMMA StoredStore ==
    ASSUME TypeOK, Calm, StoredInv, [Next]_vars, NEW s \in Slots, StoreAndPush(s)
    PROVE  StoredInv'
<1>0. /\ req[s] \in Request /\ req \in [Slots -> Request] /\ RequestSound(s)
      /\ req[s].step = "store" /\ req[s].due = {} /\ stored \in [Nodes -> SUBSET Users]
  BY DEF TypeOK, DbTypeOK, StoredInv, StoreAndPush, RequestSound
<1>1. PICK n \in Nodes :
         /\ req[s].node = {n}
         /\ \A u \in Users : /\ u \in req[s].body => active[u]
                             /\ Allowed(u) /\ n \in Holds[u] => u \in req[s].body
  BY <1>0 DEF RequestSound
<1>2. /\ stored' = [stored EXCEPT ![n] = req[s].body] /\ UNCHANGED <<users, active>>
      /\ req' = [req EXCEPT ![s] = AfterNode(req[s])]
  BY <1>1 DEF StoreAndPush
<1>3. PICK r : r = AfterNode(req[s])
  OBVIOUS
<1>4. /\ r.due = {} /\ r.step \in {"idle", "assemble"}
      /\ \A m : m \in req[s].dirty /\ m # n => r.step # "idle" /\ m \in r.dirty
  BY <1>0, <1>1, <1>3 DEF AfterNode, Request, Idle
<1>5. \A t \in Slots : req'[t] = IF t = s THEN r ELSE req[t]
  BY <1>0, <1>2, <1>3
<1>6. \A t \in Slots : t # s => req[t].step = "idle"
  BY <1>0 DEF StoredInv, OneRequest, InFlight
<1>7. OneRequest'
  BY <1>5, <1>6, OnlyCutsOff DEF OneRequest, InFlight
<1>8. \A m : m # n /\ Rewrites(m) => Rewrites(m)'
  BY <1>4, <1>5, <1>6 DEF Rewrites
<1>9. UsersSound'
  <2> SUFFICES ASSUME NEW u \in Users
               PROVE  /\ Allowed(u) => active[u] /\ \A m \in Holds[u] : u \in stored'[m]
                      /\ ~active[u] => \A m \in Holds[u] : u \notin stored'[m] \/ Rewrites(m)'
    BY <1>2 DEF UsersSound, Allowed
  <2>1. \A m \in Holds[u] : m \in Nodes /\ stored'[m] = IF m = n THEN req[s].body ELSE stored[m]
    BY <1>0, <1>2, AccessAssumption
  <2> QED
    BY <1>1, <1>8, <2>1 DEF StoredInv, UsersSound
<1>10. \A t \in Slots : RequestSound(t)'
  BY <1>2, <1>4, <1>5, <1>6 DEF StoredInv, RequestSound
<1> QED
  BY <1>7, <1>9, <1>10 DEF StoredInv

\* StoredInv is inductive.
LEMMA StoredStep == ASSUME TypeOK, Calm, StoredInv, [Next]_vars PROVE StoredInv'
<1>1. ASSUME NEW u \in Users, Expires(u) \/ UsesUp(u) PROVE StoredInv'
  BY <1>1, StoredElsewhere DEF Expires, UsesUp
<1>2. ASSUME NEW o \in Operators, NEW u \in Users, NEW r \in User, UpdateUser(o, u, r)
      PROVE  StoredInv'
  <2>1. PICK j : j = [Idle EXCEPT !.step = "sync", !.todo = {u}, !.dirty = Holds[u]]
    OBVIOUS
  <2>2. j.due = {} /\ j.step = "sync"
    BY <2>1 DEF Idle
  <2>3. Begin(o, j) /\ UNCHANGED <<active, stored>> /\ o \in Slots
    BY <1>2, <2>1 DEF UpdateUser, Slots
  <2> QED
    BY <2>2, <2>3, StoredBegin
<1>3. ASSUME NEW o \in Operators, NEW n \in Nodes, Deploy(o, n) PROVE StoredInv'
  <2>1. PICK j : j = [Idle EXCEPT !.step = "assemble", !.dirty = {n}]
    OBVIOUS
  <2>2. j.due = {} /\ j.step = "assemble"
    BY <2>1 DEF Idle
  <2>3. Begin(o, j) /\ UNCHANGED <<active, stored>> /\ o \in Slots
    BY <1>3, <2>1 DEF Deploy, Slots, dbVars
  <2> QED
    BY <2>2, <2>3, StoredBegin
<1>4. CASE SweepStarts
  <2>1. {u \in Users : Due(u)} = {}
    BY DEF Due, Calm
  <2>2. PICK j : j = [Idle EXCEPT !.step = "sync", !.todo = Users, !.due = {u \in Users : Due(u)}]
    OBVIOUS
  <2>3. j.due = {} /\ j.step = "sync"
    BY <2>1, <2>2 DEF Idle
  <2>4. Begin(Sweep, j) /\ UNCHANGED <<active, stored>> /\ Sweep \in Slots
    BY <1>4, <2>2 DEF SweepStarts, Slots, dbVars
  <2> QED
    BY <2>3, <2>4, StoredBegin
<1>5. ~CoreRestart /\ \A s : ~ApplyFails(s)
  BY DEF CoreRestart, ApplyFails, Spend, StoredInv, OneRequest
<1>6. ASSUME NEW s \in Slots, RequestStep(s) PROVE StoredInv'
  <2>1. ASSUME NEW u \in Users, Renew(u) PROVE FALSE
    BY <2>1 DEF Renew, StoredInv, RequestSound, Slots
  <2> QED
    BY <1>5, <1>6, <2>1, StoredRead, StoredSync, StoredAssemble, StoredStore DEF RequestStep
<1>7. ASSUME NEW n \in Nodes,
              \/ AgentStep(n) \/ Reconcile(n) \/ StreamBreaks(n) \/ HandlerReturns(n)
              \/ Reconnect(n) \/ KernelRestarts(n) \/ AgentRestarts(n)
       PROVE  UNCHANGED <<active, stored, req>>
  BY <1>7 DEF AgentStep, TakePush, TakeOp, Reconcile, StreamBreaks, HandlerReturns,
     Reconnect, KernelRestarts, AgentRestarts, dbVars
<1>8. ASSUME UNCHANGED vars PROVE UNCHANGED <<active, stored, req>>
  BY <1>8 DEF vars, dbVars
<1> QED
  BY <1>1, <1>2, <1>3, <1>4, <1>5, <1>6, <1>7, <1>8, StoredElsewhere DEF Next

\* "Correctness lives in the stored config" (enforce.go, ApplyUserNodes), for any users, nodes,
\* losses, restarts of agents and kernels and refused operations, as long as requests do not
\* overlap or fail half way and nobody is let in again.
THEOREM SettledStays == ASSUME Calm PROVE Spec => []SettledIsStored
<1>1. Init => StoredInv
  <2> SUFFICES ASSUME Init PROVE StoredInv
    OBVIOUS
  <2>1. \A s \in Slots : req[s].step = "idle" /\ req[s].due = {}
    BY DEF Init, Idle
  <2>2. OneRequest
    BY <2>1 DEF OneRequest, InFlight, Init, Calm
  <2>3. UsersSound
    BY AccessAssumption DEF UsersSound, Init
  <2>4. \A s \in Slots : RequestSound(s)
    BY <2>1 DEF RequestSound
  <2> QED
    BY <2>2, <2>3, <2>4 DEF StoredInv
<1>2. TypeOK /\ StoredInv /\ [Next]_vars => StoredInv'
  BY StoredStep
<1>3. StoredInv => SettledIsStored
  BY DEF StoredInv, UsersSound, SettledIsStored, Rewrites, InFlight
<1> QED
  BY <1>1, <1>2, <1>3, TypeCorrect, PTL DEF Spec
==============================================================================
