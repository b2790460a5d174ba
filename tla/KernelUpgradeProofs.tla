------------------------- MODULE KernelUpgradeProofs -------------------------
(* Proofs about KernelUpgrade, for every value of its constants.           *)
EXTENDS KernelUpgrade, SequenceTheorems, FiniteSetTheorems, TLAPS

(* Type correctness.  TypeOK leaves open what a record holds beyond the    *)
(* fields it names; Typed says it in full.                                 *)

Upgrade == [ver : Kernels, canary : Nodes, state : InFlight \cup {"done"}, abandoned : BOOLEAN]
Row     == [ver : Kernels \cup {None}, phase : Phases]
Kinds   == {"oneoff", "canary", "promoting"}
Tasks   == [num : Nat, kind : Kinds, id : Nat, node : Nodes, ver : Kernels,
            activate : BOOLEAN, step : {"fetch", "send", "end"}, todo : SUBSET Nodes,
            failed : BOOLEAN]
Command == [ver : Kernels, activate : BOOLEAN]
Attempt == [ver : Kernels, activate : BOOLEAN, stage : {"fetch", "activate"}, live : BOOLEAN]

Advancing == [at : {"advance"}, st : Status]
Checking  == [at : {"check"}, id : Nat]
Finishing == [at : {"finish"}, id : Nat, from : InFlight,
              to : {"blocked", "awaiting_promote", "done"}, alert : BOOLEAN]
Places    == {Idle} \cup Advancing \cup Checking \cup Finishing

StoreTyped == upgrades \in Seq(Upgrade) /\ row \in [Nodes -> Row]
JobsTyped ==
    /\ jobs \subseteq Tasks /\ started \in Nat
    /\ \A j \in jobs : j.num \in 1..started
HandlersTyped == pc \in [Nodes -> Places] /\ alerts \in Nat
WireTyped ==
    /\ connected \in [Nodes -> BOOLEAN]
    /\ down \in [Nodes -> Seq(Command)] /\ \A n \in Nodes : Len(down[n]) <= QueueCap
    /\ up \in [Nodes -> Seq(Status)]
AgentsTyped == slot \in [Nodes -> Attempt \cup {None}] /\ ran \in [Nodes -> SUBSET Kernels]
BudgetTyped == budget \in [Limited -> Nat]

\* Jobs and handlers remember upgrades that exist.
IdsStored ==
    /\ \A j \in jobs : j.kind # "oneoff" => j.id \in DOMAIN upgrades
    /\ \A n \in Nodes : pc[n] \in Checking \cup Finishing => pc[n].id \in DOMAIN upgrades

\* The partial unique index on active_marker.
OneInFlight == \A i, k \in Active : i = k

Typed == /\ StoreTyped /\ JobsTyped /\ HandlersTyped /\ WireTyped /\ AgentsTyped /\ BudgetTyped
         /\ IdsStored /\ OneInFlight

\* The initial state is well typed, and nothing is in flight.
LEMMA TypedInit == Init => Typed
<1> SUFFICES ASSUME Init PROVE Typed
  OBVIOUS
<1>1. StoreTyped /\ JobsTyped
  BY EmptySeq DEF Init, StoreTyped, JobsTyped, Row, Phases
<1>2. HandlersTyped /\ AgentsTyped /\ BudgetTyped
  BY UpgradeAssumption DEF Init, HandlersTyped, Places, AgentsTyped, BudgetTyped
<1>3. WireTyped
  BY UpgradeAssumption, EmptySeq DEF Init, WireTyped
<1>4. OneInFlight /\ IdsStored
  BY DEF Init, OneInFlight, Active, IdsStored, Idle, Checking, Finishing
<1> QED
  BY <1>1, <1>2, <1>3, <1>4 DEF Typed

\* What TypeOK says follows.
LEMMA TypedIsTypeOK == Typed => TypeOK
<1> SUFFICES ASSUME Typed PROVE TypeOK
  OBVIOUS
<1>1. \A i \in DOMAIN upgrades : upgrades[i] \in Upgrade
  BY LenProperties, ElementOfSeq DEF Typed, StoreTyped
<1>2. Cardinality(Active) <= 1
  <2>1. CASE Active = {}
    BY <2>1, FS_EmptySet
  <2>2. CASE Active # {}
    <3>1. PICK i \in Active : TRUE
      BY <2>2
    <3>2. Active = {i}
      BY <3>1 DEF Typed, OneInFlight
    <3> QED
      BY <3>2, FS_Singleton
  <2> QED
    BY <2>1, <2>2
<1>3. \A j \in jobs : /\ j.num \in 1..started /\ j.node \in Nodes /\ j.ver \in Kernels
                      /\ j.kind \in {"oneoff", "canary", "promoting"}
                      /\ j.step \in {"fetch", "send", "end"} /\ j.todo \subseteq Nodes
  BY DEF Typed, JobsTyped, Tasks, Kinds
<1>4. \A n \in Nodes : pc[n].at \in {"idle", "advance", "check", "finish"}
  BY DEF Typed, HandlersTyped, Places, Idle, Advancing, Checking, Finishing
<1>5. \A n \in Nodes : slot[n] # None => slot[n].ver \in Kernels
  BY DEF Typed, AgentsTyped, Attempt
<1> QED
  BY <1>1, <1>2, <1>3, <1>4, <1>5
     DEF TypeOK, Typed, StoreTyped, JobsTyped, HandlersTyped, WireTyped, AgentsTyped,
         BudgetTyped, Upgrade, Row
-----------------------------------------------------------------------------
(* What a step does to the stored upgrades.                                *)

\* An upgrade never disappears and never changes its version or its canary.
Kept == /\ DOMAIN upgrades \subseteq DOMAIN upgrades'
        /\ \A i \in DOMAIN upgrades : /\ upgrades'[i].ver = upgrades[i].ver
                                      /\ upgrades'[i].canary = upgrades[i].canary

Moved(i, to) ==
    /\ upgrades' \in Seq(Upgrade) /\ DOMAIN upgrades' = DOMAIN upgrades
    /\ upgrades'[i] = [upgrades[i] EXCEPT !.state = to]
    /\ \A k \in DOMAIN upgrades : k # i => upgrades'[k] = upgrades[k]

\* An element of the table is an upgrade.
LEMMA StoredUpgrade ==
    ASSUME StoreTyped
    PROVE  DOMAIN upgrades = 1..Len(upgrades) /\ Len(upgrades) \in Nat
           /\ \A i \in DOMAIN upgrades : upgrades[i] \in Upgrade
  BY LenProperties, ElementOfSeq DEF StoreTyped

\* Writing a state changes that state and nothing else.
LEMMA WriteState ==
    ASSUME StoreTyped, NEW i \in DOMAIN upgrades, NEW to \in InFlight \cup {"done"},
           upgrades' = [upgrades EXCEPT ![i].state = to]
    PROVE  Moved(i, to)
<1> DEFINE u == [upgrades[i] EXCEPT !.state = to]
<1>1. u \in Upgrade /\ i \in 1..Len(upgrades)
  BY StoredUpgrade DEF Upgrade
<1>2. upgrades' = [upgrades EXCEPT ![i] = u]
  OBVIOUS
<1> HIDE DEF u
<1>3. /\ upgrades' \in Seq(Upgrade) /\ Len(upgrades') = Len(upgrades)
      /\ \A k \in 1..Len(upgrades) : upgrades'[k] = IF k = i THEN u ELSE upgrades[k]
  <2>1. upgrades' \in [1..Len(upgrades) -> Upgrade]
    BY <1>1, <1>2, StoredUpgrade, LenProperties DEF StoreTyped
  <2>2. upgrades' \in Seq(Upgrade)
    BY <2>1, StoredUpgrade, SeqDef
  <2>3. Len(upgrades') = Len(upgrades)
    BY <2>1, <2>2, StoredUpgrade, LenProperties
  <2> QED
    BY <1>1, <1>2, <2>2, <2>3, StoredUpgrade, LenProperties DEF StoreTyped
<1>4. DOMAIN upgrades' = DOMAIN upgrades
  BY <1>3, StoredUpgrade, LenProperties
<1> QED
  BY <1>1, <1>3, <1>4, StoredUpgrade DEF Moved, u

\* An upgrade in flight that changes its state leaves one in flight at most.
LEMMA MoveKeeps ==
    ASSUME StoreTyped, OneInFlight, NEW i \in Active, NEW to, Moved(i, to)
    PROVE  Kept /\ OneInFlight'
<1>1. i \in DOMAIN upgrades /\ upgrades[i] \in Upgrade
  BY StoredUpgrade DEF Active
<1>2. Kept
  BY <1>1 DEF Moved, Kept, Upgrade
<1>3. Active' \subseteq Active
  BY <1>1 DEF Moved, Active
<1> QED
  BY <1>2, <1>3 DEF OneInFlight

\* SetUpgradeState, from a state in flight.
LEMMA SetStateKeeps ==
    ASSUME StoreTyped, OneInFlight, NEW i \in DOMAIN upgrades, NEW from \in InFlight,
           NEW to \in InFlight \cup {"done"}, upgrades' = SetUpgradeState(i, from, to)
    PROVE  /\ upgrades' \in Seq(Upgrade) /\ Kept /\ OneInFlight'
           /\ \/ upgrades[i].state = from /\ Moved(i, to)
              \/ upgrades[i].state # from /\ upgrades' = upgrades
<1>1. CASE upgrades[i].state = from
  <2>1. Moved(i, to)
    BY <1>1, WriteState DEF SetUpgradeState, Matches
  <2>2. i \in Active
    BY <1>1 DEF Active
  <2> QED
    BY <1>1, <2>1, <2>2, MoveKeeps DEF Moved
<1>2. CASE upgrades[i].state # from
  BY <1>2 DEF SetUpgradeState, Matches, StoreTyped, Kept, OneInFlight, Active
<1> QED
  BY <1>1, <1>2

\* Abandon closes the upgrade and leaves its message.
LEMMA AbandonKeeps ==
    ASSUME StoreTyped, OneInFlight, NEW i \in DOMAIN upgrades, Abandon(i)
    PROVE  /\ upgrades' \in Seq(Upgrade) /\ Kept /\ OneInFlight'
           /\ DOMAIN upgrades' = DOMAIN upgrades
           /\ upgrades'[i].state = "done" /\ upgrades'[i].abandoned
           /\ \A k \in DOMAIN upgrades : k # i => upgrades'[k] = upgrades[k]
<1> DEFINE u == [upgrades[i] EXCEPT !.state = "done", !.abandoned = TRUE]
<1>1. /\ u \in Upgrade /\ u.ver = upgrades[i].ver /\ u.canary = upgrades[i].canary
      /\ u.state = "done" /\ u.abandoned
      /\ i \in 1..Len(upgrades) /\ upgrades[i].state \in InFlight
  BY StoredUpgrade DEF Upgrade, Abandon, Active
<1>2. upgrades' = [upgrades EXCEPT ![i] = u]
  BY StoredUpgrade DEF Abandon, Upgrade
<1> HIDE DEF u
<1>3. upgrades' \in [1..Len(upgrades) -> Upgrade]
  BY <1>1, <1>2, StoredUpgrade, LenProperties DEF StoreTyped
<1>4. upgrades' \in Seq(Upgrade)
  BY <1>3, StoredUpgrade, SeqDef
<1>5. DOMAIN upgrades' = DOMAIN upgrades
  BY <1>3, StoredUpgrade
<1>6. upgrades'[i] = u /\ \A k \in DOMAIN upgrades : k # i => upgrades'[k] = upgrades[k]
  BY <1>2, StoredUpgrade
<1>7. Kept
  BY <1>1, <1>5, <1>6 DEF Kept
<1>8. Active' \subseteq Active
  BY <1>1, <1>5, <1>6 DEF Active
<1> QED
  BY <1>1, <1>4, <1>5, <1>6, <1>7, <1>8 DEF OneInFlight

\* A new row at the end of the table.
LEMMA AppendKeeps ==
    ASSUME StoreTyped, Active = {}, NEW u \in Upgrade, upgrades' = Append(upgrades, u)
    PROVE  /\ upgrades' \in Seq(Upgrade) /\ Kept /\ OneInFlight'
           /\ DOMAIN upgrades' = DOMAIN upgrades \cup {Len(upgrades) + 1}
           /\ upgrades'[Len(upgrades) + 1] = u
           /\ \A i \in DOMAIN upgrades : upgrades'[i] = upgrades[i]
<1>1. /\ upgrades' \in Seq(Upgrade) /\ Len(upgrades') = Len(upgrades) + 1
      /\ upgrades'[Len(upgrades) + 1] = u
      /\ \A i \in 1..Len(upgrades) : upgrades'[i] = upgrades[i]
  BY StoredUpgrade DEF StoreTyped
<1>2. DOMAIN upgrades' = DOMAIN upgrades \cup {Len(upgrades) + 1}
  BY <1>1, StoredUpgrade, LenProperties
<1>3. Kept
  BY <1>1, <1>2, StoredUpgrade DEF Kept
<1>4. \A i \in Active' : i = Len(upgrades) + 1
  BY <1>1, <1>2, StoredUpgrade DEF Active
<1> QED
  BY <1>1, <1>2, <1>3, <1>4, StoredUpgrade DEF OneInFlight

\* The table as it was.
LEMMA SameKeeps ==
    ASSUME StoreTyped, OneInFlight, UNCHANGED upgrades
    PROVE  upgrades' \in Seq(Upgrade) /\ Kept /\ OneInFlight'
  BY DEF StoreTyped, Kept, OneInFlight, Active
-----------------------------------------------------------------------------
(* What a step does to the jobs, the budget and the frames.                *)

\* A job that goes on keeps its number, what it is for and what it installs.
Successor(j, k) ==
    /\ k.num = j.num /\ k.kind = j.kind /\ k.id = j.id
    /\ k.ver = j.ver /\ k.activate = j.activate

\* GoOn replaces a job by its successor.
LEMMA GoesOn ==
    ASSUME JobsTyped, NEW j \in jobs, NEW f \in BOOLEAN, GoOn(j, f), UNCHANGED started
    PROVE  /\ JobsTyped'
           /\ \A k \in jobs' : k \in jobs \/ Successor(j, k)
           /\ \E k \in Tasks :
                 /\ jobs' = (jobs \ {j}) \cup {k} /\ Successor(j, k)
                 /\ (j.failed \/ f => k.failed)
                 /\ \/ j.todo = {} /\ k.todo = {} /\ k.step = "end"
                    \/ k.step = "fetch" /\ k.node \in j.todo /\ k.todo = j.todo \ {k.node}
<1>1. j \in Tasks /\ j.num \in 1..started
  BY DEF JobsTyped
<1>2. CASE j.todo = {}
  <2> DEFINE k == [j EXCEPT !.step = "end", !.failed = j.failed \/ f]
  <2>1. k \in Tasks /\ Successor(j, k) /\ (j.failed \/ f => k.failed)
        /\ k.todo = {} /\ k.step = "end"
    BY <1>1, <1>2 DEF Tasks, Successor
  <2>2. jobs' = (jobs \ {j}) \cup {k}
    BY <1>2 DEF GoOn
  <2> HIDE DEF k
  <2>3. JobsTyped'
    BY <1>1, <2>1, <2>2 DEF JobsTyped, Successor
  <2> QED
    BY <1>2, <2>1, <2>2, <2>3
<1>3. CASE j.todo # {}
  <2>1. PICK m \in j.todo :
           jobs' = (jobs \ {j}) \cup
                {[j EXCEPT !.step = "fetch", !.failed = @ \/ f,
                           !.node = m, !.todo = @ \ {m}]}
    BY <1>3 DEF GoOn
  <2> DEFINE k == [j EXCEPT !.step = "fetch", !.failed = @ \/ f,
                            !.node = m, !.todo = @ \ {m}]
  <2>2. k \in Tasks /\ Successor(j, k) /\ (j.failed \/ f => k.failed)
        /\ k.step = "fetch" /\ k.node = m /\ k.todo = j.todo \ {m}
    BY <1>1, <2>1 DEF Tasks, Successor
  <2>3. jobs' = (jobs \ {j}) \cup {k}
    BY <2>1
  <2> HIDE DEF k
  <2>4. JobsTyped'
    BY <1>1, <2>2, <2>3 DEF JobsTyped, Successor
  <2> QED
    BY <2>1, <2>2, <2>3, <2>4
<1> QED
  BY <1>2, <1>3

\* Spending leaves what is left.
LEMMA SpentTyped ==
    ASSUME BudgetTyped, NEW f \in Limited, Spend(f) \/ Fault(f)
    PROVE  BudgetTyped'
  BY DEF BudgetTyped, Spend, Fault, Limited

\* A new job is the last one.
LEMMA NewJobTyped ==
    ASSUME JobsTyped, NEW kind \in Kinds, NEW i \in Nat, NEW n \in Nodes, NEW v \in Kernels,
           NEW act \in BOOLEAN, NEW rest \in SUBSET Nodes,
           StartJob(Job(kind, i, n, v, act, rest))
    PROVE  JobsTyped'
<1>1. Job(kind, i, n, v, act, rest) \in Tasks /\ Job(kind, i, n, v, act, rest).num = started + 1
  BY DEF JobsTyped, Job, Tasks
<1> QED
  BY <1>1 DEF JobsTyped, StartJob

\* Frames appended to or taken from one node's queue.
LEMMA QueueTyped ==
    ASSUME NEW S, NEW q \in [Nodes -> Seq(S)], NEW n \in Nodes, NEW t \in Seq(S)
    PROVE  /\ [q EXCEPT ![n] = t] \in [Nodes -> Seq(S)]
           /\ [q EXCEPT ![n] = t][n] = t
           /\ \A m \in Nodes : m # n => [q EXCEPT ![n] = t][m] = q[m]
  OBVIOUS

\* Emptied queues, and installs nobody hears of any more.
LEMMA LostTyped ==
    ASSUME WireTyped, AgentsTyped, NEW S \in SUBSET Nodes
    PROVE  /\ Emptied(down, S) \in [Nodes -> Seq(Command)]
           /\ \A n \in Nodes : Len(Emptied(down, S)[n]) <= QueueCap
           /\ Emptied(up, S) \in [Nodes -> Seq(Status)]
           /\ Unheard(S) \in [Nodes -> Attempt \cup {None}]
<1>1. \A T : <<>> \in Seq(T) /\ Len(<<>>) = 0
  BY EmptySeq
<1>2. /\ Emptied(down, S) \in [Nodes -> Seq(Command)]
      /\ \A n \in Nodes : Len(Emptied(down, S)[n]) <= QueueCap
  BY <1>1, UpgradeAssumption DEF WireTyped, Emptied
<1>3. Emptied(up, S) \in [Nodes -> Seq(Status)]
  BY <1>1 DEF WireTyped, Emptied
<1>4. ASSUME NEW n \in Nodes, slot[n] # None
      PROVE  [slot[n] EXCEPT !.live = FALSE] \in Attempt
  BY <1>4 DEF AgentsTyped, Attempt
<1>5. Unheard(S) \in [Nodes -> Attempt \cup {None}]
  BY <1>4 DEF AgentsTyped, Unheard
<1> QED
  BY <1>2, <1>3, <1>5
-----------------------------------------------------------------------------
(* Every step keeps the types.                                             *)

\* Ids stay stored while upgrades are kept and nothing new is remembered.
LEMMA IdsKept ==
    ASSUME IdsStored, Kept, UNCHANGED pc,
           \A k \in jobs' : k \in jobs \/ k.kind = "oneoff" \/ k.id \in DOMAIN upgrades'
    PROVE  IdsStored'
  BY DEF IdsStored, Kept

\* The jobs' steps.
LEMMA JobKeepsTyped ==
    ASSUME Typed, NEW j \in jobs,
           JobCannotFetch(j) \/ JobRecords(j) \/ JobSends(j) \/ JobEnds(j)
    PROVE  Typed' /\ Kept
<1> USE DEF Typed
<1>0. j \in Tasks /\ (j.kind # "oneoff" => j.id \in DOMAIN upgrades)
  BY DEF JobsTyped, IdsStored
<1>1. CASE JobCannotFetch(j)
  <2>1. UNCHANGED <<upgrades, row, started, pc, alerts, connected, down, up, slot, ran>>
        /\ Fault("fetch") /\ GoOn(j, TRUE)
    BY <1>1 DEF JobCannotFetch, wireVars
  <2>2. JobsTyped' /\ \A k \in jobs' : k \in jobs \/ (k.kind = j.kind /\ k.id = j.id)
    <3>1. JobsTyped' /\ \A k \in jobs' : k \in jobs \/ Successor(j, k)
      BY <2>1, GoesOn, Zenon
    <3> QED
      BY <3>1 DEF Successor
  <2>3. BudgetTyped'
    BY <2>1, SpentTyped DEF Limited
  <2>4. upgrades' \in Seq(Upgrade) /\ Kept /\ OneInFlight'
    BY <2>1, SameKeeps
  <2>5. IdsStored'
    BY <1>0, <2>1, <2>2, <2>4, IdsKept
  <2> QED
    BY <2>1, <2>2, <2>3, <2>4, <2>5 DEF StoreTyped, HandlersTyped, WireTyped, AgentsTyped
<1>2. CASE JobRecords(j)
  <2>1. UNCHANGED <<upgrades, started, pc, alerts, connected, down, up, slot, ran, budget>>
    BY <1>2 DEF JobRecords, wireVars
  <2> DEFINE k == [j EXCEPT !.step = "send"]
  <2>2. jobs' = (jobs \ {j}) \cup {k} /\ row' = [row EXCEPT ![j.node] =
                                                    [ver |-> j.ver, phase |-> "UNSPECIFIED"]]
    BY <1>2 DEF JobRecords
  <2>3. k \in Tasks /\ k.num = j.num /\ k.kind = j.kind /\ k.id = j.id
    BY <1>0 DEF Tasks
  <2> HIDE DEF k
  <2>4. JobsTyped'
    BY <2>1, <2>2, <2>3 DEF JobsTyped
  <2>5. row' \in [Nodes -> Row]
    BY <1>0, <2>2 DEF Tasks, StoreTyped, Row, Phases
  <2>6. upgrades' \in Seq(Upgrade) /\ Kept /\ OneInFlight'
    BY <2>1, SameKeeps
  <2>7. IdsStored'
    BY <1>0, <2>1, <2>2, <2>3, <2>6, IdsKept
  <2> QED
    BY <2>1, <2>4, <2>5, <2>6, <2>7
       DEF StoreTyped, HandlersTyped, WireTyped, AgentsTyped, BudgetTyped
<1>3. CASE JobSends(j)
  <2>1. UNCHANGED <<upgrades, row, started, pc, alerts, connected, up, slot, ran, budget>>
    BY <1>3 DEF JobSends
  <2> DEFINE m == [ver |-> j.ver, activate |-> j.activate]
  <2>2. /\ \/ ~Reachable(j.node) /\ UNCHANGED down
           \/ Reachable(j.node) /\ down' = [down EXCEPT ![j.node] = Append(down[j.node], m)]
        /\ GoOn(j, ~Reachable(j.node))
    BY <1>3 DEF JobSends
  <2>3. JobsTyped' /\ \A k \in jobs' : k \in jobs \/ (k.kind = j.kind /\ k.id = j.id)
    <3>1. JobsTyped' /\ \A k \in jobs' : k \in jobs \/ Successor(j, k)
      BY <2>1, <2>2, GoesOn, Zenon DEF Reachable
    <3> QED
      BY <3>1 DEF Successor
  <2>4. down' \in [Nodes -> Seq(Command)] /\ \A n \in Nodes : Len(down'[n]) <= QueueCap
    <3>1. j.node \in Nodes /\ m \in Command /\ down \in [Nodes -> Seq(Command)]
      BY <1>0 DEF Tasks, Command, WireTyped
    <3> HIDE DEF m
    <3>2. CASE UNCHANGED down
      BY <3>2 DEF WireTyped
    <3>3. CASE /\ Reachable(j.node)
               /\ down' = [down EXCEPT ![j.node] = Append(down[j.node], m)]
      <4>1. /\ Append(down[j.node], m) \in Seq(Command)
            /\ Len(Append(down[j.node], m)) = Len(down[j.node]) + 1
        BY <3>1, AppendProperties
      <4>2. Len(down[j.node]) < QueueCap /\ QueueCap \in Nat /\ Len(down[j.node]) \in Nat
        BY <3>1, <3>3, UpgradeAssumption, LenProperties DEF Reachable
      <4> QED
        BY <3>1, <3>3, <4>1, <4>2 DEF WireTyped
    <3> QED
      BY <2>2, <3>2, <3>3
  <2>5. upgrades' \in Seq(Upgrade) /\ Kept /\ OneInFlight'
    BY <2>1, SameKeeps
  <2>6. IdsStored'
    BY <1>0, <2>1, <2>3, <2>5, IdsKept
  <2> QED
    BY <2>1, <2>3, <2>4, <2>5, <2>6
       DEF StoreTyped, HandlersTyped, WireTyped, AgentsTyped, BudgetTyped
<1>4. CASE JobEnds(j)
  <2>1. UNCHANGED <<row, started, pc, alerts, connected, down, up, slot, ran, budget>>
        /\ jobs' = jobs \ {j}
    BY <1>4 DEF JobEnds, wireVars
  <2>2. upgrades' \in Seq(Upgrade) /\ Kept /\ OneInFlight'
    <3>1. CASE j.failed /\ j.kind # "oneoff"
      <4>1. j.kind \in InFlight /\ upgrades' = SetUpgradeState(j.id, j.kind, "blocked")
        BY <1>0, <1>4, <3>1 DEF JobEnds, Tasks, Kinds, InFlight
      <4> QED
        BY <1>0, <3>1, <4>1, SetStateKeeps DEF InFlight
    <3>2. CASE ~(j.failed /\ j.kind # "oneoff")
      BY <1>4, <3>2, SameKeeps DEF JobEnds
    <3> QED
      BY <3>1, <3>2
  <2>3. JobsTyped'
    BY <2>1 DEF JobsTyped
  <2>4. IdsStored'
    BY <2>1, <2>2, IdsKept
  <2> QED
    BY <2>1, <2>2, <2>3, <2>4
       DEF StoreTyped, HandlersTyped, WireTyped, AgentsTyped, BudgetTyped
<1> QED
  BY <1>1, <1>2, <1>3, <1>4

\* What a new job needs, for the invariants about ids.
LEMMA StartedJob ==
    ASSUME NEW kind, NEW i, NEW n, NEW v, NEW act, NEW rest,
           StartJob(Job(kind, i, n, v, act, rest))
    PROVE  \A k \in jobs' : \/ k \in jobs
                            \/ /\ k = Job(kind, i, n, v, act, rest)
                               /\ k.kind = kind /\ k.id = i
  BY DEF StartJob, Job

\* The operators' requests.
LEMMA OperatorKeepsTyped ==
    ASSUME Typed, Operators
    PROVE  Typed' /\ Kept
<1> USE DEF Typed
<1>0. DOMAIN upgrades = 1..Len(upgrades) /\ Len(upgrades) \in Nat
      /\ \A i \in DOMAIN upgrades : upgrades[i] \in Upgrade
  BY StoredUpgrade
<1>1. ASSUME NEW n \in Nodes, NEW v \in Kernels, NEW act \in OneOffActivates, InstallOn(n, v, act)
      PROVE  Typed' /\ Kept
  <2>1. UNCHANGED <<upgrades, row, pc, alerts, connected, down, up, slot, ran>>
        /\ Spend("oneoff") /\ StartJob(Job("oneoff", 0, n, v, act, {}))
    BY <1>1 DEF InstallOn, wireVars
  <2>2. JobsTyped'
    BY <2>1, NewJobTyped, UpgradeAssumption DEF Kinds
  <2>3. BudgetTyped'
    BY <2>1, SpentTyped DEF Limited
  <2>4. upgrades' \in Seq(Upgrade) /\ Kept /\ OneInFlight'
    BY <2>1, SameKeeps
  <2>5. IdsStored'
    BY <2>1, <2>4, StartedJob, IdsKept
  <2> QED
    BY <2>1, <2>2, <2>3, <2>4, <2>5 DEF StoreTyped, HandlersTyped, WireTyped, AgentsTyped
<1>2. ASSUME NEW n \in Nodes, NEW v \in Kernels, StartCanary(v, n)
      PROVE  Typed' /\ Kept
  <2> DEFINE u == [ver |-> v, canary |-> n, state |-> "canary", abandoned |-> FALSE]
  <2>1. /\ UNCHANGED <<row, pc, alerts, connected, down, up, slot, ran, budget>>
        /\ Active = {} /\ upgrades' = Append(upgrades, u)
        /\ StartJob(Job("canary", Len(upgrades) + 1, n, v, TRUE, {}))
    BY <1>2 DEF StartCanary, wireVars
  <2>2. u \in Upgrade
    BY DEF Upgrade, InFlight
  <2> HIDE DEF u
  <2>3. /\ upgrades' \in Seq(Upgrade) /\ Kept /\ OneInFlight'
        /\ Len(upgrades) + 1 \in DOMAIN upgrades'
    BY <2>1, <2>2, AppendKeeps
  <2>4. JobsTyped'
    <3>1. "canary" \in Kinds /\ {} \in SUBSET Nodes /\ Len(upgrades) + 1 \in Nat
      BY <1>0 DEF Kinds
    <3> QED
      BY <2>1, <3>1, NewJobTyped, Zenon
  <2>5. IdsStored'
    BY <2>1, <2>3, StartedJob, IdsKept
  <2> QED
    BY <2>1, <2>3, <2>4, <2>5
       DEF StoreTyped, HandlersTyped, WireTyped, AgentsTyped, BudgetTyped
<1>3. ASSUME NEW i \in DOMAIN upgrades, Promote(i)
      PROVE  Typed' /\ Kept
  <2>1. /\ UNCHANGED <<row, pc, alerts, connected, down, up, slot, ran, budget>>
        /\ i \in Active
    BY <1>3 DEF Promote, wireVars
  <2>2. \/ /\ upgrades' = [upgrades EXCEPT ![i].state = "done"]
           /\ UNCHANGED <<jobs, started>>
        \/ /\ upgrades' = [upgrades EXCEPT ![i].state = "promoting"]
           /\ \E n \in Targets(i) :
                 StartJob(Job("promoting", i, n, upgrades[i].ver, TRUE, Targets(i) \ {n}))
    BY <1>3 DEF Promote
  <2>3. upgrades' \in Seq(Upgrade) /\ Kept /\ OneInFlight'
    <3>1. Moved(i, "done") \/ Moved(i, "promoting")
      BY <2>2, WriteState DEF InFlight
    <3> QED
      BY <2>1, <3>1, MoveKeeps DEF Moved
  <2>4. JobsTyped' /\ IdsStored'
    <3>1. CASE UNCHANGED <<jobs, started>>
      BY <2>1, <2>3, <3>1, IdsKept DEF JobsTyped
    <3>2. CASE \E n \in Targets(i) :
                 StartJob(Job("promoting", i, n, upgrades[i].ver, TRUE, Targets(i) \ {n}))
      <4>1. PICK n \in Targets(i) :
               StartJob(Job("promoting", i, n, upgrades[i].ver, TRUE, Targets(i) \ {n}))
        BY <3>2
      <4>2. n \in Nodes /\ i \in Nat /\ upgrades[i].ver \in Kernels
            /\ Targets(i) \ {n} \in SUBSET Nodes
        BY <1>0, <4>1 DEF Targets, Upgrade
      <4>3. JobsTyped'
        BY <4>1, <4>2, NewJobTyped DEF Kinds
      <4>4. i \in DOMAIN upgrades'
        BY <2>3 DEF Kept
      <4>5. \A k \in jobs' : k \in jobs \/ k.id = i
        BY <4>1, StartedJob
      <4> QED
        BY <2>1, <2>3, <4>3, <4>4, <4>5, IdsKept
    <3> QED
      BY <2>2, <3>1, <3>2
  <2> QED
    BY <2>1, <2>3, <2>4 DEF StoreTyped, HandlersTyped, WireTyped, AgentsTyped, BudgetTyped
<1>4. ASSUME NEW i \in DOMAIN upgrades, Retry(i)
      PROVE  Typed' /\ Kept
  <2>1. /\ UNCHANGED <<row, pc, alerts, connected, down, up, slot, ran>>
        /\ i \in Active /\ Fault("retry")
        /\ upgrades' = [upgrades EXCEPT ![i].state = "canary"]
        /\ StartJob(Job("canary", i, upgrades[i].canary, upgrades[i].ver, TRUE, {}))
    BY <1>4 DEF Retry, wireVars
  <2>2. upgrades' \in Seq(Upgrade) /\ Kept /\ OneInFlight'
    <3>1. Moved(i, "canary")
      BY <2>1, WriteState DEF InFlight
    <3> QED
      BY <2>1, <3>1, MoveKeeps DEF Moved
  <2>3. upgrades[i].canary \in Nodes /\ upgrades[i].ver \in Kernels /\ i \in Nat
    BY <1>0 DEF Upgrade
  <2>4. JobsTyped'
    <3>1. "canary" \in Kinds /\ {} \in SUBSET Nodes
      BY DEF Kinds
    <3> QED
      BY <2>1, <2>3, <3>1, NewJobTyped, Zenon
  <2>5. BudgetTyped'
    BY <2>1, SpentTyped DEF Limited
  <2>6. IdsStored'
    <3>1. i \in DOMAIN upgrades'
      BY <2>2 DEF Kept
    <3>2. \A k \in jobs' : k \in jobs \/ k.id = i
      BY <2>1, StartedJob
    <3> QED
      BY <2>1, <2>2, <3>1, <3>2, IdsKept
  <2> QED
    BY <2>1, <2>2, <2>4, <2>5, <2>6 DEF StoreTyped, HandlersTyped, WireTyped, AgentsTyped
<1>5. ASSUME NEW i \in DOMAIN upgrades, Abandon(i)
      PROVE  Typed' /\ Kept
  <2>1. /\ UNCHANGED <<row, jobs, started, pc, alerts, connected, down, up, slot, ran, budget>>
        /\ i \in Active
    BY <1>5 DEF Abandon, wireVars
  <2>2. upgrades' \in Seq(Upgrade) /\ Kept /\ OneInFlight'
    BY <1>5, AbandonKeeps
  <2>3. IdsStored'
    BY <2>1, <2>2, IdsKept
  <2> QED
    BY <2>1, <2>2, <2>3
       DEF StoreTyped, JobsTyped, HandlersTyped, WireTyped, AgentsTyped, BudgetTyped
<1> QED
  BY <1>1, <1>2, <1>3, <1>4, <1>5 DEF Operators

\* The place a handler is at, by its name.
LEMMA PlaceOf ==
    ASSUME HandlersTyped, NEW n \in Nodes
    PROVE  /\ pc[n].at = "advance" => pc[n] \in Advancing
           /\ pc[n].at = "check" => pc[n] \in Checking
           /\ pc[n].at = "finish" => pc[n] \in Finishing
           /\ pc[n].at \notin {"advance", "check", "finish"} => pc[n] = Idle
  BY DEF HandlersTyped, Places, Idle, Advancing, Checking, Finishing

\* What a report can mean.
LEMMA AdvanceCases ==
    ASSUME Typed, NEW n \in Nodes, Advance(n)
    PROVE  /\ UNCHANGED <<upgrades, row, jobs, started, alerts, connected, down, up, slot,
                          ran, budget>>
           /\ pc[n] \in Advancing
           /\ \/ /\ pc' = [pc EXCEPT ![n] = Idle]
                 /\ \A i \in Active :
                       upgrades[i].ver = pc[n].st.ver /\ upgrades[i].state # "blocked"
                          => ~IsFailure(pc[n].st.phase)
              \/ \E i \in Active :
                    /\ upgrades[i].ver = pc[n].st.ver /\ upgrades[i].state # "blocked"
                    /\ \/ /\ pc[n].st.phase \in Failed
                          /\ pc' = [pc EXCEPT ![n] = ToFinish(i, "blocked", TRUE)]
                       \/ /\ upgrades[i].state = "canary" /\ n = upgrades[i].canary
                          /\ pc[n].st.phase \in Settled
                          /\ pc' = [pc EXCEPT ![n] = ToFinish(i, "awaiting_promote", FALSE)]
                       \/ /\ upgrades[i].state = "promoting"
                          /\ pc[n].st.phase \in Settled
                          /\ pc' = [pc EXCEPT ![n] = [at |-> "check", id |-> i]]
<1>1. pc[n] \in Advancing
  BY PlaceOf DEF Typed, Advance
<1> QED
  BY <1>1 DEF Advance, wireVars, IsFailure, IsVerdict

\* A handler that moves to a place with a stored id keeps the ids.
LEMMA HandlerIdsKept ==
    ASSUME HandlersTyped, IdsStored, Kept, NEW n \in Nodes, NEW p \in Places, UNCHANGED jobs,
           pc' = [pc EXCEPT ![n] = p],
           p \in Checking \cup Finishing => p.id \in DOMAIN upgrades'
    PROVE  IdsStored' /\ pc' \in [Nodes -> Places]
  BY DEF HandlersTyped, IdsStored, Kept

\* The handlers' steps.
LEMMA HandlerKeepsTyped ==
    ASSUME Typed, NEW n \in Nodes, HandlerStep(n)
    PROVE  Typed' /\ Kept
<1> USE DEF Typed
<1>0. /\ DOMAIN upgrades = 1..Len(upgrades) /\ Len(upgrades) \in Nat
      /\ \A i \in DOMAIN upgrades : upgrades[i] \in Upgrade
      /\ Idle \in Places /\ Idle \notin Checking \cup Finishing
  BY StoredUpgrade DEF Places, Idle, Checking, Finishing
<1>1. CASE HandleStatus(n)
  <2> DEFINE m == Head(up[n])
             p == [at |-> "advance", st |-> m]
  <2>1. /\ UNCHANGED <<upgrades, jobs, started, alerts, connected, down, slot, ran, budget>>
        /\ up[n] # <<>> /\ up' = [up EXCEPT ![n] = Tail(up[n])]
        /\ \/ /\ row[n].ver = m.ver /\ row' = [row EXCEPT ![n].phase = m.phase]
              /\ pc' = [pc EXCEPT ![n] = p]
           \/ UNCHANGED <<row, pc>>
    BY <1>1 DEF HandleStatus
  <2>2. m \in Status /\ Tail(up[n]) \in Seq(Status)
    BY <2>1, HeadTailProperties DEF WireTyped
  <2>3. p \in Places /\ p \notin Checking \cup Finishing
    BY <2>2 DEF Places, Advancing, Checking, Finishing
  <2>4. row' \in [Nodes -> Row]
    BY <2>1, <2>2 DEF StoreTyped, Row, Status
  <2> HIDE DEF p, m
  <2>5. up' \in [Nodes -> Seq(Status)]
    BY <2>1, <2>2 DEF WireTyped
  <2>6. upgrades' \in Seq(Upgrade) /\ Kept /\ OneInFlight'
    BY <2>1, SameKeeps
  <2>7. IdsStored' /\ pc' \in [Nodes -> Places]
    <3>1. CASE UNCHANGED pc
      BY <2>1, <2>6, <3>1, IdsKept DEF HandlersTyped
    <3>2. CASE pc' = [pc EXCEPT ![n] = p]
      BY <2>1, <2>3, <2>6, <3>2, HandlerIdsKept
    <3> QED
      BY <2>1, <3>1, <3>2
  <2> QED
    BY <2>1, <2>4, <2>5, <2>6, <2>7
       DEF StoreTyped, JobsTyped, HandlersTyped, WireTyped, AgentsTyped, BudgetTyped
<1>2. CASE Advance(n)
  <2>1. /\ UNCHANGED <<upgrades, row, jobs, started, alerts, connected, down, up, slot,
                       ran, budget>>
        /\ \/ pc' = [pc EXCEPT ![n] = Idle]
           \/ \E i \in Active : \E p \in {ToFinish(i, "blocked", TRUE),
                                          ToFinish(i, "awaiting_promote", FALSE),
                                          [at |-> "check", id |-> i]} :
                 pc' = [pc EXCEPT ![n] = p]
    BY <1>2, AdvanceCases
  <2>2. upgrades' \in Seq(Upgrade) /\ Kept /\ OneInFlight'
    BY <2>1, SameKeeps
  <2>3. ASSUME NEW i \in Active,
               NEW p \in {ToFinish(i, "blocked", TRUE), ToFinish(i, "awaiting_promote", FALSE),
                          [at |-> "check", id |-> i]}
        PROVE  p \in Places /\ p.id \in DOMAIN upgrades'
    <3>1. i \in DOMAIN upgrades /\ i \in Nat /\ upgrades[i].state \in InFlight
      BY <1>0 DEF Active
    <3>2. /\ ToFinish(i, "blocked", TRUE) \in Finishing
          /\ ToFinish(i, "blocked", TRUE).id = i
      BY <3>1 DEF ToFinish, Finishing
    <3>3. /\ ToFinish(i, "awaiting_promote", FALSE) \in Finishing
          /\ ToFinish(i, "awaiting_promote", FALSE).id = i
      BY <3>1 DEF ToFinish, Finishing
    <3>4. [at |-> "check", id |-> i] \in Checking /\ [at |-> "check", id |-> i].id = i
      BY <3>1 DEF Checking
    <3>5. p \in Checking \cup Finishing /\ p.id = i
      BY <3>2, <3>3, <3>4, Zenon
    <3> QED
      BY <2>1, <3>1, <3>5 DEF Places
  <2>4. IdsStored' /\ pc' \in [Nodes -> Places]
    <3>1. CASE pc' = [pc EXCEPT ![n] = Idle]
      BY <1>0, <2>1, <2>2, <3>1, HandlerIdsKept
    <3>2. ASSUME NEW p \in Places, p.id \in DOMAIN upgrades', pc' = [pc EXCEPT ![n] = p]
          PROVE  IdsStored' /\ pc' \in [Nodes -> Places]
      BY <2>1, <2>2, <3>2, HandlerIdsKept
    <3> QED
      BY <2>1, <2>3, <3>1, <3>2, Zenon
  <2> QED
    BY <2>1, <2>2, <2>4
       DEF StoreTyped, JobsTyped, HandlersTyped, WireTyped, AgentsTyped, BudgetTyped
<1>3. CASE CheckPromotionComplete(n)
  <2> DEFINE i == pc[n].id
             f == [at |-> "finish", id |-> i, from |-> "promoting", to |-> "done",
                   alert |-> FALSE]
  <2>1. /\ UNCHANGED <<upgrades, row, jobs, started, alerts, connected, down, up, slot,
                       ran, budget>>
        /\ pc[n].at = "check"
        /\ pc' = [pc EXCEPT ![n] = Idle] \/ pc' = [pc EXCEPT ![n] = f]
    BY <1>3 DEF CheckPromotionComplete, wireVars
  <2>2. i \in DOMAIN upgrades /\ i \in Nat
    BY <1>0, <2>1, PlaceOf DEF IdsStored
  <2>3. f \in Places /\ f.id = i
    BY <2>2 DEF Places, Finishing, InFlight
  <2> HIDE DEF i, f
  <2>4. upgrades' \in Seq(Upgrade) /\ Kept /\ OneInFlight'
    BY <2>1, SameKeeps
  <2>5. IdsStored' /\ pc' \in [Nodes -> Places]
    BY <1>0, <2>1, <2>2, <2>3, <2>4, HandlerIdsKept
  <2> QED
    BY <2>1, <2>4, <2>5
       DEF StoreTyped, JobsTyped, HandlersTyped, WireTyped, AgentsTyped, BudgetTyped
<1>4. CASE Finish(n)
  <2>1. /\ UNCHANGED <<row, jobs, started, connected, down, up, slot, ran, budget>>
        /\ pc[n].at = "finish" /\ pc' = [pc EXCEPT ![n] = Idle]
        /\ upgrades' = SetUpgradeState(pc[n].id, pc[n].from, pc[n].to)
        /\ alerts' \in {alerts, alerts + 1}
    BY <1>4 DEF Finish, wireVars
  <2>2. /\ pc[n].id \in DOMAIN upgrades /\ pc[n].from \in InFlight
        /\ pc[n].to \in InFlight \cup {"done"}
    BY <2>1, PlaceOf DEF IdsStored, Finishing, InFlight
  <2>3. upgrades' \in Seq(Upgrade) /\ Kept /\ OneInFlight'
    BY <2>1, <2>2, SetStateKeeps
  <2>4. IdsStored' /\ pc' \in [Nodes -> Places]
    BY <1>0, <2>1, <2>3, HandlerIdsKept
  <2> QED
    BY <2>1, <2>3, <2>4
       DEF StoreTyped, JobsTyped, HandlersTyped, WireTyped, AgentsTyped, BudgetTyped
<1> QED
  BY <1>1, <1>2, <1>3, <1>4 DEF HandlerStep

\* Core's part of the types, when Core does nothing.
LEMMA CoreSame ==
    ASSUME Typed, UNCHANGED coreVars
    PROVE  /\ StoreTyped' /\ JobsTyped' /\ HandlersTyped' /\ IdsStored' /\ OneInFlight' /\ Kept
  BY DEF Typed, coreVars, StoreTyped, JobsTyped, HandlersTyped, IdsStored, OneInFlight, Active,
         Kept

\* Reports are appended to what the node has sent.
LEMMA ReportTyped ==
    ASSUME WireTyped, NEW n \in Nodes, NEW live \in BOOLEAN, NEW ms \in Seq(Status),
           Report(n, live, ms)
    PROVE  up' \in [Nodes -> Seq(Status)]
<1>1. up[n] \o ms \in Seq(Status)
  BY ConcatProperties DEF WireTyped
<1> QED
  BY <1>1 DEF Report, WireTyped

\* The agent's steps.
LEMMA AgentKeepsTyped ==
    ASSUME Typed, NEW n \in Nodes, AgentStep(n)
    PROVE  Typed' /\ Kept
<1> USE DEF Typed
<1>0. slot[n] # None => /\ slot[n] \in Attempt /\ slot[n].ver \in Kernels
                        /\ slot[n].live \in BOOLEAN
  BY DEF AgentsTyped, Attempt
<1>1. CASE TakeInstall(n)
  <2> DEFINE m == Head(down[n])
  <2>1. /\ UNCHANGED coreVars /\ UNCHANGED <<connected, ran, budget>>
        /\ down[n] # <<>> /\ down' = [down EXCEPT ![n] = Tail(down[n])]
        /\ \/ /\ slot' = [slot EXCEPT ![n] = [ver |-> m.ver, activate |-> m.activate,
                                              stage |-> "fetch", live |-> TRUE]]
              /\ UNCHANGED up
           \/ /\ Report(n, TRUE, <<[ver |-> m.ver, phase |-> "FAILED"]>>)
              /\ UNCHANGED slot
    BY <1>1 DEF TakeInstall
  <2>2. /\ m \in Command /\ Tail(down[n]) \in Seq(Command)
        /\ Len(Tail(down[n])) <= Len(down[n]) /\ Len(Tail(down[n])) \in Nat
    BY <2>1, HeadTailProperties, LenProperties DEF WireTyped
  <2>3. slot' \in [Nodes -> Attempt \cup {None}]
    <3> DEFINE a == [ver |-> m.ver, activate |-> m.activate, stage |-> "fetch", live |-> TRUE]
    <3>1. a \in Attempt
      BY <2>2 DEF Attempt, Command
    <3>2. UNCHANGED slot \/ slot' = [slot EXCEPT ![n] = a]
      BY <2>1
    <3> HIDE DEF a
    <3> QED
      BY <3>1, <3>2 DEF AgentsTyped
  <2>4. down' \in [Nodes -> Seq(Command)] /\ \A k \in Nodes : Len(down'[k]) <= QueueCap
    <3>1. QueueCap \in Nat /\ Len(down[n]) <= QueueCap /\ Len(down[n]) \in Nat
      BY UpgradeAssumption, LenProperties DEF WireTyped
    <3> HIDE DEF m
    <3> QED
      BY <2>1, <2>2, <3>1 DEF WireTyped
  <2>5. up' \in [Nodes -> Seq(Status)]
    <3>1. <<[ver |-> m.ver, phase |-> "FAILED"]>> \in Seq(Status)
      BY <2>2 DEF Command, Status, Phases, Failed
    <3>2. CASE UNCHANGED up
      BY <3>2 DEF WireTyped
    <3>3. CASE Report(n, TRUE, <<[ver |-> m.ver, phase |-> "FAILED"]>>)
      BY <3>1, <3>3, ReportTyped, Zenon
    <3> QED
      BY <2>1, <3>2, <3>3
  <2> QED
    BY <2>1, <2>3, <2>4, <2>5, CoreSame DEF WireTyped, AgentsTyped, BudgetTyped
<1>2. CASE Install(n)
  <2>1. /\ UNCHANGED coreVars /\ UNCHANGED <<connected, down, ran, budget>>
        /\ slot[n] # None
        /\ \/ slot' = [slot EXCEPT ![n] = None]
           \/ slot' = [slot EXCEPT ![n].stage = "activate"]
        /\ \/ Report(n, slot[n].live, <<[ver |-> slot[n].ver, phase |-> "FAILED"]>>)
           \/ Report(n, slot[n].live, <<[ver |-> slot[n].ver, phase |-> "INSTALLED"],
                                        [ver |-> slot[n].ver, phase |-> "INSTALLED"]>>)
           \/ Report(n, slot[n].live, <<[ver |-> slot[n].ver, phase |-> "ACTIVATING"]>>)
    BY <1>2 DEF Install
  <2>2. slot' \in [Nodes -> Attempt \cup {None}]
    BY <1>0, <2>1 DEF AgentsTyped, Attempt
  <2>3. up' \in [Nodes -> Seq(Status)]
    <3>1. /\ <<[ver |-> slot[n].ver, phase |-> "FAILED"]>> \in Seq(Status)
          /\ <<[ver |-> slot[n].ver, phase |-> "INSTALLED"],
               [ver |-> slot[n].ver, phase |-> "INSTALLED"]>> \in Seq(Status)
          /\ <<[ver |-> slot[n].ver, phase |-> "ACTIVATING"]>> \in Seq(Status)
      BY <1>0, <2>1 DEF Status, Phases, Failed
    <3> QED
      BY <1>0, <2>1, <3>1, ReportTyped, Zenon
  <2> QED
    BY <2>1, <2>2, <2>3, CoreSame DEF WireTyped, AgentsTyped, BudgetTyped
<1>3. CASE Activate(n)
  <2>1. /\ UNCHANGED coreVars /\ UNCHANGED <<connected, down, budget>>
        /\ slot[n] # None /\ slot' = [slot EXCEPT ![n] = None]
        /\ ran' = ran \/ ran' = [ran EXCEPT ![n] = ran[n] \cup {slot[n].ver}]
        /\ \E phase \in Phases : Report(n, slot[n].live, <<[ver |-> slot[n].ver, phase |-> phase]>>)
    BY <1>3 DEF Activate, Phases, Failed
  <2>2. slot' \in [Nodes -> Attempt \cup {None}] /\ ran' \in [Nodes -> SUBSET Kernels]
    BY <1>0, <2>1 DEF AgentsTyped
  <2>3. up' \in [Nodes -> Seq(Status)]
    <3>1. PICK phase \in Phases :
             Report(n, slot[n].live, <<[ver |-> slot[n].ver, phase |-> phase]>>)
      BY <2>1
    <3>2. <<[ver |-> slot[n].ver, phase |-> phase]>> \in Seq(Status)
      BY <1>0, <2>1 DEF Status
    <3> QED
      BY <1>0, <2>1, <3>1, <3>2, ReportTyped, Zenon
  <2> QED
    BY <2>1, <2>2, <2>3, CoreSame DEF WireTyped, AgentsTyped, BudgetTyped
<1> QED
  BY <1>1, <1>2, <1>3 DEF AgentStep

\* Faults and recoveries.
LEMMA FaultKeepsTyped ==
    ASSUME Typed,
           CoreRestart \/ \E n \in Nodes : StreamBreaks(n) \/ Reconnect(n) \/ AgentDies(n)
    PROVE  Typed' /\ Kept
<1> USE DEF Typed
<1>1. CASE CoreRestart
  <2>1. UNCHANGED <<upgrades, row, started, alerts, ran>> /\ Fault("core")
        /\ jobs' = {} /\ pc' = [n \in Nodes |-> Idle] /\ connected' = [n \in Nodes |-> FALSE]
        /\ down' = Emptied(down, Nodes) /\ up' = Emptied(up, Nodes) /\ slot' = Unheard(Nodes)
    BY <1>1 DEF CoreRestart
  <2>2. WireTyped' /\ AgentsTyped'
    BY <2>1, LostTyped DEF WireTyped, AgentsTyped
  <2>3. BudgetTyped'
    BY <2>1, SpentTyped DEF Limited
  <2>4. upgrades' \in Seq(Upgrade) /\ Kept /\ OneInFlight'
    BY <2>1, SameKeeps
  <2>5. JobsTyped' /\ HandlersTyped' /\ IdsStored'
    BY <2>1 DEF JobsTyped, HandlersTyped, Places, IdsStored, Idle, Checking, Finishing
  <2> QED
    BY <2>1, <2>2, <2>3, <2>4, <2>5 DEF StoreTyped
<1>2. ASSUME NEW n \in Nodes, StreamBreaks(n) \/ AgentDies(n)
      PROVE  Typed' /\ Kept
  <2>1. /\ UNCHANGED coreVars /\ UNCHANGED ran /\ (Fault("break") \/ Fault("agent"))
        /\ connected' = [connected EXCEPT ![n] = FALSE]
        /\ down' = Emptied(down, {n}) /\ up' = Emptied(up, {n})
        /\ slot' = Unheard({n}) \/ slot' = [slot EXCEPT ![n] = None]
    BY <1>2 DEF StreamBreaks, AgentDies
  <2>2. WireTyped' /\ AgentsTyped'
    <3>1. {n} \in SUBSET Nodes
      OBVIOUS
    <3>2. /\ down' \in [Nodes -> Seq(Command)] /\ up' \in [Nodes -> Seq(Status)]
          /\ \A k \in Nodes : Len(down'[k]) <= QueueCap
          /\ Unheard({n}) \in [Nodes -> Attempt \cup {None}]
      BY <2>1, <3>1, LostTyped
    <3> QED
      BY <2>1, <3>2 DEF WireTyped, AgentsTyped
  <2>3. BudgetTyped'
    <3>1. "break" \in Limited /\ "agent" \in Limited
      BY DEF Limited
    <3> QED
      BY <2>1, <3>1, SpentTyped, Zenon
  <2> QED
    BY <2>1, <2>2, <2>3, CoreSame
<1>3. ASSUME NEW n \in Nodes, Reconnect(n)
      PROVE  Typed' /\ Kept
  BY <1>3, CoreSame DEF Reconnect, WireTyped, AgentsTyped, BudgetTyped
<1> QED
  BY <1>1, <1>2, <1>3

\* Every step keeps the types, the ids, the unique index and what an upgrade is for.
LEMMA TypedStep ==
    ASSUME Typed, [Next]_vars
    PROVE  Typed' /\ Kept
<1>1. CASE UNCHANGED vars
  <2>1. UNCHANGED coreVars /\ UNCHANGED <<connected, down, up, slot, ran, budget>>
    BY <1>1 DEF vars, wireVars
  <2> QED
    BY <2>1, CoreSame DEF Typed, WireTyped, AgentsTyped, BudgetTyped
<1> QED
  BY <1>1, JobKeepsTyped, OperatorKeepsTyped, HandlerKeepsTyped, AgentKeepsTyped,
     FaultKeepsTyped DEF Next, JobStep

\* Every variable keeps its type, and the partial unique index on active_marker
\* holds at every statement: one upgrade at most is in flight.
THEOREM TypeCorrect == Spec => []TypeOK
<1>1. Typed /\ [Next]_vars => Typed'
  BY TypedStep
<1> QED
  BY <1>1, TypedInit, TypedIsTypeOK, PTL DEF Spec
-----------------------------------------------------------------------------
(* The canary proves the version.  A success on its way to Core, in a node's *)
(* row or in a handler's hands was reported by a kernel that came up, and a  *)
(* handler about to ask for the promotion has seen the canary's.             *)

HonestReports(n) == {m \in Status : m.phase \in Settled => m.ver \in ran[n]}
Proved(i) == upgrades[i].ver \in ran[upgrades[i].canary]

ReportsHonest ==
    \A n \in Nodes : /\ up[n] \in Seq(HonestReports(n))
                     /\ pc[n].at = "advance" => pc[n].st \in HonestReports(n)
                     /\ row[n].phase \in Settled => row[n].ver \in ran[n]

VerdictProved(n) ==
    /\ pc[n].at = "check" => Proved(pc[n].id)
    /\ pc[n].at = "finish" => /\ pc[n].from # "blocked"
                              /\ pc[n].alert => pc[n].to = "blocked"
                              /\ pc[n].to = "awaiting_promote" => Proved(pc[n].id)

VerdictsProved == \A n \in Nodes : VerdictProved(n)

Evidence == ReportsHonest /\ VerdictsProved /\ CanaryProvesFirst

\* A node never forgets what it came up on.
LEMMA RanGrows ==
    ASSUME Typed, [Next]_vars, NEW n \in Nodes
    PROVE  ran[n] \subseteq ran'[n]
<1>1. \/ UNCHANGED ran
      \/ \E k \in Nodes : Activate(k)
  <2>1. CASE Operators
    BY <2>1 DEF Operators, InstallOn, StartCanary, Promote, Retry, Abandon
  <2>2. CASE JobStep
    BY <2>2 DEF JobStep, JobCannotFetch, JobRecords, JobSends, JobEnds
  <2>3. ASSUME NEW k \in Nodes, HandlerStep(k)
        PROVE  UNCHANGED ran
    BY <2>3 DEF HandlerStep, HandleStatus, Advance, CheckPromotionComplete, Finish
  <2>4. ASSUME NEW k \in Nodes, AgentStep(k)
        PROVE  UNCHANGED ran \/ Activate(k)
    BY <2>4 DEF AgentStep, TakeInstall, Install
  <2>5. ASSUME NEW k \in Nodes, StreamBreaks(k) \/ Reconnect(k) \/ AgentDies(k)
        PROVE  UNCHANGED ran
    BY <2>5 DEF StreamBreaks, Reconnect, AgentDies
  <2>6. CASE CoreRestart \/ UNCHANGED vars
    BY <2>6 DEF CoreRestart, vars
  <2> QED
    BY <2>1, <2>2, <2>3, <2>4, <2>5, <2>6 DEF Next
<1>2. ASSUME NEW k \in Nodes, Activate(k)
      PROVE  ran[n] \subseteq ran'[n]
  BY <1>2 DEF Activate, Typed, AgentsTyped
<1> QED
  BY <1>1, <1>2

\* What has been shown stays shown.
LEMMA ShownStaysShown ==
    ASSUME Typed, [Next]_vars
    PROVE  /\ \A n \in Nodes : /\ HonestReports(n) \subseteq HonestReports(n)'
                               /\ Seq(HonestReports(n)) \subseteq Seq(HonestReports(n)')
           /\ \A i \in DOMAIN upgrades : Proved(i) => Proved(i)'
<1>1. ASSUME NEW n \in Nodes PROVE HonestReports(n) \subseteq HonestReports(n)'
  BY RanGrows DEF HonestReports
<1>2. ASSUME NEW n \in Nodes PROVE Seq(HonestReports(n)) \subseteq Seq(HonestReports(n)')
  BY <1>1, SeqMonotonic
<1>3. ASSUME NEW i \in DOMAIN upgrades, Proved(i) PROVE Proved(i)'
  <2>1. upgrades[i].canary \in Nodes
    BY StoredUpgrade DEF Typed, Upgrade
  <2> QED
    BY <1>3, <2>1, RanGrows, TypedStep DEF Proved, Kept
<1> QED
  BY <1>1, <1>2, <1>3

\* Verdicts that stay where they are stay proved.
LEMMA VerdictsStay ==
    ASSUME Typed, [Next]_vars, VerdictsProved, NEW n \in Nodes, pc'[n] = pc[n] \/ pc'[n] = Idle
    PROVE  VerdictProved(n)'
<1>1. CASE pc'[n] = Idle
  BY <1>1 DEF Idle, VerdictProved
<1>2. CASE pc'[n] = pc[n] /\ pc[n].at \in {"check", "finish"}
  <2>1. pc[n].id \in DOMAIN upgrades
    BY <1>2, PlaceOf DEF Typed, IdsStored
  <2>2. PICK i \in DOMAIN upgrades : i = pc[n].id
    BY <2>1
  <2>3. Proved(i) => Proved(i)'
    BY ShownStaysShown
  <2>4. pc'[n].id = i
    BY <1>2, <2>2
  <2> QED
    BY <1>2, <2>2, <2>3, <2>4 DEF VerdictsProved, VerdictProved, Proved
<1>3. CASE pc'[n] = pc[n] /\ pc[n].at \notin {"check", "finish"}
  BY <1>3 DEF VerdictProved
<1> QED
  BY <1>1, <1>2, <1>3

\* No upgrade is moved to where the canary must have proved it, unless it has.
NoNewClaim ==
    \A i \in DOMAIN upgrades' :
        upgrades'[i].state \in {"awaiting_promote", "promoting"}
           => /\ i \in DOMAIN upgrades
              /\ upgrades[i].state \in {"awaiting_promote", "promoting"} \/ Proved(i)

\* Such a step keeps what the canary has proved.
LEMMA ProofStays ==
    ASSUME Typed, [Next]_vars, CanaryProvesFirst,
           NoNewClaim
    PROVE  CanaryProvesFirst'
<1> SUFFICES ASSUME NEW i \in DOMAIN upgrades',
                    upgrades'[i].state \in {"awaiting_promote", "promoting"}
             PROVE  Proved(i)'
  BY DEF CanaryProvesFirst, Proved
<1>1. i \in DOMAIN upgrades /\ Proved(i)
  BY DEF CanaryProvesFirst, Proved, NoNewClaim
<1> QED
  BY <1>1, ShownStaysShown

\* Honest reports of a node that sends no more than honest reports.
LEMMA ReportHonest ==
    ASSUME Typed, [Next]_vars, ReportsHonest, NEW n \in Nodes, NEW live \in BOOLEAN,
           NEW ms, Report(n, live, ms), live => ms \in Seq(HonestReports(n)')
    PROVE  \A k \in Nodes : up'[k] \in Seq(HonestReports(k)')
<1>1. \A k \in Nodes : up[k] \in Seq(HonestReports(k)')
  BY ShownStaysShown DEF ReportsHonest
<1>2. CASE live
  <2>1. up[n] \o ms \in Seq(HonestReports(n)')
    BY <1>1, <1>2, ConcatProperties
  <2>2. up' = [up EXCEPT ![n] = up[n] \o ms] /\ up \in [Nodes -> Seq(Status)]
    BY <1>2 DEF Report, Typed, WireTyped
  <2> HIDE DEF HonestReports
  <2> QED
    BY <1>1, <2>1, <2>2
<1>3. CASE ~live
  BY <1>1, <1>3 DEF Report
<1> QED
  BY <1>2, <1>3

\* The agent reports a success only when the kernel came up.
LEMMA AgentHonest ==
    ASSUME Typed, [Next]_vars, ReportsHonest, NEW n \in Nodes, AgentStep(n)
    PROVE  \A k \in Nodes : up'[k] \in Seq(HonestReports(k)')
<1>0. slot[n] # None => /\ slot[n] \in Attempt /\ slot[n].ver \in Kernels
                        /\ slot[n].live \in BOOLEAN
  BY DEF Typed, AgentsTyped, Attempt
<1>1. CASE TakeInstall(n)
  <2> DEFINE m == Head(down[n])
  <2>1. /\ down[n] # <<>>
        /\ UNCHANGED up \/ Report(n, TRUE, <<[ver |-> m.ver, phase |-> "FAILED"]>>)
    BY <1>1 DEF TakeInstall
  <2>2. m \in Command
    BY <2>1, HeadTailProperties DEF Typed, WireTyped
  <2>3. <<[ver |-> m.ver, phase |-> "FAILED"]>> \in Seq(HonestReports(n)')
    BY <2>2 DEF Command, HonestReports, Status, Phases, Failed, Settled
  <2>4. CASE UNCHANGED up
    BY <2>4, ShownStaysShown DEF ReportsHonest
  <2>5. CASE Report(n, TRUE, <<[ver |-> m.ver, phase |-> "FAILED"]>>)
    BY <2>3, <2>5, ReportHonest, Zenon
  <2> QED
    BY <2>1, <2>4, <2>5
<1>2. CASE Install(n)
  <2>1. /\ slot[n] # None
        /\ \/ Report(n, slot[n].live, <<[ver |-> slot[n].ver, phase |-> "FAILED"]>>)
           \/ Report(n, slot[n].live, <<[ver |-> slot[n].ver, phase |-> "INSTALLED"],
                                        [ver |-> slot[n].ver, phase |-> "INSTALLED"]>>)
           \/ Report(n, slot[n].live, <<[ver |-> slot[n].ver, phase |-> "ACTIVATING"]>>)
    BY <1>2 DEF Install
  <2>2. \A phase \in {"FAILED", "INSTALLED", "ACTIVATING"} :
           [ver |-> slot[n].ver, phase |-> phase] \in HonestReports(n)'
    BY <1>0, <2>1 DEF HonestReports, Status, Phases, Failed, Settled
  <2>3. /\ <<[ver |-> slot[n].ver, phase |-> "FAILED"]>> \in Seq(HonestReports(n)')
        /\ <<[ver |-> slot[n].ver, phase |-> "INSTALLED"],
             [ver |-> slot[n].ver, phase |-> "INSTALLED"]>> \in Seq(HonestReports(n)')
        /\ <<[ver |-> slot[n].ver, phase |-> "ACTIVATING"]>> \in Seq(HonestReports(n)')
    BY <2>2
  <2> QED
    BY <1>0, <2>1, <2>3, ReportHonest, Zenon
<1>3. CASE Activate(n)
  <2>1. slot[n] # None
    BY <1>3 DEF Activate
  <2>2. PICK phase \in Settled \cup {"ROLLED_BACK"} :
           /\ Report(n, slot[n].live, <<[ver |-> slot[n].ver, phase |-> phase]>>)
           /\ \/ phase \in Settled /\ ran' = [ran EXCEPT ![n] = @ \cup {slot[n].ver}]
              \/ phase = "ROLLED_BACK" /\ UNCHANGED ran
              \/ phase = "INCONCLUSIVE" /\ ~slot[n].live /\ UNCHANGED ran
    BY <1>3 DEF Activate
  <2>3. slot[n].live => [ver |-> slot[n].ver, phase |-> phase] \in HonestReports(n)'
    BY <1>0, <2>1, <2>2
       DEF HonestReports, Status, Phases, Failed, Settled, Typed, AgentsTyped
  <2>4. slot[n].live => <<[ver |-> slot[n].ver, phase |-> phase]>> \in Seq(HonestReports(n)')
    BY <2>3
  <2> QED
    BY <1>0, <2>1, <2>2, <2>4, ReportHonest, Zenon
<1> QED
  BY <1>1, <1>2, <1>3 DEF AgentStep

\* Core's view of the evidence while Core does nothing.
LEMMA CoreSameEvidence ==
    ASSUME Typed, [Next]_vars, Evidence, UNCHANGED coreVars,
           \A k \in Nodes : up'[k] \in Seq(HonestReports(k)')
    PROVE  Evidence'
<1>1. UNCHANGED <<upgrades, row, pc>>
  BY DEF coreVars
<1>2. ReportsHonest'
  BY <1>1, ShownStaysShown, RanGrows DEF Evidence, ReportsHonest
<1>3. VerdictsProved'
  BY <1>1, VerdictsStay DEF Evidence, VerdictsProved
<1>4. CanaryProvesFirst'
  BY <1>1, ProofStays DEF Evidence, NoNewClaim
<1> QED
  BY <1>2, <1>3, <1>4 DEF Evidence

\* The evidence when the agents and the handlers do nothing.
LEMMA HandlersSameEvidence ==
    ASSUME Typed, [Next]_vars, Evidence, UNCHANGED <<pc, up, ran>>,
           \A n \in Nodes : row'[n] = row[n] \/ row'[n].phase \notin Settled,
           NoNewClaim
    PROVE  Evidence'
<1>1. ReportsHonest'
  BY DEF Evidence, ReportsHonest, HonestReports
<1>2. VerdictsProved'
  BY VerdictsStay DEF Evidence, VerdictsProved
<1>3. CanaryProvesFirst'
  BY ProofStays DEF Evidence
<1> QED
  BY <1>1, <1>2, <1>3 DEF Evidence

\* An upgrade whose state is written to a state that claims nothing of the canary.
LEMMA MovedElsewhere ==
    ASSUME StoreTyped, NEW i \in DOMAIN upgrades, NEW to, Moved(i, to),
           to \notin {"awaiting_promote", "promoting"}
    PROVE  NoNewClaim
<1>1. upgrades[i] \in Upgrade
  BY StoredUpgrade
<1>2. upgrades'[i].state = to
  BY <1>1 DEF Moved, Upgrade
<1> QED
  BY <1>2 DEF Moved, NoNewClaim

\* The jobs and the operators need no evidence, but the one that promotes.
LEMMA JobEvidence ==
    ASSUME Typed, [Next]_vars, Evidence, NEW j \in jobs,
           JobCannotFetch(j) \/ JobRecords(j) \/ JobSends(j) \/ JobEnds(j)
    PROVE  Evidence'
<1>1. UNCHANGED <<pc, up, ran>>
  BY DEF JobCannotFetch, JobRecords, JobSends, JobEnds, wireVars
<1>2. \A n \in Nodes : row'[n] = row[n] \/ row'[n].phase \notin Settled
  <2>1. \/ UNCHANGED row
        \/ row' = [row EXCEPT ![j.node] = [ver |-> j.ver, phase |-> "UNSPECIFIED"]]
    BY DEF JobCannotFetch, JobRecords, JobSends, JobEnds
  <2> QED
    BY <2>1 DEF Typed, StoreTyped, Settled
<1>3. \/ UNCHANGED upgrades
      \/ /\ j.kind # "oneoff" /\ JobEnds(j)
         /\ upgrades' = SetUpgradeState(j.id, j.kind, "blocked")
  BY DEF JobCannotFetch, JobRecords, JobSends, JobEnds
<1>4. CASE UNCHANGED upgrades
  BY <1>1, <1>2, <1>4, HandlersSameEvidence DEF NoNewClaim
<1>5. CASE j.kind # "oneoff" /\ upgrades' = SetUpgradeState(j.id, j.kind, "blocked")
  <2>1. j.id \in DOMAIN upgrades /\ j.kind \in InFlight /\ "blocked" \in InFlight \cup {"done"}
    BY <1>5 DEF Typed, IdsStored, JobsTyped, Tasks, Kinds, InFlight
  <2>2. UNCHANGED upgrades \/ Moved(j.id, "blocked")
    BY <1>5, <2>1, SetStateKeeps DEF Typed
  <2>3. CASE Moved(j.id, "blocked")
    BY <1>1, <1>2, <2>1, <2>3, MovedElsewhere, HandlersSameEvidence DEF Typed
  <2> QED
    BY <1>4, <2>2, <2>3
<1> QED
  BY <1>3, <1>4, <1>5

\* Promote moves on what was proved; the others claim nothing.
LEMMA OperatorEvidence ==
    ASSUME Typed, [Next]_vars, Evidence, Operators
    PROVE  Evidence'
<1>1. UNCHANGED <<row, pc, up, ran>>
  BY DEF Operators, InstallOn, StartCanary, Promote, Retry, Abandon, wireVars
<1>2. NoNewClaim
  <2>1. CASE UNCHANGED upgrades
    BY <2>1 DEF NoNewClaim
  <2>2. ASSUME NEW n \in Nodes, NEW v \in Kernels, StartCanary(v, n)
        PROVE  NoNewClaim
    <3> DEFINE u == [ver |-> v, canary |-> n, state |-> "canary", abandoned |-> FALSE]
    <3>1. Active = {} /\ upgrades' = Append(upgrades, u)
      BY <2>2 DEF StartCanary
    <3>2. u \in Upgrade /\ u.state = "canary"
      BY DEF Upgrade, InFlight
    <3> HIDE DEF u
    <3> QED
      BY <3>1, <3>2, AppendKeeps DEF Typed, NoNewClaim
  <2>3. ASSUME NEW i \in DOMAIN upgrades, Promote(i) \/ Retry(i)
        PROVE  NoNewClaim
    <3>1. PICK to \in {"done", "promoting", "canary"} :
             /\ upgrades' = [upgrades EXCEPT ![i].state = to]
             /\ to = "promoting" => upgrades[i].state = "awaiting_promote"
      BY <2>3 DEF Promote, Retry
    <3>2. Moved(i, to)
      BY <3>1, WriteState DEF InFlight, Typed
    <3>3. CASE to # "promoting"
      BY <3>1, <3>2, <3>3, MovedElsewhere DEF Typed
    <3>4. CASE to = "promoting"
      BY <3>1, <3>2, <3>4 DEF Moved, NoNewClaim
    <3> QED
      BY <3>3, <3>4
  <2>4. ASSUME NEW i \in DOMAIN upgrades, Abandon(i)
        PROVE  NoNewClaim
    BY <2>4, AbandonKeeps DEF Typed, NoNewClaim
  <2> QED
    BY <2>1, <2>2, <2>3, <2>4 DEF Operators, InstallOn
<1> QED
  BY <1>1, <1>2, HandlersSameEvidence

\* A handler judges the upgrade by what the report shows.
LEMMA HandlerEvidence ==
    ASSUME Typed, [Next]_vars, Evidence, NEW n \in Nodes, HandlerStep(n)
    PROVE  Evidence'
<1> USE DEF Evidence
<1>0. pc \in [Nodes -> Places] /\ row \in [Nodes -> Row] /\ up \in [Nodes -> Seq(Status)]
  BY DEF Typed, HandlersTyped, StoreTyped, WireTyped
<1>1. CASE HandleStatus(n)
  <2> DEFINE m == Head(up[n])
  <2>1. /\ UNCHANGED <<upgrades, ran>> /\ up[n] # <<>>
        /\ up' = [up EXCEPT ![n] = Tail(up[n])]
        /\ \/ /\ row[n].ver = m.ver /\ row' = [row EXCEPT ![n].phase = m.phase]
              /\ pc' = [pc EXCEPT ![n] = [at |-> "advance", st |-> m]]
           \/ UNCHANGED <<row, pc>>
    BY <1>1 DEF HandleStatus
  <2>2. m \in HonestReports(n) /\ Tail(up[n]) \in Seq(HonestReports(n))
    BY <2>1, HeadTailProperties DEF ReportsHonest
  <2>3. ReportsHonest'
    <3>1. \A k \in Nodes : HonestReports(k)' = HonestReports(k)
      BY <2>1 DEF HonestReports
    <3>2. ASSUME NEW k \in Nodes
          PROVE  up'[k] \in Seq(HonestReports(k))
      BY <1>0, <2>1, <2>2 DEF ReportsHonest
    <3>3. ASSUME NEW k \in Nodes, pc'[k].at = "advance"
          PROVE  pc'[k].st \in HonestReports(k)
      <4>1. \/ pc'[k] = pc[k]
            \/ k = n /\ pc'[k] = [at |-> "advance", st |-> m]
        BY <1>0, <2>1
      <4> HIDE DEF m
      <4> QED
        BY <2>2, <3>3, <4>1 DEF ReportsHonest
    <3>4. ASSUME NEW k \in Nodes, row'[k].phase \in Settled
          PROVE  row'[k].ver \in ran[k]
      BY <1>0, <2>1, <2>2, <3>4 DEF ReportsHonest, HonestReports, Row
    <3> QED
      BY <2>1, <3>1, <3>2, <3>3, <3>4 DEF ReportsHonest
  <2>4. VerdictsProved'
    <3>1. ASSUME NEW k \in Nodes PROVE pc'[k] = pc[k] \/ pc'[k].at = "advance"
      BY <1>0, <2>1
    <3> QED
      BY <3>1, VerdictsStay DEF VerdictsProved, VerdictProved
  <2>5. CanaryProvesFirst'
    BY <2>1, ProofStays DEF NoNewClaim
  <2> QED
    BY <2>3, <2>4, <2>5
<1>2. CASE Advance(n)
  <2>1. UNCHANGED <<upgrades, row, up, ran>> /\ pc[n] \in Advancing
    BY <1>2, AdvanceCases
  <2>2. \A k \in Nodes : k # n => pc'[k] = pc[k]
    BY <1>0, <1>2 DEF Advance
  <2>3. \/ pc'[n] = Idle
        \/ \E i \in Active :
              \/ pc'[n] = ToFinish(i, "blocked", TRUE) /\ upgrades[i].state # "blocked"
              \/ /\ pc'[n] = ToFinish(i, "awaiting_promote", FALSE)
                 /\ upgrades[i].state = "canary" /\ n = upgrades[i].canary
                 /\ upgrades[i].ver = pc[n].st.ver /\ pc[n].st.phase \in Settled
              \/ pc'[n] = [at |-> "check", id |-> i] /\ upgrades[i].state = "promoting"
    BY <1>0, <1>2, AdvanceCases
  <2>4. ReportsHonest'
    <3>0. /\ \A i : /\ ToFinish(i, "blocked", TRUE).at = "finish"
                   /\ ToFinish(i, "awaiting_promote", FALSE).at = "finish"
                   /\ [at |-> "check", id |-> i].at = "check"
          /\ Idle.at = "idle"
      BY DEF Idle, ToFinish
    <3>1. pc'[n].at \in {"idle", "finish", "check"}
      BY <2>3, <3>0
    <3>2. pc'[n].at # "advance"
      BY <3>1
    <3> QED
      BY <2>1, <2>2, <3>2, ShownStaysShown DEF ReportsHonest
  <2>5. VerdictProved(n)'
    <3>1. CASE pc'[n] = Idle
      BY <3>1, VerdictsStay
    <3>2. ASSUME NEW i \in Active, pc'[n] = ToFinish(i, "blocked", TRUE),
                 upgrades[i].state # "blocked"
          PROVE  VerdictProved(n)'
      BY <3>2 DEF VerdictProved, ToFinish
    <3>3. ASSUME NEW i \in Active, pc'[n] = ToFinish(i, "awaiting_promote", FALSE),
                 upgrades[i].state = "canary", n = upgrades[i].canary,
                 upgrades[i].ver = pc[n].st.ver, pc[n].st.phase \in Settled
          PROVE  VerdictProved(n)'
      <4>1. upgrades[i].ver \in ran[upgrades[i].canary]
        BY <2>1, <3>3 DEF Advancing, ReportsHonest, HonestReports
      <4>2. /\ pc'[n].at = "finish" /\ pc'[n].from = "canary" /\ pc'[n].alert = FALSE
            /\ pc'[n].id = i
        BY <3>3 DEF ToFinish
      <4> QED
        BY <2>1, <4>1, <4>2 DEF VerdictProved, Proved
    <3>4. ASSUME NEW i \in Active, pc'[n] = [at |-> "check", id |-> i],
                 upgrades[i].state = "promoting"
          PROVE  VerdictProved(n)'
      <4>1. upgrades[i].ver \in ran[upgrades[i].canary]
        BY <3>4 DEF Active, CanaryProvesFirst
      <4>2. pc'[n].at = "check" /\ pc'[n].id = i
        BY <3>4
      <4> QED
        BY <2>1, <4>1, <4>2 DEF VerdictProved, Proved
    <3> QED
      BY <2>3, <3>1, <3>2, <3>3, <3>4
  <2>6. VerdictsProved'
    BY <2>2, <2>5, VerdictsStay DEF VerdictsProved
  <2>7. CanaryProvesFirst'
    BY <2>1, ProofStays DEF NoNewClaim
  <2> QED
    BY <2>4, <2>6, <2>7
<1>3. CASE CheckPromotionComplete(n)
  <2>1. /\ UNCHANGED <<upgrades, row, up, ran>> /\ pc[n].at = "check"
        /\ \/ pc' = [pc EXCEPT ![n] = Idle]
           \/ pc' = [pc EXCEPT ![n] = [at |-> "finish", id |-> pc[n].id, from |-> "promoting",
                                       to |-> "done", alert |-> FALSE]]
    BY <1>3 DEF CheckPromotionComplete, wireVars
  <2>2. /\ \A k \in Nodes : k # n => pc'[k] = pc[k]
        /\ \/ pc'[n] = Idle
           \/ pc'[n] = [at |-> "finish", id |-> pc[n].id, from |-> "promoting",
                        to |-> "done", alert |-> FALSE]
    BY <1>0, <2>1
  <2>3. ReportsHonest'
    BY <2>1, <2>2 DEF ReportsHonest, HonestReports, Idle
  <2>4. VerdictProved(n)'
    BY <2>2 DEF VerdictProved, Idle
  <2>5. VerdictsProved'
    BY <2>2, <2>4, VerdictsStay DEF VerdictsProved
  <2>6. CanaryProvesFirst'
    BY <2>1, ProofStays DEF NoNewClaim
  <2> QED
    BY <2>3, <2>5, <2>6
<1>4. CASE Finish(n)
  <2>1. /\ UNCHANGED <<row, up, ran>> /\ pc[n].at = "finish"
        /\ pc' = [pc EXCEPT ![n] = Idle]
        /\ upgrades' = SetUpgradeState(pc[n].id, pc[n].from, pc[n].to)
    BY <1>4 DEF Finish, wireVars
  <2>2. /\ pc[n].id \in DOMAIN upgrades /\ pc[n].from \in InFlight
        /\ pc[n].to \in {"blocked", "awaiting_promote", "done"}
    BY <2>1, PlaceOf DEF Typed, IdsStored, Finishing
  <2>3. \A k \in Nodes : pc'[k] = pc[k] \/ pc'[k] = Idle
    BY <1>0, <2>1
  <2>4. ReportsHonest'
    BY <2>1, <2>3 DEF ReportsHonest, HonestReports, Idle
  <2>5. VerdictsProved'
    BY <2>3, VerdictsStay DEF VerdictsProved
  <2>6. UNCHANGED upgrades \/ Moved(pc[n].id, pc[n].to)
    BY <2>1, <2>2, SetStateKeeps DEF Typed, InFlight
  <2>7. CanaryProvesFirst'
    <3>1. CASE UNCHANGED upgrades
      BY <3>1, ProofStays DEF NoNewClaim
    <3>2. CASE Moved(pc[n].id, pc[n].to) /\ pc[n].to # "awaiting_promote"
      BY <2>2, <3>2, MovedElsewhere, ProofStays DEF Typed
    <3>3. CASE Moved(pc[n].id, pc[n].to) /\ pc[n].to = "awaiting_promote"
      <4>1. Proved(pc[n].id)
        BY <2>1, <3>3 DEF VerdictsProved, VerdictProved
      <4>2. \A k \in DOMAIN upgrades' :
               k \in DOMAIN upgrades /\ (k # pc[n].id => upgrades'[k] = upgrades[k])
        BY <3>3 DEF Moved
      <4>3. NoNewClaim
        BY <4>1, <4>2 DEF NoNewClaim
      <4> QED
        BY <4>3, ProofStays
    <3> QED
      BY <2>6, <3>1, <3>2, <3>3
  <2> QED
    BY <2>4, <2>5, <2>7
<1> QED
  BY <1>1, <1>2, <1>3, <1>4 DEF HandlerStep

\* At the start there is nothing to prove.
LEMMA EvidenceInit == Init => Evidence
<1> SUFFICES ASSUME Init PROVE Evidence
  OBVIOUS
<1>1. ReportsHonest
  BY EmptySeq DEF Init, ReportsHonest, Idle, Settled
<1>2. VerdictsProved /\ CanaryProvesFirst
  BY DEF Init, VerdictsProved, VerdictProved, CanaryProvesFirst, Idle
<1> QED
  BY <1>1, <1>2 DEF Evidence

\* Every step keeps the evidence.
LEMMA EvidenceStep ==
    ASSUME Typed, [Next]_vars, Evidence
    PROVE  Evidence'
<1>1. CASE UNCHANGED vars
  <2>1. UNCHANGED coreVars /\ UNCHANGED <<up, ran>>
    BY <1>1 DEF vars, wireVars
  <2>2. \A k \in Nodes : up'[k] \in Seq(HonestReports(k)')
    BY <2>1, ShownStaysShown DEF Evidence, ReportsHonest
  <2> QED
    BY <2>1, <2>2, CoreSameEvidence
<1>2. ASSUME NEW n \in Nodes, AgentStep(n)
      PROVE  Evidence'
  <2>1. UNCHANGED coreVars
    BY <1>2 DEF AgentStep, TakeInstall, Install, Activate
  <2> QED
    BY <1>2, <2>1, AgentHonest, CoreSameEvidence DEF Evidence
<1>3. ASSUME NEW n \in Nodes, StreamBreaks(n) \/ Reconnect(n) \/ AgentDies(n)
      PROVE  Evidence'
  <2>1. UNCHANGED coreVars /\ (UNCHANGED up \/ up' = Emptied(up, {n}))
    BY <1>3 DEF StreamBreaks, Reconnect, AgentDies
  <2>2. \A k \in Nodes : up'[k] \in Seq(HonestReports(k)')
    <3>1. \A k \in Nodes : up'[k] = up[k] \/ up'[k] = <<>>
      BY <2>1 DEF Emptied
    <3> QED
      BY <3>1, ShownStaysShown, EmptySeq DEF Evidence, ReportsHonest
  <2> QED
    BY <2>1, <2>2, CoreSameEvidence
<1>4. CASE CoreRestart
  <2>1. UNCHANGED <<upgrades, row, ran>> /\ pc' = [n \in Nodes |-> Idle]
        /\ up' = Emptied(up, Nodes)
    BY <1>4 DEF CoreRestart
  <2>2. ReportsHonest'
    BY <2>1, EmptySeq DEF Evidence, ReportsHonest, Emptied, Idle
  <2>3. VerdictsProved'
    BY <2>1 DEF VerdictsProved, VerdictProved, Idle
  <2>4. CanaryProvesFirst'
    BY <2>1, ProofStays DEF NoNewClaim, Evidence
  <2> QED
    BY <2>2, <2>3, <2>4 DEF Evidence
<1> QED
  BY <1>1, <1>2, <1>3, <1>4, JobEvidence, OperatorEvidence, HandlerEvidence DEF Next, JobStep

\* Nobody is asked to promote, and nothing is promoted, that the canary has not
\* come up on, whatever reports are late, which nodes report and what is retried
\* (advance, Promote, Retry).
THEOREM CanaryFirst == Spec => []CanaryProvesFirst
<1>1. Init => Typed /\ Evidence
  BY TypedInit, EvidenceInit
<1>2. Typed /\ Evidence /\ [Next]_vars => (Typed /\ Evidence)'
  BY TypedStep, EvidenceStep
<1>3. Evidence => CanaryProvesFirst
  BY DEF Evidence
<1> QED
  BY <1>1, <1>2, <1>3, PTL DEF Spec

\* Only Finish announces, and only a move to blocked that it made itself.
LEMMA AlertMeansBlocked ==
    ASSUME Typed, Evidence, [Next]_vars, alerts' # alerts
    PROVE  \E i \in DOMAIN upgrades : /\ upgrades[i].state # "blocked"
                                      /\ upgrades'[i].state = "blocked"
<1>1. PICK n \in Nodes : Finish(n)
  <2>1. CASE Operators
    BY <2>1 DEF Operators, InstallOn, StartCanary, Promote, Retry, Abandon
  <2>2. CASE JobStep
    BY <2>2 DEF JobStep, JobCannotFetch, JobRecords, JobSends, JobEnds
  <2>3. ASSUME NEW k \in Nodes, HandlerStep(k)
        PROVE  Finish(k)
    BY <2>3 DEF HandlerStep, HandleStatus, Advance, CheckPromotionComplete
  <2>4. ASSUME NEW k \in Nodes,
               AgentStep(k) \/ StreamBreaks(k) \/ Reconnect(k) \/ AgentDies(k)
        PROVE  FALSE
    BY <2>4 DEF AgentStep, TakeInstall, Install, Activate, StreamBreaks, Reconnect, AgentDies,
                coreVars
  <2>5. CASE CoreRestart \/ UNCHANGED vars
    BY <2>5 DEF CoreRestart, vars, coreVars
  <2> QED
    BY <2>1, <2>2, <2>3, <2>4, <2>5 DEF Next
<1>2. /\ pc[n].at = "finish" /\ pc[n].alert /\ Matches(pc[n].id, pc[n].from)
      /\ upgrades' = SetUpgradeState(pc[n].id, pc[n].from, pc[n].to)
  BY <1>1 DEF Finish
<1>3. /\ pc[n].id \in DOMAIN upgrades /\ pc[n].from \in InFlight
      /\ pc[n].from # "blocked" /\ pc[n].to = "blocked"
  BY <1>2, PlaceOf DEF Typed, IdsStored, Finishing, Evidence, VerdictsProved, VerdictProved
<1>4. Moved(pc[n].id, "blocked")
  BY <1>2, <1>3, SetStateKeeps DEF Typed, Matches, InFlight
<1>5. upgrades[pc[n].id] \in Upgrade
  BY <1>3, StoredUpgrade DEF Typed
<1>6. upgrades'[pc[n].id].state = "blocked"
  BY <1>4, <1>5 DEF Moved, Upgrade
<1> QED
  BY <1>2, <1>3, <1>6 DEF Matches

\* One notification per blocking, however many nodes fail at once and however
\* many handlers saw the upgrade before any of them blocked it (block).
THEOREM AlertsAreBlockings == Spec => OneAlertPerBlock
<1>1. Init => Typed /\ Evidence
  BY TypedInit, EvidenceInit
<1>2. Typed /\ Evidence /\ [Next]_vars => (Typed /\ Evidence)'
  BY TypedStep, EvidenceStep
<1>3. Typed /\ Evidence /\ [Next]_vars =>
         [alerts' # alerts => \E i \in DOMAIN upgrades : /\ upgrades[i].state # "blocked"
                                                         /\ upgrades'[i].state = "blocked"]_vars
  BY AlertMeansBlocked
<1> QED
  BY <1>1, <1>2, <1>3, PTL DEF Spec, OneAlertPerBlock
-----------------------------------------------------------------------------
(* What done means, while nobody asks for an install that is only staged.  A *)
(* staged install reports INSTALLED, which checkPromotionComplete accepts;    *)
(* without one every success behind a finished upgrade is a kernel that ran.  *)

Activated == {m \in Command : m.activate}
Unstaged  == {m \in Status : m.phase # "INSTALLED"}

NothingStaged ==
    /\ \A j \in jobs : j.activate
    /\ \A n \in Nodes : /\ down[n] \in Seq(Activated)
                        /\ slot[n] # None => slot[n].activate
                        /\ up[n] \in Seq(Unstaged)
                        /\ row[n].phase # "INSTALLED"

RanEverywhere(i) == \A n \in Nodes : upgrades[i].ver \in ran[n]

CompletionRan(n) == pc[n].at = "finish" /\ pc[n].to = "done" => RanEverywhere(pc[n].id)

Complete == NothingStaged /\ (\A n \in Nodes : CompletionRan(n)) /\ DoneMeansRan

\* Jobs, frames and rows while the agents do nothing.
LEMMA StagedCore ==
    ASSUME NothingStaged, UNCHANGED <<down, slot, up>>,
           \A j \in jobs' : j.activate,
           \A n \in Nodes : row'[n] = row[n] \/ row'[n].phase # "INSTALLED"
    PROVE  NothingStaged'
  BY DEF NothingStaged

\* A job's step asks for what the job was started for.
LEMMA StagedJob ==
    ASSUME Typed, NothingStaged, NEW j \in jobs,
           JobCannotFetch(j) \/ JobRecords(j) \/ JobSends(j) \/ JobEnds(j)
    PROVE  NothingStaged'
<1>0. j \in Tasks /\ j.activate
  BY DEF Typed, JobsTyped, NothingStaged
<1>1. \A k \in jobs' : k.activate
  <2>1. CASE JobCannotFetch(j) \/ JobSends(j)
    <3>1. /\ GoOn(j, TRUE) \/ GoOn(j, ~Reachable(j.node))
          /\ UNCHANGED started /\ JobsTyped
      BY <2>1 DEF JobCannotFetch, JobSends, Typed
    <3>2. \A k \in jobs' : k \in jobs \/ Successor(j, k)
      BY <3>1, GoesOn, Zenon DEF Reachable
    <3> QED
      BY <1>0, <3>2 DEF Successor, NothingStaged
  <2>2. CASE JobRecords(j)
    BY <1>0, <2>2 DEF JobRecords, Tasks, NothingStaged
  <2>3. CASE JobEnds(j)
    BY <2>3 DEF JobEnds, NothingStaged
  <2> QED
    BY <2>1, <2>2, <2>3
<1>2. \A n \in Nodes : row'[n] = row[n] \/ row'[n].phase # "INSTALLED"
  <2>1. \/ UNCHANGED row
        \/ row' = [row EXCEPT ![j.node] = [ver |-> j.ver, phase |-> "UNSPECIFIED"]]
    BY DEF JobCannotFetch, JobRecords, JobSends, JobEnds
  <2> QED
    BY <2>1 DEF Typed, StoreTyped
<1>3. UNCHANGED <<slot, up>>
  BY DEF JobCannotFetch, JobRecords, JobSends, JobEnds, wireVars
<1>4. CASE UNCHANGED down
  BY <1>1, <1>2, <1>3, <1>4, StagedCore
<1>5. CASE down' = [down EXCEPT ![j.node] = Append(down[j.node], [ver |-> j.ver, activate |-> j.activate])]
  <2> DEFINE m == [ver |-> j.ver, activate |-> j.activate]
  <2>1. m \in Activated /\ j.node \in Nodes
    BY <1>0 DEF Activated, Command, Tasks
  <2>2. down' = [down EXCEPT ![j.node] = Append(down[j.node], m)]
    BY <1>5
  <2> HIDE DEF m
  <2>3. Append(down[j.node], m) \in Seq(Activated)
    BY <2>1, AppendProperties DEF NothingStaged
  <2>4. \A n \in Nodes : down'[n] \in Seq(Activated)
    BY <2>2, <2>3 DEF NothingStaged, Typed, WireTyped
  <2> QED
    BY <1>1, <1>2, <1>3, <2>4 DEF NothingStaged
<1> QED
  BY <1>4, <1>5 DEF JobCannotFetch, JobRecords, JobSends, JobEnds, wireVars

\* What an agent is asked for and reports.
LEMMA StagedAgent ==
    ASSUME Typed, NothingStaged, NEW n \in Nodes, AgentStep(n)
    PROVE  NothingStaged'
<1>0. /\ UNCHANGED <<jobs, row>>
      /\ slot[n] # None => /\ slot[n] \in Attempt /\ slot[n].ver \in Kernels
                           /\ slot[n].activate
      /\ slot \in [Nodes -> Attempt \cup {None}] /\ down \in [Nodes -> Seq(Command)]
      /\ up \in [Nodes -> Seq(Status)]
  BY DEF Typed, AgentsTyped, WireTyped, Attempt, NothingStaged, AgentStep, TakeInstall, Install,
         Activate, coreVars
<1>1. ASSUME NEW live, NEW v \in Kernels, NEW phase \in Phases \ {"INSTALLED"},
             Report(n, live, <<[ver |-> v, phase |-> phase]>>)
      PROVE  \A k \in Nodes : up'[k] \in Seq(Unstaged)
  <2>1. <<[ver |-> v, phase |-> phase]>> \in Seq(Unstaged)
    BY DEF Unstaged, Status
  <2>2. up[n] \o <<[ver |-> v, phase |-> phase]>> \in Seq(Unstaged)
    BY <2>1, ConcatProperties DEF NothingStaged
  <2> DEFINE t == up[n] \o <<[ver |-> v, phase |-> phase]>>
  <2>3. UNCHANGED up \/ up' = [up EXCEPT ![n] = t]
    BY <1>1 DEF Report
  <2> HIDE DEF t
  <2> QED
    BY <1>0, <2>2, <2>3 DEF NothingStaged, t
<1>2. CASE TakeInstall(n)
  <2> DEFINE m == Head(down[n])
             a == [ver |-> m.ver, activate |-> m.activate, stage |-> "fetch", live |-> TRUE]
  <2>1. /\ down[n] # <<>> /\ down' = [down EXCEPT ![n] = Tail(down[n])]
        /\ \/ slot' = [slot EXCEPT ![n] = a] /\ UNCHANGED up
           \/ /\ Report(n, TRUE, <<[ver |-> m.ver, phase |-> "FAILED"]>>)
              /\ UNCHANGED slot
    BY <1>2 DEF TakeInstall
  <2>2. m \in Activated /\ Tail(down[n]) \in Seq(Activated)
    BY <2>1, HeadTailProperties DEF NothingStaged
  <2>3. m.ver \in Kernels /\ a.activate /\ "FAILED" \in Phases \ {"INSTALLED"}
    BY <2>2 DEF Activated, Command, Phases, Failed
  <2> HIDE DEF m, a
  <2>4. \A k \in Nodes : up'[k] \in Seq(Unstaged)
    BY <1>1, <2>1, <2>3 DEF NothingStaged
  <2>5. \A k \in Nodes : slot'[k] # None => slot'[k].activate
    BY <1>0, <2>1, <2>3 DEF NothingStaged
  <2>6. \A k \in Nodes : down'[k] \in Seq(Activated)
    BY <1>0, <2>1, <2>2 DEF NothingStaged
  <2> QED
    BY <1>0, <2>4, <2>5, <2>6 DEF NothingStaged
<1>3. CASE Install(n) \/ Activate(n)
  <2>1. /\ slot[n] # None /\ UNCHANGED down
        /\ \/ slot' = [slot EXCEPT ![n] = None]
           \/ slot' = [slot EXCEPT ![n].stage = "activate"]
        /\ \E phase \in Phases \ {"INSTALLED"} :
              Report(n, slot[n].live, <<[ver |-> slot[n].ver, phase |-> phase]>>)
    <3>1. "FAILED" \in Phases \ {"INSTALLED"} /\ "ACTIVATING" \in Phases \ {"INSTALLED"}
          /\ Settled \cup {"ROLLED_BACK"} \subseteq Phases \ {"INSTALLED"}
      BY DEF Phases, Failed, Settled
    <3> QED
      BY <1>0, <1>3, <3>1 DEF Install, Activate
  <2>2. \A k \in Nodes : up'[k] \in Seq(Unstaged)
    BY <1>0, <1>1, <2>1
  <2>3. slot'[n] # None => slot'[n].activate
    <3>1. slot'[n] = None \/ slot'[n] = [slot[n] EXCEPT !.stage = "activate"]
      BY <1>0, <2>1
    <3>2. [slot[n] EXCEPT !.stage = "activate"].activate = slot[n].activate
      BY <1>0, <2>1 DEF Attempt
    <3> QED
      BY <1>0, <2>1, <3>1, <3>2, Zenon
  <2>4. \A k \in Nodes : k # n => slot'[k] = slot[k]
    BY <1>0, <2>1
  <2> QED
    BY <1>0, <2>1, <2>2, <2>3, <2>4 DEF NothingStaged
<1> QED
  BY <1>2, <1>3 DEF AgentStep

\* No step stages anything, when no operator asks for it.
LEMMA StagedStep ==
    ASSUME OneOffActivates \subseteq {TRUE}, Typed, NothingStaged, [Next]_vars
    PROVE  NothingStaged'
<1>1. CASE Operators
  <2>1. UNCHANGED <<row, down, slot, up>>
    BY <1>1 DEF Operators, InstallOn, StartCanary, Promote, Retry, Abandon, wireVars
  <2>2. \A j \in jobs' : j.activate
    <3>1. ASSUME NEW kind, NEW i, NEW n, NEW v, NEW rest,
                 StartJob(Job(kind, i, n, v, TRUE, rest))
          PROVE  \A j \in jobs' : j.activate
      <4>1. Job(kind, i, n, v, TRUE, rest).activate
        BY DEF Job
      <4> QED
        BY <3>1, <4>1 DEF StartJob, NothingStaged
    <3>2. ASSUME NEW n \in Nodes, NEW v \in Kernels, NEW act \in OneOffActivates,
                 InstallOn(n, v, act)
          PROVE  \A j \in jobs' : j.activate
      <4>1. StartJob(Job("oneoff", 0, n, v, TRUE, {}))
        BY <3>2 DEF InstallOn
      <4> QED
        BY <3>1, <4>1
    <3>3. ASSUME NEW n \in Nodes, NEW v \in Kernels, StartCanary(v, n)
          PROVE  \A j \in jobs' : j.activate
      BY <3>1, <3>3 DEF StartCanary
    <3>4. ASSUME NEW i \in DOMAIN upgrades, Promote(i)
          PROVE  \A j \in jobs' : j.activate
      BY <3>1, <3>4 DEF Promote, NothingStaged
    <3>5. ASSUME NEW i \in DOMAIN upgrades, Retry(i) \/ Abandon(i)
          PROVE  \A j \in jobs' : j.activate
      BY <3>1, <3>5 DEF Retry, Abandon, NothingStaged
    <3> QED
      BY <1>1, <3>2, <3>3, <3>4, <3>5 DEF Operators
  <2> QED
    BY <2>1, <2>2, StagedCore
<1>2. ASSUME NEW n \in Nodes, HandlerStep(n)
      PROVE  NothingStaged'
  <2>1. UNCHANGED <<jobs, down, slot>>
    BY <1>2 DEF HandlerStep, HandleStatus, Advance, CheckPromotionComplete, Finish, wireVars
  <2>2. CASE HandleStatus(n)
    <3>1. /\ up[n] # <<>> /\ up' = [up EXCEPT ![n] = Tail(up[n])]
          /\ UNCHANGED row \/ row' = [row EXCEPT ![n].phase = Head(up[n]).phase]
      BY <2>2 DEF HandleStatus
    <3>2. Head(up[n]) \in Unstaged /\ Tail(up[n]) \in Seq(Unstaged)
      BY <3>1, HeadTailProperties DEF NothingStaged
    <3>3. \A k \in Nodes : up'[k] \in Seq(Unstaged)
      BY <3>1, <3>2 DEF NothingStaged, Typed, WireTyped
    <3>4. \A k \in Nodes : row'[k].phase # "INSTALLED"
      <4>1. CASE UNCHANGED row
        BY <4>1 DEF NothingStaged
      <4>2. CASE row' = [row EXCEPT ![n].phase = Head(up[n]).phase]
        <5>1. row \in [Nodes -> Row] /\ Head(up[n]).phase # "INSTALLED"
          BY <3>2 DEF Typed, StoreTyped, Unstaged
        <5> QED
          BY <4>2, <5>1 DEF NothingStaged, Row
      <4> QED
        BY <3>1, <4>1, <4>2
    <3> QED
      BY <2>1, <3>3, <3>4 DEF NothingStaged
  <2>3. CASE ~HandleStatus(n)
    BY <1>2, <2>1, <2>3, StagedCore
       DEF HandlerStep, Advance, CheckPromotionComplete, Finish, wireVars, NothingStaged
  <2> QED
    BY <2>2, <2>3
<1>3. CASE CoreRestart \/ \E n \in Nodes : StreamBreaks(n) \/ Reconnect(n) \/ AgentDies(n)
  <2>1. PICK S \in SUBSET Nodes :
           /\ UNCHANGED row /\ jobs' \subseteq jobs
           /\ UNCHANGED down \/ down' = Emptied(down, S)
           /\ UNCHANGED up \/ up' = Emptied(up, S)
           /\ UNCHANGED slot \/ slot' = Unheard(S) \/ \E n \in S : slot' = [slot EXCEPT ![n] = None]
    <3>1. ASSUME NEW n \in Nodes, StreamBreaks(n) \/ Reconnect(n) \/ AgentDies(n)
          PROVE  /\ {n} \in SUBSET Nodes /\ UNCHANGED row /\ jobs' \subseteq jobs
                 /\ UNCHANGED down \/ down' = Emptied(down, {n})
                 /\ UNCHANGED up \/ up' = Emptied(up, {n})
                 /\ UNCHANGED slot \/ slot' = Unheard({n}) \/ slot' = [slot EXCEPT ![n] = None]
      BY <3>1 DEF StreamBreaks, Reconnect, AgentDies, coreVars
    <3>2. CASE CoreRestart
      BY <3>2 DEF CoreRestart
    <3> QED
      BY <1>3, <3>1, <3>2
  <2>2. \A k \in Nodes : down'[k] \in Seq(Activated) /\ up'[k] \in Seq(Unstaged)
    BY <2>1, EmptySeq DEF NothingStaged, Emptied
  <2>3. \A k \in Nodes : slot'[k] # None => slot'[k].activate
    BY <2>1 DEF NothingStaged, Unheard, Typed, AgentsTyped, Attempt
  <2> QED
    BY <2>1, <2>2, <2>3 DEF NothingStaged
<1>4. CASE UNCHANGED vars
  BY <1>4 DEF vars, coreVars, wireVars, NothingStaged
<1> QED
  BY <1>1, <1>2, <1>3, <1>4, StagedJob, StagedAgent DEF Next, JobStep

\* What ran everywhere has run everywhere.
LEMMA RanEverywhereStays ==
    ASSUME Typed, [Next]_vars, NEW i \in DOMAIN upgrades, RanEverywhere(i)
    PROVE  RanEverywhere(i)'
  BY RanGrows, TypedStep DEF RanEverywhere, Kept

\* No upgrade finishes by itself, unless every node came up on its version.
NoNewDone ==
    \A i \in DOMAIN upgrades' :
        upgrades'[i].state = "done" /\ ~upgrades'[i].abandoned
           => /\ i \in DOMAIN upgrades
              /\ \/ upgrades[i].state = "done" /\ ~upgrades[i].abandoned
                 \/ RanEverywhere(i)

\* Such a step keeps what done means.
LEMMA DoneStays ==
    ASSUME Typed, [Next]_vars, DoneMeansRan, NoNewDone
    PROVE  DoneMeansRan'
<1> SUFFICES ASSUME NEW i \in DOMAIN upgrades', upgrades'[i].state = "done",
                    ~upgrades'[i].abandoned
             PROVE  RanEverywhere(i)'
  BY DEF DoneMeansRan, RanEverywhere
<1>1. i \in DOMAIN upgrades /\ RanEverywhere(i)
  BY DEF DoneMeansRan, RanEverywhere, NoNewDone
<1> QED
  BY <1>1, RanEverywhereStays

\* A state written over leaves the rest of the table alone.
LEMMA MovedNotDone ==
    ASSUME StoreTyped, NEW i \in DOMAIN upgrades, NEW to, Moved(i, to),
           to = "done" => RanEverywhere(i)
    PROVE  NoNewDone
<1>1. upgrades[i] \in Upgrade
  BY StoredUpgrade
<1>2. upgrades'[i].state = to
  BY <1>1 DEF Moved, Upgrade
<1> QED
  BY <1>2 DEF Moved, NoNewDone

\* A handler that stays where it is.
LEMMA CompletionStays ==
    ASSUME Typed, [Next]_vars, NEW n \in Nodes, CompletionRan(n), pc'[n] = pc[n] \/ pc'[n] = Idle
    PROVE  CompletionRan(n)'
<1>1. CASE pc'[n] = Idle
  BY <1>1 DEF Idle, CompletionRan
<1>2. CASE pc'[n] = pc[n] /\ pc[n].at = "finish"
  <2>1. PICK i \in DOMAIN upgrades : i = pc[n].id
    BY <1>2, PlaceOf DEF Typed, IdsStored
  <2>2. RanEverywhere(i) => RanEverywhere(i)'
    BY RanEverywhereStays
  <2>3. pc'[n].id = i
    BY <1>2, <2>1
  <2> QED
    BY <1>2, <2>1, <2>2, <2>3 DEF CompletionRan, RanEverywhere
<1>3. CASE pc'[n] = pc[n] /\ pc[n].at # "finish"
  BY <1>3 DEF CompletionRan
<1> QED
  BY <1>1, <1>2, <1>3

\* checkPromotionComplete counts nodes that came up on the version.
LEMMA CompletionStep ==
    ASSUME Typed, [Next]_vars, Evidence, NothingStaged, NEW n \in Nodes, CompletionRan(n)
    PROVE  CompletionRan(n)'
<1>0. pc \in [Nodes -> Places]
  BY DEF Typed, HandlersTyped
<1>1. \/ pc'[n] = pc[n] \/ pc'[n] = Idle
      \/ HandlerStep(n)
  <2>1. CASE Operators
    BY <2>1 DEF Operators, InstallOn, StartCanary, Promote, Retry, Abandon
  <2>2. CASE JobStep
    BY <2>2 DEF JobStep, JobCannotFetch, JobRecords, JobSends, JobEnds
  <2>3. ASSUME NEW k \in Nodes, HandlerStep(k)
        PROVE  pc'[n] = pc[n] \/ HandlerStep(n)
    <3>1. CASE k = n
      BY <2>3, <3>1
    <3>2. CASE k # n
      <4>1. UNCHANGED pc \/ \E p : pc' = [pc EXCEPT ![k] = p]
        BY <2>3 DEF HandlerStep, HandleStatus, Advance, CheckPromotionComplete, Finish
      <4> QED
        BY <1>0, <3>2, <4>1
    <3> QED
      BY <3>1, <3>2
  <2>4. ASSUME NEW k \in Nodes,
               AgentStep(k) \/ StreamBreaks(k) \/ Reconnect(k) \/ AgentDies(k)
        PROVE  pc'[n] = pc[n]
    BY <2>4 DEF AgentStep, TakeInstall, Install, Activate, StreamBreaks, Reconnect, AgentDies,
                coreVars
  <2>5. CASE CoreRestart \/ UNCHANGED vars
    BY <2>5 DEF CoreRestart, vars, coreVars
  <2> QED
    BY <2>1, <2>2, <2>3, <2>4, <2>5 DEF Next
<1>2. CASE HandleStatus(n)
  <2>1. pc'[n] = pc[n] \/ pc'[n].at = "advance"
    BY <1>0, <1>2 DEF HandleStatus
  <2> QED
    BY <2>1, CompletionStays DEF CompletionRan
<1>3. CASE Advance(n)
  <2>1. \/ pc'[n] = Idle
        \/ \E i \in Active : \/ pc'[n] = ToFinish(i, "blocked", TRUE)
                             \/ pc'[n] = ToFinish(i, "awaiting_promote", FALSE)
                             \/ pc'[n] = [at |-> "check", id |-> i]
    BY <1>0, <1>3, AdvanceCases
  <2>2. CASE pc'[n] = Idle
    BY <2>2, CompletionStays
  <2>3. ASSUME NEW i \in Active, \/ pc'[n] = ToFinish(i, "blocked", TRUE)
                                 \/ pc'[n] = ToFinish(i, "awaiting_promote", FALSE)
                                 \/ pc'[n] = [at |-> "check", id |-> i]
        PROVE  CompletionRan(n)'
    BY <2>3 DEF ToFinish, CompletionRan
  <2> QED
    BY <2>1, <2>2, <2>3
<1>4. CASE CheckPromotionComplete(n)
  <2>1. UNCHANGED <<upgrades, ran>> /\ pc[n].at = "check"
    BY <1>4 DEF CheckPromotionComplete
  <2>2. PICK i \in DOMAIN upgrades : i = pc[n].id
    BY <2>1, PlaceOf DEF Typed, IdsStored
  <2>3. CASE \A t \in Targets(i) : HasSettled(i, t)
    <3>1. upgrades[i].ver \in ran[upgrades[i].canary]
      BY <2>1, <2>2 DEF Evidence, VerdictsProved, VerdictProved, Proved
    <3>2. ASSUME NEW t \in Targets(i)
          PROVE  upgrades[i].ver \in ran[t]
      BY <2>3 DEF HasSettled, Targets, NothingStaged, Evidence, ReportsHonest
    <3>3. RanEverywhere(i)
      BY <3>1, <3>2 DEF RanEverywhere, Targets
    <3>4. pc'[n].id = i
      BY <1>0, <1>4, <2>2, <2>3 DEF CheckPromotionComplete
    <3> QED
      BY <2>1, <3>3, <3>4 DEF CompletionRan, RanEverywhere
  <2>4. CASE ~\A t \in Targets(i) : HasSettled(i, t)
    <3>1. pc'[n] = Idle
      BY <1>0, <1>4, <2>2, <2>4 DEF CheckPromotionComplete
    <3> QED
      BY <3>1, CompletionStays
  <2> QED
    BY <2>3, <2>4
<1>5. CASE Finish(n)
  <2>1. pc'[n] = Idle
    BY <1>0, <1>5 DEF Finish
  <2> QED
    BY <2>1, CompletionStays
<1> QED
  BY <1>1, <1>2, <1>3, <1>4, <1>5, CompletionStays DEF HandlerStep

\* Only Promote and finish make an upgrade done, and only on that evidence.
LEMMA DoneStep ==
    ASSUME Typed, [Next]_vars, Evidence, Complete
    PROVE  NoNewDone
<1>0. CASE UNCHANGED upgrades
  BY <1>0 DEF NoNewDone
<1>1. CASE Operators
  <2>1. ASSUME NEW n \in Nodes, NEW v \in Kernels, StartCanary(v, n)
        PROVE  NoNewDone
    <3> DEFINE u == [ver |-> v, canary |-> n, state |-> "canary", abandoned |-> FALSE]
    <3>1. Active = {} /\ upgrades' = Append(upgrades, u)
      BY <2>1 DEF StartCanary
    <3>2. u \in Upgrade /\ u.state = "canary"
      BY DEF Upgrade, InFlight
    <3> HIDE DEF u
    <3> QED
      BY <3>1, <3>2, AppendKeeps DEF Typed, NoNewDone
  <2>2. ASSUME NEW i \in DOMAIN upgrades, Promote(i) \/ Retry(i)
        PROVE  NoNewDone
    <3>1. PICK to \in {"done", "promoting", "canary"} :
             /\ upgrades' = [upgrades EXCEPT ![i].state = to]
             /\ to = "done" => upgrades[i].state = "awaiting_promote" /\ Targets(i) = {}
      BY <2>2 DEF Promote, Retry
    <3>2. Moved(i, to)
      BY <3>1, WriteState DEF InFlight, Typed
    <3>3. to = "done" => RanEverywhere(i)
      BY <3>1 DEF Evidence, CanaryProvesFirst, RanEverywhere, Targets
    <3> QED
      BY <3>2, <3>3, MovedNotDone DEF Typed
  <2>3. ASSUME NEW i \in DOMAIN upgrades, Abandon(i)
        PROVE  NoNewDone
    BY <2>3, AbandonKeeps DEF Typed, NoNewDone
  <2> QED
    BY <1>0, <1>1, <2>1, <2>2, <2>3 DEF Operators, InstallOn
<1>2. ASSUME NEW j \in jobs, JobEnds(j)
      PROVE  NoNewDone
  <2>1. CASE j.failed /\ j.kind # "oneoff"
    <3>1. j.id \in DOMAIN upgrades /\ j.kind \in InFlight /\ "blocked" \in InFlight \cup {"done"}
          /\ upgrades' = SetUpgradeState(j.id, j.kind, "blocked")
      BY <1>2, <2>1 DEF JobEnds, Typed, IdsStored, JobsTyped, Tasks, Kinds, InFlight
    <3>2. UNCHANGED upgrades \/ Moved(j.id, "blocked")
      BY <3>1, SetStateKeeps DEF Typed
    <3> QED
      BY <1>0, <3>1, <3>2, MovedNotDone DEF Typed
  <2>2. CASE ~(j.failed /\ j.kind # "oneoff")
    BY <1>0, <1>2, <2>2 DEF JobEnds
  <2> QED
    BY <2>1, <2>2
<1>3. ASSUME NEW n \in Nodes, Finish(n)
      PROVE  NoNewDone
  <2>1. /\ pc[n].at = "finish"
        /\ upgrades' = SetUpgradeState(pc[n].id, pc[n].from, pc[n].to)
    BY <1>3 DEF Finish
  <2>2. /\ pc[n].id \in DOMAIN upgrades /\ pc[n].from \in InFlight
        /\ pc[n].to \in InFlight \cup {"done"}
    BY <2>1, PlaceOf DEF Typed, IdsStored, Finishing, InFlight
  <2>3. UNCHANGED upgrades \/ Moved(pc[n].id, pc[n].to)
    BY <2>1, <2>2, SetStateKeeps DEF Typed
  <2>4. pc[n].to = "done" => RanEverywhere(pc[n].id)
    BY <2>1 DEF Complete, CompletionRan
  <2> QED
    BY <1>0, <2>2, <2>3, <2>4, MovedNotDone DEF Typed
<1>4. \/ UNCHANGED upgrades \/ Operators
      \/ \E j \in jobs : JobEnds(j)
      \/ \E n \in Nodes : Finish(n)
  <2>1. CASE JobStep
    BY <2>1 DEF JobStep, JobCannotFetch, JobRecords, JobSends
  <2>2. ASSUME NEW k \in Nodes, HandlerStep(k)
        PROVE  UNCHANGED upgrades \/ Finish(k)
    BY <2>2 DEF HandlerStep, HandleStatus, Advance, CheckPromotionComplete
  <2>3. ASSUME NEW k \in Nodes,
               AgentStep(k) \/ StreamBreaks(k) \/ Reconnect(k) \/ AgentDies(k)
        PROVE  UNCHANGED upgrades
    BY <2>3 DEF AgentStep, TakeInstall, Install, Activate, StreamBreaks, Reconnect, AgentDies,
                coreVars
  <2>4. CASE CoreRestart \/ UNCHANGED vars
    BY <2>4 DEF CoreRestart, vars, coreVars
  <2> QED
    BY <2>1, <2>2, <2>3, <2>4 DEF Next
<1> QED
  BY <1>0, <1>1, <1>2, <1>3, <1>4

\* An upgrade that finished by itself: every node has come up on its version
\* (UpgradeDone, checkPromotionComplete), as long as one-off installs activate
\* what they install.
THEOREM DoneRan ==
    ASSUME OneOffActivates \subseteq {TRUE}
    PROVE  Spec => []DoneMeansRan
<1> DEFINE Inv == Typed /\ Evidence /\ Complete
<1>1. Init => Inv
  <2> SUFFICES ASSUME Init PROVE Complete
    BY TypedInit, EvidenceInit
  <2> QED
    BY EmptySeq DEF Init, Complete, NothingStaged, CompletionRan, DoneMeansRan, Idle
<1>2. Inv /\ [Next]_vars => Inv'
  <2> SUFFICES ASSUME Inv, [Next]_vars PROVE Complete'
    BY TypedStep, EvidenceStep
  <2>1. NothingStaged'
    BY StagedStep DEF Complete
  <2>2. \A n \in Nodes : CompletionRan(n)'
    BY CompletionStep DEF Complete
  <2>3. DoneMeansRan'
    BY DoneStep, DoneStays DEF Complete
  <2> QED
    BY <2>1, <2>2, <2>3 DEF Complete
<1>3. Inv => DoneMeansRan
  BY DEF Complete
<1> HIDE DEF Inv
<1> QED
  BY <1>1, <1>2, <1>3, PTL DEF Spec
-----------------------------------------------------------------------------
(* A failure blocks, while Core is not restarted.  A target that failed while *)
(* the upgrade is promoting is always somebody's business: of a fan-out that  *)
(* has still to tell it or has failed itself, of its own handler, or of a     *)
(* handler about to block.  A restart of Core forgets all three.              *)

Retelling(i, n) ==
    \E j \in jobs : /\ j.kind = "promoting" /\ j.id = i
                    /\ \/ j.failed \/ n \in j.todo
                       \/ j.node = n /\ j.step = "fetch"
Noticed(i, n) ==
    /\ pc[n].at = "advance" /\ pc[n].st.ver = upgrades[i].ver /\ pc[n].st.phase \in Failed
BlockedBy(i, m) ==
    /\ pc[m].at = "finish" /\ pc[m].id = i /\ pc[m].from = "promoting" /\ pc[m].to = "blocked"
Blocking(i) == \E m \in Nodes : BlockedBy(i, m)

FailedTarget(i, n) ==
    /\ i \in DOMAIN upgrades /\ upgrades[i].state = "promoting" /\ n \in Targets(i)
    /\ row[n].ver = upgrades[i].ver /\ row[n].phase \in Failed

FailuresHandled ==
    \A i \in DOMAIN upgrades : \A n \in Nodes :
        FailedTarget(i, n) => Retelling(i, n) \/ Noticed(i, n) \/ Blocking(i)

JobsEnd == \A j \in jobs : j.step = "end" => j.todo = {}

Watched == budget["core"] = 0 /\ JobsEnd /\ FailuresHandled

\* A failure that was there before the step, of an upgrade that was promoting.
LEMMA SameFailure ==
    ASSUME Typed, [Next]_vars, NEW i, NEW n \in Nodes, FailedTarget(i, n)',
           i \in DOMAIN upgrades, upgrades[i].state = "promoting", row'[n] = row[n]
    PROVE  FailedTarget(i, n)
  BY TypedStep DEF FailedTarget, Targets, Kept

\* Nothing about the jobs, the handlers and the rows changes.
LEMMA WatchedSame ==
    ASSUME Typed, [Next]_vars, FailuresHandled, UNCHANGED <<upgrades, row, jobs, pc>>
    PROVE  FailuresHandled'
  BY DEF FailuresHandled, FailedTarget, Targets, Retelling, Noticed, Blocking, BlockedBy

\* A job's step: the target is told again, or the job has failed, or it blocks.
LEMMA WatchedJob ==
    ASSUME Typed, [Next]_vars, JobsEnd, FailuresHandled, NEW j \in jobs,
           JobCannotFetch(j) \/ JobRecords(j) \/ JobSends(j) \/ JobEnds(j)
    PROVE  JobsEnd' /\ FailuresHandled'
<1>0. /\ j \in Tasks /\ (j.kind # "oneoff" => j.id \in DOMAIN upgrades)
      /\ JobsTyped /\ row \in [Nodes -> Row]
  BY DEF Typed, JobsTyped, IdsStored, StoreTyped
<1>p. UNCHANGED pc
  BY DEF JobCannotFetch, JobRecords, JobSends, JobEnds
<1>1. CASE JobCannotFetch(j) \/ JobSends(j)
  <2>1. /\ UNCHANGED <<upgrades, row, started>>
        /\ \/ j.step = "fetch" /\ GoOn(j, TRUE)
           \/ j.step = "send" /\ GoOn(j, ~Reachable(j.node))
    BY <1>1 DEF JobCannotFetch, JobSends
  <2>2. PICK k \in Tasks :
           /\ jobs' = (jobs \ {j}) \cup {k} /\ Successor(j, k)
           /\ j.failed => k.failed
           /\ j.step = "fetch" => k.failed
           /\ \/ j.todo = {} /\ k.todo = {} /\ k.step = "end"
              \/ k.step = "fetch" /\ k.node \in j.todo /\ k.todo = j.todo \ {k.node}
    <3>1. CASE j.step = "fetch" /\ GoOn(j, TRUE)
      <4>1. \E k \in Tasks :
                 /\ jobs' = (jobs \ {j}) \cup {k} /\ Successor(j, k)
                 /\ (j.failed \/ TRUE => k.failed)
                 /\ \/ j.todo = {} /\ k.todo = {} /\ k.step = "end"
                    \/ k.step = "fetch" /\ k.node \in j.todo /\ k.todo = j.todo \ {k.node}
        BY <1>0, <2>1, <3>1, GoesOn, Zenon
      <4> QED
        BY <4>1
    <3>2. CASE j.step = "send" /\ GoOn(j, ~Reachable(j.node))
      <4>1. \E k \in Tasks :
                 /\ jobs' = (jobs \ {j}) \cup {k} /\ Successor(j, k)
                 /\ (j.failed \/ ~Reachable(j.node) => k.failed)
                 /\ \/ j.todo = {} /\ k.todo = {} /\ k.step = "end"
                    \/ k.step = "fetch" /\ k.node \in j.todo /\ k.todo = j.todo \ {k.node}
        BY <1>0, <2>1, <3>2, GoesOn, Zenon DEF Reachable
      <4>2. j.step # "fetch"
        BY <3>2
      <4> QED
        BY <4>1, <4>2
    <3> QED
      BY <2>1, <3>1, <3>2
  <2>3. JobsEnd'
    BY <2>2 DEF JobsEnd
  <2>4. ASSUME NEW i, NEW n, Retelling(i, n)
        PROVE  Retelling(i, n)'
    <3>1. PICK t \in jobs : /\ t.kind = "promoting" /\ t.id = i
                            /\ \/ t.failed \/ n \in t.todo
                               \/ t.node = n /\ t.step = "fetch"
      BY <2>4 DEF Retelling
    <3>2. CASE t # j
      BY <2>2, <3>1, <3>2 DEF Retelling
    <3>3. CASE t = j
      <4>1. k \in jobs' /\ k.kind = "promoting" /\ k.id = i
        BY <2>2, <3>1, <3>3 DEF Successor
      <4>2. \/ k.failed \/ n \in k.todo
            \/ k.node = n /\ k.step = "fetch"
        BY <2>2, <3>1, <3>3
      <4> QED
        BY <4>1, <4>2 DEF Retelling
    <3> QED
      BY <3>2, <3>3
  <2>5. FailuresHandled'
    BY <1>p, <2>1, <2>4
       DEF FailuresHandled, FailedTarget, Targets, Noticed, Blocking, BlockedBy
  <2> QED
    BY <2>3, <2>5
<1>2. CASE JobRecords(j)
  <2> DEFINE k == [j EXCEPT !.step = "send"]
  <2>1. /\ UNCHANGED upgrades /\ j.step = "fetch" /\ jobs' = (jobs \ {j}) \cup {k}
        /\ row' = [row EXCEPT ![j.node] = [ver |-> j.ver, phase |-> "UNSPECIFIED"]]
    BY <1>2 DEF JobRecords
  <2>2. /\ k.kind = j.kind /\ k.id = j.id /\ k.failed = j.failed /\ k.todo = j.todo
        /\ k.step = "send" /\ j.node \in Nodes
    BY <1>0 DEF Tasks
  <2> HIDE DEF k
  <2>3. JobsEnd'
    BY <2>1, <2>2 DEF JobsEnd
  <2>4. ASSUME NEW i \in DOMAIN upgrades', NEW n \in Nodes, FailedTarget(i, n)'
        PROVE  (Retelling(i, n) \/ Noticed(i, n) \/ Blocking(i))'
    <3>1. n # j.node
      BY <1>0, <2>1, <2>2, <2>4 DEF FailedTarget, Failed
    <3>2. FailedTarget(i, n)
      BY <1>0, <2>1, <2>2, <2>4, <3>1 DEF FailedTarget, Targets
    <3>3. Retelling(i, n) \/ Noticed(i, n) \/ Blocking(i)
      BY <2>1, <3>2 DEF FailuresHandled
    <3>4. Retelling(i, n) => Retelling(i, n)'
      BY <2>1, <2>2, <3>1 DEF Retelling
    <3> QED
      BY <1>p, <2>1, <3>3, <3>4 DEF Noticed, Blocking, BlockedBy
  <2> QED
    BY <2>3, <2>4 DEF FailuresHandled
<1>3. CASE JobEnds(j)
  <2>1. UNCHANGED row /\ j.step = "end" /\ jobs' = jobs \ {j}
    BY <1>3 DEF JobEnds
  <2>2. JobsEnd'
    BY <2>1 DEF JobsEnd
  <2>3. \/ UNCHANGED upgrades
        \/ j.kind # "oneoff" /\ Moved(j.id, "blocked")
    <3>1. CASE j.failed /\ j.kind # "oneoff"
      <4>1. j.kind \in InFlight /\ upgrades' = SetUpgradeState(j.id, j.kind, "blocked")
            /\ "blocked" \in InFlight \cup {"done"}
        BY <1>0, <1>3, <3>1 DEF JobEnds, Tasks, Kinds, InFlight
      <4> QED
        BY <1>0, <3>1, <4>1, SetStateKeeps DEF Typed
    <3>2. CASE ~(j.failed /\ j.kind # "oneoff")
      BY <1>3, <3>2 DEF JobEnds
    <3> QED
      BY <3>1, <3>2
  <2>4. j.failed /\ j.kind = "promoting" /\ upgrades[j.id].state = "promoting"
           => Moved(j.id, "blocked")
    BY <1>0, <1>3, WriteState DEF JobEnds, SetUpgradeState, Matches, InFlight, Typed
  <2>5. ASSUME NEW i \in DOMAIN upgrades', NEW n \in Nodes, FailedTarget(i, n)'
        PROVE  (Retelling(i, n) \/ Noticed(i, n) \/ Blocking(i))'
    <3>1. \A u \in DOMAIN upgrades : upgrades[u] \in Upgrade
      BY StoredUpgrade DEF Typed
    <3>2. /\ i \in DOMAIN upgrades /\ upgrades[i].state = "promoting"
          /\ ~Moved(i, "blocked")
      BY <1>0, <2>3, <2>5, <3>1 DEF Moved, FailedTarget, Upgrade
    <3>3. FailedTarget(i, n)
      BY <2>1, <2>5, <3>2, SameFailure
    <3>4. Retelling(i, n) \/ Noticed(i, n) \/ Blocking(i)
      BY <3>2, <3>3 DEF FailuresHandled
    <3>5. Retelling(i, n) => Retelling(i, n)'
      <4> SUFFICES ASSUME Retelling(i, n) PROVE Retelling(i, n)'
        OBVIOUS
      <4>1. PICK t \in jobs : /\ t.kind = "promoting" /\ t.id = i
                              /\ \/ t.failed \/ n \in t.todo
                                 \/ t.node = n /\ t.step = "fetch"
        BY DEF Retelling
      <4>2. t # j
        BY <2>1, <2>4, <3>2, <4>1 DEF JobsEnd
      <4> QED
        BY <2>1, <4>1, <4>2 DEF Retelling
    <3>6. upgrades'[i].ver = upgrades[i].ver
      BY <3>2, TypedStep DEF Kept
    <3> QED
      BY <1>p, <3>4, <3>5, <3>6 DEF Noticed, Blocking, BlockedBy
  <2> QED
    BY <2>2, <2>5 DEF FailuresHandled
<1> QED
  BY <1>1, <1>2, <1>3

\* What is somebody's business stays so when only jobs are added.
LEMMA StillHandled ==
    ASSUME Typed, [Next]_vars, FailuresHandled, UNCHANGED <<row, pc>>, jobs \subseteq jobs',
           NEW i \in DOMAIN upgrades, upgrades[i].state = "promoting",
           NEW n \in Nodes, FailedTarget(i, n)'
    PROVE  (Retelling(i, n) \/ Noticed(i, n) \/ Blocking(i))'
<1>1. FailedTarget(i, n)
  BY SameFailure
<1>2. Retelling(i, n) \/ Noticed(i, n) \/ Blocking(i)
  BY <1>1 DEF FailuresHandled
<1>3. upgrades'[i].ver = upgrades[i].ver
  BY TypedStep DEF Kept
<1>4. Retelling(i, n) => Retelling(i, n)'
  BY DEF Retelling
<1> QED
  BY <1>2, <1>3, <1>4 DEF Noticed, Blocking, BlockedBy

\* A promotion starts with every target still to be told.
LEMMA WatchedOperator ==
    ASSUME Typed, [Next]_vars, JobsEnd, FailuresHandled, Operators
    PROVE  JobsEnd' /\ FailuresHandled'
<1>1. UNCHANGED <<row, pc>>
  BY DEF Operators, InstallOn, StartCanary, Promote, Retry, Abandon
<1>2. jobs \subseteq jobs'
  BY DEF Operators, InstallOn, StartCanary, Promote, Retry, Abandon, StartJob
<1>3. JobsEnd'
  <2>1. ASSUME NEW kind, NEW i, NEW n, NEW v, NEW act, NEW rest,
               StartJob(Job(kind, i, n, v, act, rest))
        PROVE  JobsEnd'
    <3>1. Job(kind, i, n, v, act, rest).step = "fetch"
      BY DEF Job
    <3> QED
      BY <2>1, <3>1 DEF StartJob, JobsEnd
  <2>2. CASE UNCHANGED jobs
    BY <2>2 DEF JobsEnd
  <2> QED
    BY <2>1, <2>2 DEF Operators, InstallOn, StartCanary, Promote, Retry, Abandon
<1>4. ASSUME NEW i \in DOMAIN upgrades', NEW n \in Nodes, FailedTarget(i, n)',
             ~(i \in DOMAIN upgrades /\ upgrades[i].state = "promoting")
      PROVE  Retelling(i, n)'
  <2>0. upgrades'[i].state = "promoting" /\ (UNCHANGED upgrades => FALSE)
    BY <1>4 DEF FailedTarget
  <2>1. ASSUME NEW m \in Nodes, NEW v \in Kernels, StartCanary(v, m)
        PROVE  FALSE
    <3> DEFINE u == [ver |-> v, canary |-> m, state |-> "canary", abandoned |-> FALSE]
    <3>1. Active = {} /\ upgrades' = Append(upgrades, u)
      BY <2>1 DEF StartCanary
    <3>2. u \in Upgrade /\ u.state = "canary"
      BY DEF Upgrade, InFlight
    <3> HIDE DEF u
    <3> QED
      BY <1>4, <2>0, <3>1, <3>2, AppendKeeps DEF Typed
  <2>2. ASSUME NEW k \in DOMAIN upgrades, Retry(k)
        PROVE  FALSE
    <3>1. Moved(k, "canary") /\ upgrades[k] \in Upgrade
      BY <2>2, WriteState, StoredUpgrade DEF Retry, InFlight, Typed
    <3> QED
      BY <1>4, <2>0, <3>1 DEF Moved, Upgrade
  <2>3. ASSUME NEW k \in DOMAIN upgrades, Abandon(k)
        PROVE  FALSE
    BY <1>4, <2>0, <2>3, AbandonKeeps DEF Typed
  <2>4. ASSUME NEW k \in DOMAIN upgrades, Promote(k)
        PROVE  Retelling(i, n)'
    <3>0. upgrades[k] \in Upgrade
      BY StoredUpgrade DEF Typed
    <3>1. CASE Targets(k) = {}
      <4>1. Moved(k, "done")
        BY <2>4, <3>1, WriteState DEF Promote, InFlight, Typed
      <4> QED
        BY <1>4, <2>0, <3>0, <4>1 DEF Moved, Upgrade
    <3>2. CASE Targets(k) # {}
      <4>1. Moved(k, "promoting")
        BY <2>4, <3>2, WriteState DEF Promote, InFlight, Typed
      <4>2. i = k
        BY <1>4, <2>0, <4>1 DEF Moved
      <4>3. PICK m \in Targets(k) :
               StartJob(Job("promoting", k, m, upgrades[k].ver, TRUE, Targets(k) \ {m}))
        BY <2>4, <3>2 DEF Promote
      <4> DEFINE j == Job("promoting", k, m, upgrades[k].ver, TRUE, Targets(k) \ {m})
      <4>4. /\ j.kind = "promoting" /\ j.id = k /\ j.node = m /\ j.step = "fetch"
            /\ j.todo = Targets(k) \ {m}
        BY DEF Job
      <4>5. j \in jobs'
        BY <4>3 DEF StartJob
      <4> HIDE DEF j
      <4>6. n \in Targets(k)
        BY <1>4, <4>2, TypedStep DEF FailedTarget, Targets, Kept
      <4> QED
        BY <4>2, <4>4, <4>5, <4>6 DEF Retelling
    <3> QED
      BY <3>1, <3>2
  <2> QED
    BY <2>0, <2>1, <2>2, <2>3, <2>4 DEF Operators, InstallOn
<1>5. FailuresHandled'
  BY <1>1, <1>2, <1>4, StillHandled DEF FailuresHandled
<1> QED
  BY <1>3, <1>5

\* A handler that leaves a failure passes it on.
LEMMA WatchedHandler ==
    ASSUME Typed, [Next]_vars, FailuresHandled, NEW n \in Nodes, HandlerStep(n)
    PROVE  FailuresHandled'
<1>0. /\ pc \in [Nodes -> Places] /\ row \in [Nodes -> Row]
      /\ \A u \in DOMAIN upgrades : upgrades[u] \in Upgrade
  BY StoredUpgrade DEF Typed, HandlersTyped, StoreTyped
<1>1. UNCHANGED jobs
  BY DEF HandlerStep, HandleStatus, Advance, CheckPromotionComplete, Finish
<1>2. \A k \in Nodes : k # n => pc'[k] = pc[k] /\ row'[k] = row[k]
  <2>1. UNCHANGED row \/ row' = [row EXCEPT ![n].phase = Head(up[n]).phase]
    BY DEF HandlerStep, HandleStatus, Advance, CheckPromotionComplete, Finish
  <2>2. UNCHANGED pc \/ \E p : pc' = [pc EXCEPT ![n] = p]
    BY DEF HandlerStep, HandleStatus, Advance, CheckPromotionComplete, Finish
  <2> QED
    BY <1>0, <2>1, <2>2
<1> SUFFICES ASSUME NEW i \in DOMAIN upgrades', NEW k \in Nodes, FailedTarget(i, k)'
             PROVE  (Retelling(i, k) \/ Noticed(i, k) \/ Blocking(i))'
  BY DEF FailuresHandled
<1>3. upgrades'[i].state = "promoting"
  BY DEF FailedTarget
<1>r. Retelling(i, k) => Retelling(i, k)'
  BY <1>1 DEF Retelling
<1>4. CASE HandleStatus(n)
  <2>1. UNCHANGED upgrades /\ pc[n] = Idle
    BY <1>4 DEF HandleStatus
  <2>2. CASE row'[k] = row[k]
    <3>1. FailedTarget(i, k)
      BY <1>3, <2>1, <2>2, SameFailure
    <3>2. Retelling(i, k) \/ Noticed(i, k) \/ Blocking(i)
      BY <2>1, <3>1 DEF FailuresHandled
    <3>3. pc[n].at = "idle"
      BY <2>1 DEF Idle
    <3>4. Noticed(i, k) => Noticed(i, k)'
      BY <1>2, <2>1, <3>3 DEF Noticed
    <3>5. Blocking(i) => Blocking(i)'
      BY <1>2, <2>1, <3>3 DEF Blocking, BlockedBy
    <3> QED
      BY <1>r, <3>2, <3>4, <3>5
  <2>3. CASE row'[k] # row[k]
    <3>1. k = n
      BY <1>2, <2>3
    <3> DEFINE m == Head(up[n])
    <3>2. /\ row[n].ver = m.ver /\ row' = [row EXCEPT ![n].phase = m.phase]
          /\ pc' = [pc EXCEPT ![n] = [at |-> "advance", st |-> m]]
      BY <1>4, <2>3, <3>1 DEF HandleStatus
    <3> HIDE DEF m
    <3>3. row'[n].ver = m.ver /\ row'[n].phase = m.phase
      BY <1>0, <3>2 DEF Row
    <3>4. pc'[n].at = "advance" /\ pc'[n].st = m
      BY <1>0, <3>2
    <3>5. m.ver = upgrades'[i].ver /\ m.phase \in Failed
      BY <3>1, <3>3 DEF FailedTarget
    <3> QED
      BY <3>1, <3>4, <3>5 DEF Noticed
  <2> QED
    BY <2>2, <2>3
<1>5. CASE Advance(n)
  <2>1. UNCHANGED <<upgrades, row>> /\ pc[n] \in Advancing
    BY <1>5, AdvanceCases
  <2>2. FailedTarget(i, k)
    BY <1>3, <2>1, SameFailure
  <2>3. Retelling(i, k) \/ Noticed(i, k) \/ Blocking(i)
    BY <2>1, <2>2 DEF FailuresHandled
  <2>4. Blocking(i) => Blocking(i)'
    <3>1. pc[n].at # "finish"
      BY <2>1 DEF Advancing
    <3> QED
      BY <1>2, <3>1 DEF Blocking, BlockedBy
  <2>5. Noticed(i, k) /\ k # n => Noticed(i, k)'
    BY <1>2, <2>1 DEF Noticed
  <2>6. ASSUME Noticed(i, n)
        PROVE  Blocking(i)'
    <3>1. i \in Active /\ upgrades[i].state = "promoting" /\ pc[n].st.phase \in Failed
          /\ pc[n].st.ver = upgrades[i].ver
      BY <1>3, <2>1, <2>6 DEF Active, InFlight, Noticed
    <3>2. pc[n].st.phase \notin Settled
      BY <3>1 DEF Failed, Settled
    <3>3. \E u \in Active : pc' = [pc EXCEPT ![n] = ToFinish(u, "blocked", TRUE)]
      BY <1>5, <3>1, <3>2, AdvanceCases DEF IsFailure
    <3>4. pc' = [pc EXCEPT ![n] = ToFinish(i, "blocked", TRUE)]
      BY <3>1, <3>3 DEF Typed, OneInFlight
    <3>5. pc'[n] = ToFinish(i, "blocked", TRUE)
      BY <1>0, <3>4
    <3>6. BlockedBy(i, n)'
      BY <3>1, <3>5 DEF BlockedBy, ToFinish
    <3> QED
      BY <3>6 DEF Blocking
  <2> QED
    BY <1>r, <2>3, <2>4, <2>5, <2>6
<1>6. CASE CheckPromotionComplete(n)
  <2>1. UNCHANGED <<upgrades, row>> /\ pc[n].at = "check"
    BY <1>6 DEF CheckPromotionComplete
  <2>2. FailedTarget(i, k)
    BY <1>3, <2>1, SameFailure
  <2>3. Retelling(i, k) \/ Noticed(i, k) \/ Blocking(i)
    BY <2>1, <2>2 DEF FailuresHandled
  <2>4. Noticed(i, k) => Noticed(i, k)'
    BY <1>2, <2>1 DEF Noticed
  <2>5. Blocking(i) => Blocking(i)'
    BY <1>2, <2>1 DEF Blocking, BlockedBy
  <2> QED
    BY <1>r, <2>3, <2>4, <2>5
<1>7. CASE Finish(n)
  <2>1. /\ UNCHANGED row /\ pc[n].at = "finish"
        /\ upgrades' = SetUpgradeState(pc[n].id, pc[n].from, pc[n].to)
    BY <1>7 DEF Finish
  <2>2. /\ pc[n].id \in DOMAIN upgrades /\ pc[n].from \in InFlight
        /\ pc[n].to \in {"blocked", "awaiting_promote", "done"}
    BY <2>1, PlaceOf DEF Typed, IdsStored, Finishing
  <2>3. \/ upgrades[pc[n].id].state = pc[n].from /\ Moved(pc[n].id, pc[n].to)
        \/ upgrades[pc[n].id].state # pc[n].from /\ UNCHANGED upgrades
    BY <2>1, <2>2, SetStateKeeps DEF Typed, InFlight
  <2>4. i \in DOMAIN upgrades /\ upgrades[i].state = "promoting" /\ ~BlockedBy(i, n)
    BY <1>0, <1>3, <2>2, <2>3 DEF Moved, Upgrade, BlockedBy
  <2>5. FailedTarget(i, k)
    BY <2>1, <2>4, SameFailure
  <2>6. Retelling(i, k) \/ Noticed(i, k) \/ Blocking(i)
    BY <2>4, <2>5 DEF FailuresHandled
  <2>7. Noticed(i, k) => Noticed(i, k)'
    BY <1>2, <2>1, <2>4, TypedStep DEF Noticed, Kept
  <2>8. Blocking(i) => Blocking(i)'
    BY <1>2, <2>4 DEF Blocking, BlockedBy
  <2> QED
    BY <1>r, <2>6, <2>7, <2>8
<1> QED
  BY <1>4, <1>5, <1>6, <1>7 DEF HandlerStep

\* No failure is forgotten as long as Core is not restarted.
LEMMA WatchedStep ==
    ASSUME Typed, Watched, [Next]_vars
    PROVE  Watched'
<1>0. "core" \in Limited /\ budget \in [Limited -> Nat]
  BY DEF Limited, Typed, BudgetTyped
<1>1. ~CoreRestart
  BY <1>0 DEF CoreRestart, Fault, Watched
<1>2. budget'["core"] = 0
  <2>1. \/ UNCHANGED budget
        \/ \E f \in Limited \ {"core"} : Spend(f) \/ Fault(f)
    <3>1. CASE Operators
      BY <3>1 DEF Operators, InstallOn, StartCanary, Promote, Retry, Abandon, Limited
    <3>2. CASE JobStep
      BY <3>2 DEF JobStep, JobCannotFetch, JobRecords, JobSends, JobEnds, Limited
    <3>3. ASSUME NEW n \in Nodes, HandlerStep(n)
          PROVE  UNCHANGED budget
      BY <3>3 DEF HandlerStep, HandleStatus, Advance, CheckPromotionComplete, Finish
    <3>4. ASSUME NEW n \in Nodes, AgentStep(n)
          PROVE  UNCHANGED budget
      BY <3>4 DEF AgentStep, TakeInstall, Install, Activate
    <3>5. ASSUME NEW n \in Nodes, StreamBreaks(n) \/ Reconnect(n) \/ AgentDies(n)
          PROVE  UNCHANGED budget \/ Fault("break") \/ Fault("agent")
      BY <3>5 DEF StreamBreaks, Reconnect, AgentDies
    <3>6. CASE UNCHANGED vars
      BY <3>6 DEF vars
    <3> QED
      BY <1>1, <3>1, <3>2, <3>3, <3>4, <3>5, <3>6 DEF Next, Limited
  <2> QED
    BY <1>0, <2>1 DEF Watched, Spend, Fault
<1>3. JobsEnd' /\ FailuresHandled'
  <2>1. CASE UNCHANGED coreVars
    BY <2>1, WatchedSame DEF coreVars, Watched, JobsEnd
  <2>2. ASSUME NEW n \in Nodes, HandlerStep(n)
        PROVE  JobsEnd' /\ FailuresHandled'
    <3>1. UNCHANGED jobs
      BY <2>2 DEF HandlerStep, HandleStatus, Advance, CheckPromotionComplete, Finish
    <3> QED
      BY <2>2, <3>1, WatchedHandler DEF Watched, JobsEnd
  <2>3. ASSUME NEW n \in Nodes,
               AgentStep(n) \/ StreamBreaks(n) \/ Reconnect(n) \/ AgentDies(n)
        PROVE  UNCHANGED coreVars
    BY <2>3 DEF AgentStep, TakeInstall, Install, Activate, StreamBreaks, Reconnect, AgentDies
  <2>4. CASE UNCHANGED vars
    BY <2>1, <2>4 DEF vars
  <2> QED
    BY <1>1, <2>1, <2>2, <2>3, <2>4, WatchedJob, WatchedOperator DEF Next, JobStep, Watched
<1> QED
  BY <1>2, <1>3 DEF Watched

\* A failure while promoting blocks the upgrade, even one node's
\* (docs/xray-upgrade.md section 8): with the fan-out and the handlers at rest,
\* no upgrade is promoting with a target that failed.  Core is not restarted:
\* its goroutines are where a failure not acted on yet is kept.
THEOREM FailuresBlock ==
    ASSUME Budget["core"] = 0
    PROVE  Spec => []FailureBlocks
<1>1. Init => Typed /\ Watched
  <2> SUFFICES ASSUME Init PROVE Watched
    BY TypedInit
  <2> QED
    BY DEF Init, Watched, JobsEnd, FailuresHandled
<1>2. Typed /\ Watched /\ [Next]_vars => (Typed /\ Watched)'
  BY TypedStep, WatchedStep
<1>3. Typed /\ Watched => FailureBlocks
  <2> SUFFICES ASSUME Watched, NEW i \in Active, upgrades[i].state = "promoting", jobs = {},
                      \A n \in Nodes : pc[n] = Idle, NEW n \in Targets(i),
                      row[n].ver = upgrades[i].ver, row[n].phase \in Failed
               PROVE  FALSE
    BY DEF FailureBlocks
  <2>1. Retelling(i, n) \/ Noticed(i, n) \/ Blocking(i)
    BY DEF Watched, FailuresHandled, FailedTarget, Active, Targets
  <2>2. n \in Nodes /\ \A m \in Nodes : pc[m].at = "idle"
    BY DEF Targets, Idle
  <2> QED
    BY <2>1, <2>2 DEF Retelling, Noticed, Blocking, BlockedBy
<1> QED
  BY <1>1, <1>2, <1>3, PTL DEF Spec
=============================================================================
