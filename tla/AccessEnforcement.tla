------------------------- MODULE AccessEnforcement -------------------------
(***************************************************************************)
(* How a change of a user's entitlement reaches the kernels.  Core edits   *)
(* the running kernel with an online operation (SyncUser) and then rewrites *)
(* the stored config of every node concerned (ApplyUserNodes), from the    *)
(* request of an operator or from the periodic sweep.  Requests run        *)
(* concurrently and every statement on the database is one step of theirs. *)
(*                                                                         *)
(*   users     what Reason looks at: switched on, past expiry, quota spent *)
(*   active    users.active: "Core believes this is installed"             *)
(*   stored    the users in a node's newest stored config                  *)
(*   req       the sweep and the operators' requests: where each is, the   *)
(*             users it has to sync, the one in hand, and the nodes to     *)
(*             re-assemble                                                 *)
(*   session   the node's session: up, broken (registered, transport gone) *)
(*             or none;  queue  its send queue                             *)
(*   disk, live   the users in config.json and on the running kernel       *)
(*   current   the agent's configVersion is the newest stored one          *)
(*                                                                         *)
(* ConfigDelivery has the versions.  Storing and pushing are one step here, *)
(* so pushes arrive in the order of their versions and "newest or not" is  *)
(* all that is left of a version.  The kernel is taken to be running.      *)
(***************************************************************************)
EXTENDS Integers, Sequences, FiniteSets

CONSTANTS
    Users, Nodes,
    Holds,        \* [Users -> SUBSET Nodes]: where a user has a credential
    Renewing,     \* users with a renewal period
    Operators,    \* concurrent requests of operators
    MaxInFlight,  \* how many requests, the sweep included, overlap
    QueueCap,     \* sendQueueSize
    Regrants,     \* whether an edit may let a user in who is cut off
    Budget        \* how often each change and fault may happen

Limited == {"update", "deploy", "expire", "use", "apply", "op", "break", "agent", "restart",
            "core"}
Sweep == "sweep"
Slots == Operators \cup {Sweep}

ASSUME AccessAssumption ==
    /\ Holds \in [Users -> SUBSET Nodes]
    /\ Renewing \subseteq Users
    /\ IsFiniteSet(Operators) /\ Sweep \notin Operators
    /\ MaxInFlight \in Nat \ {0} /\ QueueCap \in Nat \ {0} /\ Regrants \in BOOLEAN
    /\ Budget \in [Limited -> Nat]

VARIABLES users, active, stored, req, session, queue, disk, live, current, budget

dbVars   == <<users, active, stored>>
nodeVars == <<disk, live, current>>
vars == <<dbVars, req, session, queue, nodeVars, budget>>

Spend(f) == budget[f] > 0 /\ budget' = [budget EXCEPT ![f] = @ - 1]

User == [enabled : BOOLEAN, expired : BOOLEAN, spent : BOOLEAN]

Push(us, newest) == [kind |-> "push", users |-> us, newest |-> newest]
Op(u, add)       == [kind |-> "op", user |-> u, add |-> add]

\* A request: what it does next, the users it found due for renewal, those still
\* to sync, the user in hand with the entitlement it saw and the nodes still to be
\* sent to, whether all sends were accepted, the nodes to re-assemble, and the
\* config it has assembled.
Idle == [step |-> "idle", due |-> {}, todo |-> {}, user |-> {}, want |-> FALSE,
         send |-> {}, ok |-> TRUE, dirty |-> {}, node |-> {}, body |-> {}]

-----------------------------------------------------------------------------
(* Who is entitled                                                         *)

Reason(row) == row.enabled /\ ~row.expired /\ ~row.spent
Allowed(u) == Reason(users[u])

\* The clients assembly renders for a node.
Entitled(n) == {u \in Users : n \in Holds[u] /\ Allowed(u)}

\* renewIfDue's condition.
Due(u) == u \in Renewing /\ users[u].expired

\* A fleet that has converged, everybody entitled.
Init ==
    /\ users = [u \in Users |-> [enabled |-> TRUE, expired |-> FALSE, spent |-> FALSE]]
    /\ active = [u \in Users |-> TRUE]
    /\ stored = [n \in Nodes |-> {u \in Users : n \in Holds[u]}]
    /\ req = [s \in Slots |-> Idle]
    /\ session = [n \in Nodes |-> "up"]
    /\ queue = [n \in Nodes |-> <<>>]
    /\ disk = stored /\ live = stored
    /\ current = [n \in Nodes |-> TRUE]
    /\ budget = Budget

\* Time passes, traffic is reported.
Expires(u) ==
    /\ ~users[u].expired /\ Spend("expire")
    /\ users' = [users EXCEPT ![u].expired = TRUE]
    /\ UNCHANGED <<active, stored, req, session, queue, nodeVars>>

\* AddCredentialTraffic takes the user over quota; only a kernel that has the
\* user reports traffic.
UsesUp(u) ==
    /\ \E n \in Nodes : u \in live[n] /\ session[n] = "up"
    /\ ~users[u].spent /\ Spend("use")
    /\ users' = [users EXCEPT ![u].spent = TRUE]
    /\ UNCHANGED <<active, stored, req, session, queue, nodeVars>>
-----------------------------------------------------------------------------
(* Requests                                                                *)

InFlight == {s \in Slots : req[s].step # "idle"}

Begin(s, r) ==
    /\ req[s].step = "idle" /\ Cardinality(InFlight) < MaxInFlight
    /\ req' = [req EXCEPT ![s] = r]

\* updateUser: the operator's fields are written, then the user is synced and
\* the user's nodes re-assembled.
UpdateUser(o, u, r) ==
    /\ Begin(o, [Idle EXCEPT !.step = "sync", !.todo = {u}, !.dirty = Holds[u]])
    /\ r # users[u] /\ Spend("update")
    /\ Reason(r) /\ ~Allowed(u) => Regrants
    /\ users' = [users EXCEPT ![u] = r]
    /\ UNCHANGED <<active, stored, session, queue, nodeVars>>

\* Apply of one node, by hand or after an edit of its templates.
Deploy(o, n) ==
    /\ Begin(o, [Idle EXCEPT !.step = "assemble", !.dirty = {n}])
    /\ Spend("deploy")
    /\ UNCHANGED <<dbVars, session, queue, nodeVars>>

\* EnforceQuotas starts: ListUsers and the time of the sweep decide who is due.
SweepStarts ==
    /\ Begin(Sweep, [Idle EXCEPT !.step = "sync", !.todo = Users,
                                 !.due = {u \in Users : Due(u)}])
    /\ UNCHANGED <<dbVars, session, queue, nodeVars, budget>>

\* Where a request goes when it is through with a user.
AfterUser(r) ==
    IF r.todo # {} THEN [r EXCEPT !.step = "sync"]
    ELSE IF r.dirty # {} THEN [r EXCEPT !.step = "assemble"] ELSE Idle

\* renewIfDue: the sweep rolls a user into the next period, going by the row it
\* listed.
Renew(u) ==
    /\ req[Sweep].step = "sync" /\ u \in req[Sweep].due
    /\ users' = [users EXCEPT ![u].expired = FALSE, ![u].spent = FALSE]
    /\ req' = [req EXCEPT ![Sweep].due = @ \ {u}]
    /\ UNCHANGED <<active, stored, session, queue, nodeVars, budget>>

\* SyncUser reads the user: nothing to do, nobody to tell, or an operation for
\* each node.
SyncRead(s, u) ==
    /\ req[s].step = "sync" /\ u \in req[s].todo
    /\ u \notin req[s].due
    /\ LET r == [req[s] EXCEPT !.todo = @ \ {u}]
       IN \/ /\ Allowed(u) = active[u]
             /\ req' = [req EXCEPT ![s] = AfterUser(r)]
             /\ UNCHANGED active
          \/ /\ Allowed(u) # active[u] /\ Holds[u] = {}
             /\ active' = [active EXCEPT ![u] = Allowed(u)]
             /\ req' = [req EXCEPT ![s] = AfterUser(r)]
          \/ /\ Allowed(u) # active[u] /\ Holds[u] # {}
             /\ req' = [req EXCEPT ![s] = [r EXCEPT !.step = "send", !.user = {u},
                            !.want = Allowed(u), !.send = Holds[u], !.ok = TRUE]]
             /\ UNCHANGED active
    /\ UNCHANGED <<users, stored, session, queue, nodeVars, budget>>

\* enqueue accepts a frame for a session whose transport is gone, too.
Accepts(n) == session[n] # "none" /\ Len(queue[n]) < QueueCap

\* SendUserOp to one node.
SendOp(s, n) ==
    /\ req[s].step = "send" /\ n \in req[s].send
    /\ \E u \in req[s].user :
          queue' = IF Accepts(n) THEN [queue EXCEPT ![n] = Append(@, Op(u, req[s].want))]
                                 ELSE queue
    /\ req' = [req EXCEPT ![s].send = @ \ {n}, ![s].ok = @ /\ Accepts(n)]
    /\ UNCHANGED <<dbVars, session, nodeVars, budget>>

\* A fault of Touched: enforcement by the clock forgets the stored configs.
Touched_Forgets(s, u) == IF s = Sweep THEN {} ELSE Holds[u]

\* The nodes whose stored config the request rewrites for this user.
Touched(s, u) == Holds[u]

\* SetUserActive, if every node's operation was accepted.
SyncRecord(s) ==
    /\ req[s].step = "send" /\ req[s].send = {}
    /\ \E u \in req[s].user :
          /\ active' = IF req[s].ok THEN [active EXCEPT ![u] = req[s].want] ELSE active
          /\ req' = [req EXCEPT ![s] = AfterUser([req[s] EXCEPT !.user = {},
                                            !.dirty = @ \cup Touched(s, u)])]
    /\ UNCHANGED <<users, stored, session, queue, nodeVars, budget>>

\* Apply assembles a node's config from the users of this moment ...
Assemble(s, n) ==
    /\ req[s].step = "assemble" /\ n \in req[s].dirty
    /\ req' = [req EXCEPT ![s].step = "store", ![s].node = {n}, ![s].body = Entitled(n)]
    /\ UNCHANGED <<dbVars, session, queue, nodeVars, budget>>

\* Through with a node.
AfterNode(r) ==
    LET rest == r.dirty \ r.node
    IN IF rest = {} THEN Idle
       ELSE [r EXCEPT !.step = "assemble", !.dirty = rest, !.node = {}, !.body = {}]

\* What was queued before a version was stored is no longer the newest.
Superseded(q) ==
    [i \in DOMAIN q |-> IF q[i].kind = "push" THEN [q[i] EXCEPT !.newest = FALSE] ELSE q[i]]

\* ... tests it, and stores and pushes it.
StoreAndPush(s) ==
    /\ req[s].step = "store"
    /\ \E n \in req[s].node :
          /\ stored' = [stored EXCEPT ![n] = req[s].body]
          /\ current' = [current EXCEPT ![n] = FALSE]
          /\ queue' = [queue EXCEPT ![n] =
                IF Accepts(n) THEN Append(Superseded(@), Push(req[s].body, TRUE))
                              ELSE Superseded(@)]
    /\ req' = [req EXCEPT ![s] = AfterNode(@)]
    /\ UNCHANGED <<users, active, session, disk, live, budget>>

\* Apply fails: the test, or the request it runs in was cancelled.  Logged.
ApplyFails(s) ==
    /\ req[s].step = "store" /\ Spend("apply")
    /\ req' = [req EXCEPT ![s] = AfterNode(@)]
    /\ UNCHANGED <<dbVars, session, queue, nodeVars>>
-----------------------------------------------------------------------------
(* Nodes                                                                   *)

\* A fault of Unchanged: content is never compared.
Unchanged_Always(n, us) == TRUE

\* Apply's identical-content guard on the agent.
Unchanged(n, us) == disk[n] = us

\* The reader takes a config push.
TakePush(n) ==
    /\ session[n] = "up" /\ queue[n] # <<>> /\ Head(queue[n]).kind = "push"
    /\ queue' = [queue EXCEPT ![n] = Tail(@)]
    /\ LET f == Head(queue[n]) IN
       /\ current' = [current EXCEPT ![n] = f.newest]
       /\ \/ Unchanged(n, f.users) /\ UNCHANGED <<disk, live>>
          \/ /\ ~Unchanged(n, f.users)
             /\ disk' = [disk EXCEPT ![n] = f.users]
             /\ live' = [live EXCEPT ![n] = f.users]
    /\ UNCHANGED <<dbVars, req, session, budget>>

\* The reader takes an online operation; the kernel may refuse it, which is an
\* event Core only logs.
TakeOp(n) ==
    /\ session[n] = "up" /\ queue[n] # <<>> /\ Head(queue[n]).kind = "op"
    /\ queue' = [queue EXCEPT ![n] = Tail(@)]
    /\ LET f == Head(queue[n]) IN
       \/ /\ live' = [live EXCEPT ![n] = IF f.add THEN @ \cup {f.user} ELSE @ \ {f.user}]
          /\ UNCHANGED budget
       \/ Spend("op") /\ UNCHANGED live
    /\ UNCHANGED <<dbVars, req, session, disk, current>>

\* A heartbeat reports another version than the newest: it is pushed again.
Reconcile(n) ==
    /\ session[n] = "up" /\ ~current[n] /\ Len(queue[n]) < QueueCap
    /\ ~\E i \in DOMAIN queue[n] : queue[n][i].kind = "push" /\ queue[n][i].newest
    /\ queue' = [queue EXCEPT ![n] = Append(@, Push(stored[n], TRUE))]
    /\ UNCHANGED <<dbVars, req, session, nodeVars, budget>>

\* The transport breaks; Core's handler finds out later.
StreamBreaks(n) ==
    /\ session[n] = "up" /\ Spend("break")
    /\ session' = [session EXCEPT ![n] = "broken"]
    /\ UNCHANGED <<dbVars, req, queue, nodeVars>>

HandlerReturns(n) ==
    /\ session[n] = "broken"
    /\ session' = [session EXCEPT ![n] = "none"]
    /\ queue' = [queue EXCEPT ![n] = <<>>]
    /\ UNCHANGED <<dbVars, req, nodeVars, budget>>

\* A new stream: the connect-time reconcile pushes the newest config.
Reconnect(n) ==
    /\ session[n] # "up"
    /\ session' = [session EXCEPT ![n] = "up"]
    /\ queue' = [queue EXCEPT ![n] = <<Push(stored[n], TRUE)>>]
    /\ UNCHANGED <<dbVars, req, nodeVars, budget>>

\* The kernel is restarted on the file it has.
KernelRestarts(n) ==
    /\ Spend("restart")
    /\ live' = [live EXCEPT ![n] = disk[n]]
    /\ UNCHANGED <<dbVars, req, session, queue, disk, current>>

\* The agent or its host is restarted: the persisted config, version unknown.
AgentRestarts(n) ==
    /\ Spend("agent")
    /\ live' = [live EXCEPT ![n] = disk[n]]
    /\ current' = [current EXCEPT ![n] = FALSE]
    /\ session' = [session EXCEPT ![n] = IF @ = "up" THEN "broken" ELSE @]
    /\ UNCHANGED <<dbVars, req, queue, disk>>

\* Core stops and starts: requests and queues are gone.
CoreRestart ==
    /\ Spend("core")
    /\ req' = [s \in Slots |-> Idle]
    /\ session' = [n \in Nodes |-> "none"]
    /\ queue' = [n \in Nodes |-> <<>>]
    /\ UNCHANGED <<dbVars, nodeVars>>
-----------------------------------------------------------------------------
RequestStep(s) ==
    \/ \E u \in Users : SyncRead(s, u) \/ (s = Sweep /\ Renew(u))
    \/ \E n \in Nodes : SendOp(s, n) \/ Assemble(s, n)
    \/ SyncRecord(s) \/ StoreAndPush(s) \/ ApplyFails(s)

AgentStep(n) == TakePush(n) \/ TakeOp(n)

Next ==
    \/ \E u \in Users : Expires(u) \/ UsesUp(u)
    \/ \E o \in Operators, u \in Users, r \in User : UpdateUser(o, u, r)
    \/ \E o \in Operators, n \in Nodes : Deploy(o, n)
    \/ SweepStarts \/ CoreRestart
    \/ \E s \in Slots : RequestStep(s)
    \/ \E n \in Nodes : \/ AgentStep(n) \/ Reconcile(n) \/ StreamBreaks(n) \/ HandlerReturns(n)
                        \/ Reconnect(n) \/ KernelRestarts(n) \/ AgentRestarts(n)

Spec == Init /\ [][Next]_vars

\* Requests run on, the sweep's ticker ticks, agents read, heartbeat and come
\* back.  Operators, time and faults owe nothing.
Fairness ==
    /\ SF_vars(SweepStarts)
    /\ \A s \in Slots : WF_vars(RequestStep(s))
    /\ \A n \in Nodes : /\ WF_vars(AgentStep(n)) /\ WF_vars(Reconcile(n))
                        /\ WF_vars(Reconnect(n))

FairSpec == Spec /\ Fairness
-----------------------------------------------------------------------------
(* Properties                                                              *)

Frame == [kind : {"push"}, users : SUBSET Users, newest : BOOLEAN]
         \cup [kind : {"op"}, user : Users, add : BOOLEAN]

Request == [step : {"idle", "sync", "send", "assemble", "store"},
            due : SUBSET Users, todo : SUBSET Users, user : SUBSET Users, want : BOOLEAN,
            send : SUBSET Nodes, ok : BOOLEAN, dirty : SUBSET Nodes,
            node : SUBSET Nodes, body : SUBSET Users]

DbTypeOK ==
    /\ users \in [Users -> User] /\ active \in [Users -> BOOLEAN]
    /\ stored \in [Nodes -> SUBSET Users]

WireTypeOK ==
    /\ session \in [Nodes -> {"up", "broken", "none"}]
    /\ queue \in [Nodes -> Seq(Frame)]
    /\ \A n \in Nodes : Len(queue[n]) <= QueueCap

NodeTypeOK ==
    /\ disk \in [Nodes -> SUBSET Users] /\ live \in [Nodes -> SUBSET Users]
    /\ current \in [Nodes -> BOOLEAN]

\* Every variable keeps its type; a queue never outgrows its channel.
TypeOK ==
    /\ DbTypeOK /\ WireTypeOK /\ NodeTypeOK
    /\ req \in [Slots -> Request]
    /\ budget \in [Limited -> Nat]

\* "Correctness lives in the stored config" (enforce.go, ApplyUserNodes): when
\* nothing is in flight and the sweep would find nothing to do for a user, the
\* stored configs have the user exactly if the user is entitled.  A restart of
\* the agent, of Xray or of the host then cannot bring a banned user back.
SettledIsStored ==
    InFlight = {} => \A u \in Users : active[u] = Allowed(u) =>
        \A n \in Holds[u] : u \in stored[n] <=> Allowed(u)

\* What heartbeat reconciliation rests on: a node that reports the newest version
\* has the newest config's users in its file, whatever was lost, refused, skipped
\* as identical or restarted on the way; Core then has no reason to push again,
\* and a restart of the agent or the host brings back exactly those users.
CurrentIsStored == \A n \in Nodes : current[n] => disk[n] = stored[n]

Enforced == \A n \in Nodes : live[n] = Entitled(n)

\* Whatever cuts a user off or lets the user back in, the running kernels end up
\* with exactly the entitled users, without an operator (SyncUser, EnforceQuotas;
\* docs/user-management.md, quota and expiry).
EventuallyEnforced == <>[]Enforced
=============================================================================
