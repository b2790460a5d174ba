----------------------------- MODULE Enrolment -----------------------------
(* How a machine becomes a node and stops being one: the one-time join token, the        *)
(* credential it is exchanged for and the agent's state.json (store.go, node/service.go, *)
(* api/api.go, client.go).  What happens on an open stream is ConfigDelivery.            *)
EXTENDS Integers, FiniteSets

CONSTANTS
    Hosts,          \* machines an agent may run on
    Joining,        \* ids of nodes
    NoRow, Deleted, \* an id not used yet, and one that will never be used again
    MaxJoinTokens,      \* bound on the tokens operators hand out
    MaxOutages,     \* bound on deaths of agents, broken streams and lost answers
    PromptHello     \* whether every stream says Hello before a deletion closes the session

\* A row of nodes: the token waiting to be redeemed and the credential issued.
NodeRows == [token : Nat, cred : Nat]

ASSUME EnrolmentAssumption ==
    /\ MaxJoinTokens \in Nat /\ MaxOutages \in Nat /\ PromptHello \in BOOLEAN
    /\ "none" \notin Hosts /\ NoRow \notin NodeRows /\ Deleted \notin NodeRows

VARIABLES
    row,        \* nodes: id -> NoRow, Deleted or [token, cred] (0 is NULL)
    made,       \* tokens handed out
    redeemed,   \* <<token, credential>>: the registrations Core has granted
    host,       \* machine -> [step, env: JOIN_TOKEN if it is used, saved: state.json, id: in memory]
    attached,   \* Manager.sessions: id -> machine or "none"
    deleting,   \* deleteNode between its DELETE and CloseSession
    outages

nvars == <<row, made, redeemed, host, attached, deleting, outages>>

Nobody == [node |-> "none", cred |-> 0]
Torn == [node |-> "torn", cred |-> 0]
Identity(n, c) == [node |-> n, cred |-> c]
Live == {n \in Joining : row[n] \notin {NoRow, Deleted}}

EnrolmentInit ==
    /\ row = [n \in Joining |-> NoRow] /\ made = 0 /\ redeemed = {}
    /\ host = [h \in Hosts |-> [step |-> "down", env |-> 0, saved |-> Nobody, id |-> Nobody]]
    /\ attached = [n \in Joining |-> "none"] /\ deleting = {} /\ outages = 0

Goes(h, step) == host' = [host EXCEPT ![h].step = step]

-----------------------------------------------------------------------------
(* Operators *)

createNode(n) ==
    /\ row[n] = NoRow /\ made < MaxJoinTokens
    /\ row' = [row EXCEPT ![n] = [token |-> made + 1, cred |-> 0]]
    /\ made' = made + 1
    /\ UNCHANGED <<redeemed, host, attached, deleting, outages>>

\* The credential issued before stays valid until a new registration overwrites it.
resetJoinToken(n) ==
    /\ n \in Live /\ made < MaxJoinTokens
    /\ row' = [row EXCEPT ![n].token = made + 1]
    /\ made' = made + 1
    /\ UNCHANGED <<redeemed, host, attached, deleting, outages>>

deleteNode(n) ==
    /\ n \in Live
    /\ row' = [row EXCEPT ![n] = Deleted]
    /\ deleting' = deleting \cup {n}
    /\ UNCHANGED <<made, redeemed, host, attached, outages>>

\* The session, if there is one, ends with Aborted: the agent dials again.
CloseSession(n) ==
    /\ n \in deleting
    /\ PromptHello => \A h \in Hosts : ~ (host[h].step = "hello" /\ host[h].id.node = n)
    /\ attached' = [attached EXCEPT ![n] = "none"]
    /\ deleting' = deleting \ {n}
    /\ host' = [h \in Hosts |->
                    IF attached[n] = h THEN [host[h] EXCEPT !.step = "dial"] ELSE host[h]]
    /\ UNCHANGED <<row, made, redeemed, outages>>

\* An agent is started, or started again by its container, with some token or none.
\* A readable state.json goes before the token.
ensureRegistered(h, t) ==
    LET known == host[h].saved \notin {Nobody, Torn} IN
    /\ host[h].step = "down" /\ (known \/ t # 0)
    /\ host' = [host EXCEPT
           ![h] = [step |-> IF known THEN "dial" ELSE "register", saved |-> @.saved,
                   env |-> IF known THEN 0 ELSE t, id |-> IF known THEN @.saved ELSE Nobody]]
    /\ UNCHANGED <<row, made, redeemed, attached, deleting, outages>>

LosesVolume(h) ==
    /\ host[h].step = "down" /\ host[h].saved # Nobody
    /\ host' = [host EXCEPT ![h].saved = Nobody]
    /\ UNCHANGED <<row, made, redeemed, attached, deleting, outages>>

-----------------------------------------------------------------------------
(* Registration *)

\* One guarded UPDATE: the lookup, the credential and the end of the token.
RedeemJoinToken(n, c) == [row EXCEPT ![n] = [token |-> 0, cred |-> c]]

\* The answer may be lost, or come after the 15 seconds: the agent asks again.
Register(h, lost) ==
    LET c == Cardinality(redeemed) + 1 IN
    \E n \in Live :
       /\ host[h].step = "register" /\ row[n].token = host[h].env
       /\ row' = RedeemJoinToken(n, c)
       /\ redeemed' = redeemed \cup {<<host[h].env, c>>}
       /\ IF lost THEN UNCHANGED host /\ outages < MaxOutages /\ outages' = outages + 1
          ELSE /\ host' = [host EXCEPT ![h].step = "save", ![h].id = Identity(n, c)]
               /\ UNCHANGED outages
       /\ UNCHANGED <<made, attached, deleting>>

\* An unknown or used token is final: the agent exits.
RegisterRejected(h) ==
    /\ host[h].step = "register" /\ \A n \in Live : row[n].token # host[h].env
    /\ Goes(h, "down")
    /\ UNCHANGED <<row, made, redeemed, attached, deleting, outages>>

\* os.WriteFile truncates first.
saveState(h) ==
    /\ host[h].step \in {"save", "saving"}
    /\ host' = IF host[h].step = "save"
               THEN [host EXCEPT ![h].step = "saving", ![h].saved = Torn]
               ELSE [host EXCEPT ![h].step = "dial", ![h].saved = host[h].id]
    /\ UNCHANGED <<row, made, redeemed, attached, deleting, outages>>

-----------------------------------------------------------------------------
(* The stream *)

\* A rejected credential does not heal: the agent exits.
authenticate(h) ==
    /\ host[h].step = "dial"
    /\ Goes(h, IF \E n \in Live : row[n].cred = host[h].id.cred THEN "hello" ELSE "down")
    /\ UNCHANGED <<row, made, redeemed, attached, deleting, outages>>

\* The Hello arrives: the session replaces the one there, whose agent dials again.
attach(h) ==
    LET n == host[h].id.node IN
    /\ host[h].step = "hello"
    /\ attached' = [attached EXCEPT ![n] = h]
    /\ host' = [g \in Hosts |-> IF g = h THEN [host[g] EXCEPT !.step = "up"]
                                ELSE IF attached[n] = g THEN [host[g] EXCEPT !.step = "dial"]
                                ELSE host[g]]
    /\ UNCHANGED <<row, made, redeemed, deleting, outages>>

\* The stream breaks, or the agent dies; detach takes its session away.
Leaves(h, step) ==
    /\ outages < MaxOutages /\ outages' = outages + 1
    /\ host[h].step # "down" /\ (step = "dial" => host[h].step \in {"hello", "up"})
    /\ Goes(h, step)
    /\ attached' = [n \in Joining |-> IF attached[n] = h THEN "none" ELSE attached[n]]
    /\ UNCHANGED <<row, made, redeemed, deleting>>

EnrolmentNext ==
    \/ \E n \in Joining : createNode(n) \/ resetJoinToken(n) \/ deleteNode(n) \/ CloseSession(n)
    \/ \E h \in Hosts :
          \/ \E t \in 0..made : ensureRegistered(h, t)
          \/ \E lost \in BOOLEAN : Register(h, lost)
          \/ \E step \in {"dial", "down"} : Leaves(h, step)
          \/ LosesVolume(h) \/ RegisterRejected(h) \/ saveState(h) \/ authenticate(h) \/ attach(h)

EnrolmentSpec == EnrolmentInit /\ [][EnrolmentNext]_nvars

-----------------------------------------------------------------------------
\* "a token can never be redeemed twice" (RedeemJoinToken): whoever holds a copy of it,
\* whatever answers are lost and asked for again, it becomes one credential at most.
JoinTokenOnce ==
    \A r, s \in redeemed : r[1] = s[1] => r = s

\* "drop the live session so the agent is cut off immediately" (deleteNode): no session is
\* left of a node that is gone, though its agent dials again and again.  A stream that
\* authenticated before the DELETE and says Hello after CloseSession breaks it
\* (PromptHello = FALSE).
SessionsHaveNodes ==
    \A n \in Joining \ (Live \cup deleting) : attached[n] = "none"

=============================================================================
