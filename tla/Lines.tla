------------------------------- MODULE Lines --------------------------------
(* How traffic leaves the fleet: relay lines between two nodes, egress rules, external  *)
(* exits a node relays for, and restricted destinations; with the handlers that change  *)
(* them (api/relay.go, api/egress.go, api/restricted.go, api/external.go, deleteNode)   *)
(* and the nodes each handler re-assembles (profile/relay.go, profile/egress.go,        *)
(* profile/restricted.go, AssembleNode).  One access configuration; who is refused a    *)
(* line or an exit is the resolved answer of module Grants.                             *)
EXTENDS Integers, FiniteSets, Sequences, SequencesExt

CONSTANTS
    Hosts,      \* nodes
    Bound,      \* those the access configuration is bound to
    Holders,    \* subscribers holding it
    Rules, Dests, Exits, Calls,
    NoHost,
    RefusedEdits    \* whether an edit of an egress rule may be refused half way

ASSUME LinesAssumption ==
    /\ Bound \subseteq Hosts
    /\ NoHost \notin Hosts \cup Exits /\ Hosts \cap Exits = {} /\ Exits \cap (Hosts \X Hosts) = {}
    /\ IsFiniteSet(Hosts) /\ IsFiniteSet(Rules)
    /\ RefusedEdits \in BOOLEAN

VARIABLES
    hosts,      \* the nodes there are
    relays,     \* node_relays: <<entry, exit>> (UNIQUE per access configuration)
    lineOn,     \* the enabled ones
    rule,       \* node_egress_rules
    order,      \* ... in sort_order
    dest,       \* restricted_destinations, with their nodes and allowed subscribers
    exit,       \* external_proxies
    refused,    \* <<subscriber, line or exit>>
    routes,     \* routes[n]: the node's newest stored config
    call,       \* the handlers in flight
    crossed     \* history: two of them were in flight at once

Relays == {r \in Hosts \X Hosts : r[1] # r[2]}

ltables == <<hosts, relays, lineOn, rule, order, dest, exit, refused>>
rvars == <<ltables, routes, call, crossed>>

NoRule == [on |-> NoHost, to |-> NoHost, enabled |-> FALSE]
NoDest == [nodes |-> {}, users |-> {}, rev |-> 0, exists |-> FALSE]
NoExit == [chain |-> NoHost, enabled |-> FALSE, exists |-> FALSE]
Blank == [lines |-> {}, landing |-> {}, egress |-> <<>>, egressIn |-> {}, blocks |-> {}, exits |-> {}]
Quiet == [op |-> "idle", id |-> NoHost, read |-> {}, set |-> {}, prev |-> NoHost, todo |-> <<>>]

LinesInit ==
    /\ hosts = Hosts
    /\ relays = {} /\ lineOn = {} /\ refused = {}
    /\ rule = [e \in Rules |-> NoRule] /\ order = <<>>
    /\ dest = [d \in Dests |-> NoDest]
    /\ exit = [x \in Exits |-> NoExit]
    /\ routes = [n \in Hosts |-> Blank]
    /\ call = [q \in Calls |-> Quiet] /\ crossed = FALSE

-----------------------------------------------------------------------------
(* What a node's config is assembled from *)

RelaysFromEntry(n) == {r \in lineOn : r[1] = n}
RelaysToExit(n) == {r \in lineOn : r[2] = n}
EgressRulesOn(n) == {e \in Rules : rule[e].on = n}
EgressRulesLandingOn(n) == {e \in Rules : rule[e].enabled /\ rule[e].to = n}
relayedExits(n) == {x \in Exits : exit[x].enabled /\ exit[x].chain = n}

\* Every subscriber less those told no.
allowedOn(o) == {h \in Holders : <<h, o>> \notin refused}

\* One credential and one routing rule per subscriber allowed on a line starting here.
relayLines(n) == UNION {allowedOn(r) \X {r} : r \in RelaysFromEntry(n)}

\* The machine credentials of lines and of egress rules that land here.
relayClientEntries(n) == RelaysToExit(n)
egressClientEntries(n) == EgressRulesLandingOn(n)

\* The members of a set, in the order of a sequence.
Keep(s, S) ==
    LET f[i \in 0..Len(s)] ==
            IF i = 0 THEN <<>> ELSE IF s[i] \in S THEN Append(f[i - 1], s[i]) ELSE f[i - 1]
    IN  f[Len(s)]

\* First match wins: the enabled rules in the operator's order.
Landings(s) == [i \in 1..Len(s) |-> <<s[i], rule[s[i]].to>>]
egressFor(n) == Landings(Keep(order, {e \in EgressRulesOn(n) : rule[e].enabled}))

exitLines(n) == UNION {allowedOn(x) \X {x} : x \in relayedExits(n)}

\* Where traffic entering here can be pushed: line exits and egress landings.
exitOf(n) == {r[2] : r \in RelaysFromEntry(n)}
             \cup {rule[e].to : e \in {f \in EgressRulesOn(n) : rule[f].enabled /\ rule[f].to \in Hosts}}

blocksForScoped(n) ==
    UNION {{<<d, dest[d].rev>>} \X (Holders \ dest[d].users) :
              d \in {c \in Dests : n \in dest[c].nodes}}

\* A destination scoped to this node or to one it pushes traffic to bars, here, everyone it
\* does not admit.
blocksFor(n) ==
    UNION {{<<d, dest[d].rev>>} \X (Holders \ dest[d].users) :
              d \in {c \in Dests : dest[c].nodes \cap ({n} \cup exitOf(n)) # {}}}

\* AssembleNode: credentials and what is matched by them exist where an inbound does.
AssembleNode(n) ==
    LET here(S) == IF n \in Bound THEN S ELSE {} IN
    [lines |-> here(relayLines(n)), landing |-> here(relayClientEntries(n)),
     egress |-> egressFor(n), egressIn |-> here(egressClientEntries(n)),
     blocks |-> here(blocksFor(n)), exits |-> here(exitLines(n))]

\* The nodes that carry a destination's rules: its scope and whoever pushes traffic there.
RestrictedNodeIDs(d) ==
    dest[d].nodes \cup {r[1] : r \in {l \in lineOn : l[2] \in dest[d].nodes}}
    \cup {rule[e].on : e \in {f \in Rules : rule[f].enabled /\ rule[f].to \in dest[d].nodes}}

relayEntryNodes == {r[1] : r \in lineOn}

\* The other end of everything a node takes part in.
peerNodesOf(n) ==
    ({r[2] : r \in {l \in relays : l[1] = n}} \cup {r[1] : r \in {l \in relays : l[2] = n}}
     \cup {rule[e].to : e \in EgressRulesOn(n)} \cup {rule[e].on : e \in EgressRulesLandingOn(n)})
    \cap (Hosts \ {n})

-----------------------------------------------------------------------------
(* A handler in flight: what it read, and the nodes it has still to re-assemble *)

Call(q, c) == call[q] = Quiet /\ call' = [call EXCEPT ![q] = c]
Then(q, todo) ==
    call' = [call EXCEPT ![q] = IF todo = <<>> THEN Quiet ELSE [Quiet EXCEPT !.op = "apply", !.todo = todo]]

\* Every order of a set of nodes: the handlers range over rows or maps.
Queue(q, S) == \E todo \in SetToSeqs(S) : Then(q, todo)

\* applyNodes, applyRelayEnds, applyEgressEnds: one node assembled from the tables as they
\* are now and stored; a node deleted meanwhile is logged and skipped.
ApplyNext(q) ==
    LET n == Head(call[q].todo) IN
    /\ call[q].op = "apply"
    /\ routes' = IF n \in hosts THEN [routes EXCEPT ![n] = AssembleNode(n)] ELSE routes
    /\ Then(q, Tail(call[q].todo))
    /\ UNCHANGED ltables

-----------------------------------------------------------------------------
(* Relay lines *)

applyRelayEndsEntryFirst(q, r) == Then(q, <<r[1], r[2]>>)

\* The exit has to accept before the entry dials.
applyRelayEnds(q, r) == Then(q, <<r[2], r[1]>>)

createRelay(q, r) ==
    /\ call[q] = Quiet
    /\ r \in Relays \ relays /\ {r[1], r[2]} \subseteq hosts /\ r[2] \in Bound
    /\ relays' = relays \cup {r} /\ lineOn' = lineOn \cup {r}
    /\ refused' = refused \cup (Holders \X {r})
    /\ applyRelayEnds(q, r)
    /\ UNCHANGED <<hosts, rule, order, dest, exit, routes>>

\* The whole row is written from what was read: see the lost update in the README.
updateRelay(q, r, on) ==
    /\ call[q] = Quiet /\ r \in relays
    /\ lineOn' = IF on THEN lineOn \cup {r} ELSE lineOn \ {r}
    /\ applyRelayEnds(q, r)
    /\ UNCHANGED <<hosts, relays, rule, order, dest, exit, refused, routes>>

deleteRelay(q, r) ==
    /\ call[q] = Quiet /\ r \in relays
    /\ relays' = relays \ {r} /\ lineOn' = lineOn \ {r}
    /\ refused' = {t \in refused : t[2] # r}
    /\ applyRelayEnds(q, r)
    /\ UNCHANGED <<hosts, rule, order, dest, exit, routes>>

\* The rule that sends a subscriber down a line names those allowed on it.
setRelayUsers(q, r, S) ==
    /\ call[q] = Quiet /\ r \in relays
    /\ refused' = {t \in refused : t[2] # r} \cup (S \X {r})
    /\ Then(q, <<r[1]>>)
    /\ UNCHANGED <<hosts, relays, lineOn, rule, order, dest, exit, routes>>

\* setUserNodeAccess (one subscriber) and setGroupNodeAccess (its members).
setNodeAccess(q, H, S) ==
    /\ call[q] = Quiet
    /\ refused' = {t \in refused : t[1] \notin H} \cup (H \X S)
    /\ Queue(q, relayEntryNodes)
    /\ UNCHANGED <<hosts, relays, lineOn, rule, order, dest, exit, routes>>

-----------------------------------------------------------------------------
(* External exits.  None of these handlers re-assembles a node. *)

\* A refresh brought a new node of the provider, refused to everyone.
refreshAdds(x) ==
    /\ ~ exit[x].exists
    /\ exit' = [exit EXCEPT ![x] = [chain |-> NoHost, enabled |-> TRUE, exists |-> TRUE]]
    /\ refused' = refused \cup (Holders \X {x})
    /\ UNCHANGED <<hosts, relays, lineOn, rule, order, dest, routes, call>>

\* Gone from the provider's list, or its source deleted: rules landing there go with it.
deleteExternal(x) ==
    /\ exit[x].exists
    /\ exit' = [exit EXCEPT ![x] = NoExit]
    /\ refused' = {t \in refused : t[2] # x}
    /\ rule' = [e \in Rules |-> IF rule[e].to = x THEN NoRule ELSE rule[e]]
    /\ order' = Keep(order, {e \in Rules : rule[e].to # x})
    /\ UNCHANGED <<hosts, relays, lineOn, dest, routes, call>>

setExternalProxy(x, n, on) ==
    /\ exit[x].exists /\ n \in hosts \cup {NoHost}
    /\ exit' = [exit EXCEPT ![x].chain = n, ![x].enabled = on]
    /\ UNCHANGED <<hosts, relays, lineOn, rule, order, dest, refused, routes, call>>

setExternalProxyUsers(x, S) ==
    /\ exit[x].exists
    /\ refused' = {t \in refused : t[2] # x} \cup (S \X {x})
    /\ UNCHANGED <<hosts, relays, lineOn, rule, order, dest, exit, routes, call>>

-----------------------------------------------------------------------------
(* Egress rules *)

\* Whether traffic entering one node can arrive at another by enabled fleet landings.
Reached(S) == S \cup {rule[e].to : e \in {f \in Rules : rule[f].enabled /\ rule[f].on \in S}}
egressReaches(from, to) ==
    to \in FoldLeft(LAMBDA S, n : Reached(S), {from}, SetToSeq(Hosts))

\* direct (NoHost), an external node there is, or another node that serves the access
\* configuration and does not lead back here.
resolveEgressTarget(n, to) ==
    \/ to = NoHost
    \/ to \in Exits /\ exit[to].exists
    \/ to \in (hosts \cap Bound) \ {n} /\ ~ egressReaches(to, n)

\* The node carrying the rule, then the node it dials.
egressEnds(r) == IF r.to \in Hosts THEN <<r.on, r.to>> ELSE <<r.on>>
applyEgressEnds(q, r) == Then(q, egressEnds(r))

createEgress(q, e, n, to) ==
    /\ call[q] = Quiet
    /\ rule[e] = NoRule /\ n \in hosts /\ resolveEgressTarget(n, to)
    /\ rule' = [rule EXCEPT ![e] = [on |-> n, to |-> to, enabled |-> TRUE]]
    /\ order' = Append(order, e)
    /\ applyEgressEnds(q, [on |-> n, to |-> to])
    /\ UNCHANGED <<hosts, relays, lineOn, dest, exit, refused, routes>>

\* The switch is written first; the landing, when it is moved, afterwards.
updateEgress(q, e, on, to) ==
    /\ rule[e] # NoRule
    /\ Call(q, [Quiet EXCEPT !.op = "retarget", !.id = e, !.prev = rule[e].to, !.set = {to}])
    /\ rule' = [rule EXCEPT ![e].enabled = on]
    /\ UNCHANGED <<hosts, relays, lineOn, order, dest, exit, refused, routes>>

\* A landing left alone, moved, or refused: then the request ends with the switch written
\* and no node re-assembled.
moveLanding(q) ==
    LET e == call[q].id  to == CHOOSE t \in call[q].set : TRUE  prev == call[q].prev IN
    /\ call[q].op = "retarget"
    /\ \/ /\ rule[e] # NoRule /\ (to = prev \/ resolveEgressTarget(rule[e].on, to))
          /\ rule' = [rule EXCEPT ![e].to = IF to = prev THEN @ ELSE to]
          /\ LET r == rule'[e] IN
             Then(q, egressEnds(r) \o (IF prev \in Hosts /\ prev # r.to THEN <<prev>> ELSE <<>>))
       \/ /\ rule[e] # NoRule /\ RefusedEdits
          /\ to # prev /\ ~ resolveEgressTarget(rule[e].on, to)
          /\ UNCHANGED rule /\ Then(q, <<>>)
       \/ rule[e] = NoRule /\ UNCHANGED rule /\ Then(q, <<>>)
    /\ UNCHANGED <<hosts, relays, lineOn, order, dest, exit, refused, routes>>

deleteEgress(q, e) ==
    /\ call[q] = Quiet /\ rule[e] # NoRule
    /\ rule' = [rule EXCEPT ![e] = NoRule]
    /\ order' = Keep(order, Rules \ {e})
    /\ applyEgressEnds(q, rule[e])
    /\ UNCHANGED <<hosts, relays, lineOn, dest, exit, refused, routes>>

\* Order is priority, so a new order of one node's rules is pushed like any other change.
reorderEgress(q, n, seq) ==
    /\ call[q] = Quiet
    /\ \A m \in Hosts \ {n} : Keep(seq, EgressRulesOn(m)) = Keep(order, EgressRulesOn(m))
    /\ order' = seq
    /\ Then(q, <<n>>)
    /\ UNCHANGED <<hosts, relays, lineOn, rule, dest, exit, refused, routes>>

-----------------------------------------------------------------------------
(* Restricted destinations *)

\* Enforced nowhere and admitting nobody: nothing to apply yet.
createRestricted(d) ==
    /\ ~ dest[d].exists
    /\ dest' = [dest EXCEPT ![d] = [NoDest EXCEPT !.exists = TRUE]]
    /\ UNCHANGED <<hosts, relays, lineOn, rule, order, exit, refused, routes, call>>

updateRestricted(q, d) ==
    /\ call[q] = Quiet /\ dest[d].exists
    /\ dest' = [dest EXCEPT ![d].rev = 1 - @]
    /\ Queue(q, RestrictedNodeIDs(d))
    /\ UNCHANGED <<hosts, relays, lineOn, rule, order, exit, refused, routes>>

setRestrictedUsers(q, d, S) ==
    /\ call[q] = Quiet /\ dest[d].exists
    /\ dest' = [dest EXCEPT ![d].users = S]
    /\ Queue(q, RestrictedNodeIDs(d))
    /\ UNCHANGED <<hosts, relays, lineOn, rule, order, exit, refused, routes>>

\* The affected nodes are read before the rows change, in a statement of their own.
beforeRestricted(q, d, op, S) ==
    /\ dest[d].exists
    /\ Call(q, [Quiet EXCEPT !.op = op, !.id = d, !.set = S, !.read = RestrictedNodeIDs(d)])
    /\ UNCHANGED <<ltables, routes>>
deleteRestricted(q, d) == beforeRestricted(q, d, "deletedest", {})
setRestrictedNodes(q, d, S) == beforeRestricted(q, d, "setnodes", S)

DeleteRestricted(q) ==
    LET d == call[q].id IN
    /\ call[q].op = "deletedest"
    /\ IF dest[d].exists THEN Queue(q, call[q].read) ELSE Then(q, <<>>)
    /\ dest' = [dest EXCEPT ![d] = NoDest]
    /\ UNCHANGED <<hosts, relays, lineOn, rule, order, exit, refused, routes>>

\* Nodes leaving the scope and nodes entering it: before and after.
SetRestrictedNodes(q) ==
    LET d == call[q].id IN
    /\ call[q].op = "setnodes"
    /\ IF dest[d].exists /\ call[q].set \subseteq hosts
       THEN /\ dest' = [dest EXCEPT ![d].nodes = call[q].set]
            /\ call' = [call EXCEPT ![q].op = "afternodes"]
       ELSE UNCHANGED dest /\ Then(q, <<>>)
    /\ UNCHANGED <<hosts, relays, lineOn, rule, order, exit, refused, routes>>

AfterRestrictedNodes(q) ==
    /\ call[q].op = "afternodes"
    /\ Queue(q, call[q].read \cup RestrictedNodeIDs(call[q].id))
    /\ UNCHANGED <<ltables, routes>>

-----------------------------------------------------------------------------
(* deleteNode: the peers are read before the row cascades away *)

deleteNode(q, n) ==
    /\ n \in hosts
    /\ Call(q, [Quiet EXCEPT !.op = "deletenode", !.id = n, !.read = peerNodesOf(n)])
    /\ UNCHANGED <<ltables, routes>>

DeleteNode(q) ==
    LET n == call[q].id
        gone == {r \in relays : n \in {r[1], r[2]}}
        cut == {e \in Rules : n \in {rule[e].on, rule[e].to}} IN
    /\ call[q].op = "deletenode"
    /\ IF n \in hosts THEN Queue(q, call[q].read) ELSE Then(q, <<>>)
    /\ hosts' = hosts \ {n}
    /\ relays' = relays \ gone /\ lineOn' = lineOn \ gone
    /\ refused' = {t \in refused : t[2] \notin gone}
    /\ rule' = [e \in Rules |-> IF e \in cut THEN NoRule ELSE rule[e]]
    /\ order' = Keep(order, Rules \ cut)
    /\ dest' = [d \in Dests |-> [dest[d] EXCEPT !.nodes = @ \ {n}]]
    /\ exit' = [x \in Exits |-> IF exit[x].chain = n THEN [exit[x] EXCEPT !.chain = NoHost] ELSE exit[x]]
    /\ routes' = [routes EXCEPT ![n] = Blank]

-----------------------------------------------------------------------------
RelayStep(q) ==
    \E r \in Relays :
        \/ createRelay(q, r) \/ deleteRelay(q, r)
        \/ \E on \in BOOLEAN : updateRelay(q, r, on)
        \/ \E S \in SUBSET Holders : setRelayUsers(q, r, S)

ExitStep ==
    \E x \in Exits :
        \/ refreshAdds(x) \/ deleteExternal(x)
        \/ \E n \in Hosts \cup {NoHost}, on \in BOOLEAN : setExternalProxy(x, n, on)
        \/ \E S \in SUBSET Holders : setExternalProxyUsers(x, S)

AccessEdit(q) ==
    \E H \in {{h} : h \in Holders} \cup {Holders} :
        \E S \in SUBSET (relays \cup {x \in Exits : exit[x].exists}) : setNodeAccess(q, H, S)

EgressStep(q) ==
    \/ \E e \in Rules, to \in Hosts \cup Exits \cup {NoHost} :
          \/ \E n \in Hosts : createEgress(q, e, n, to)
          \/ \E on \in BOOLEAN : updateEgress(q, e, on, to)
    \/ \E e \in Rules : deleteEgress(q, e)
    \/ \E n \in Hosts, seq \in SetToSeqs(ToSet(order)) : reorderEgress(q, n, seq)
    \/ moveLanding(q)

DestStep(q) ==
    \/ \E d \in Dests :
          \/ createRestricted(d) \/ updateRestricted(q, d) \/ deleteRestricted(q, d)
          \/ \E S \in SUBSET Hosts : setRestrictedNodes(q, d, S)
          \/ \E S \in SUBSET Holders : setRestrictedUsers(q, d, S)
    \/ DeleteRestricted(q) \/ SetRestrictedNodes(q) \/ AfterRestrictedNodes(q)

NodeStep(q) == (\E n \in Hosts : deleteNode(q, n)) \/ DeleteNode(q) \/ ApplyNext(q)

\* The step of handler q is taken while another one is in flight, or has been.
Crossing(q) == crossed' = (crossed \/ \E c \in Calls \ {q} : call[c] # Quiet)

LinesNext ==
    \/ \E q \in Calls :
          /\ RelayStep(q) \/ AccessEdit(q) \/ EgressStep(q) \/ DestStep(q) \/ NodeStep(q)
          /\ Crossing(q)
    \/ ExitStep /\ UNCHANGED crossed

LinesSpec == LinesInit /\ [][LinesNext]_rvars

-----------------------------------------------------------------------------

AllQuiet == \A q \in Calls : call[q] = Quiet

\* Rules landing on an external node: their row goes with it and no handler re-assembles.
FleetEgress(seq) == Keep(seq, Rules \X (Hosts \cup {NoHost}))

\* However the handlers overlapped, once none is in flight every node carries what the
\* tables ask of it: the lines a subscriber may take, the credentials of lines and rules
\* landing there, the egress rules, and the blocks of every restricted destination in reach.
LinesInstalled ==
    AllQuiet => \A n \in hosts :
        LET has == routes[n]  needs == AssembleNode(n) IN
        /\ needs.lines \subseteq has.lines /\ needs.landing \subseteq has.landing
        /\ needs.egressIn \subseteq has.egressIn /\ needs.blocks \subseteq has.blocks
        /\ ToSet(FleetEgress(needs.egress)) \subseteq ToSet(has.egress)

\* As long as no two handlers have overlapped a node also carries nothing else, and its rules in
\* order: what was disabled, moved, deleted or cascaded away has left every config it was in.
LinesCurrent ==
    AllQuiet /\ ~ crossed => \A n \in hosts :
        LET has == routes[n]  needs == AssembleNode(n) IN
        /\ has.lines = needs.lines /\ has.landing = needs.landing
        /\ has.egressIn = needs.egressIn /\ has.blocks = needs.blocks
        /\ FleetEgress(has.egress) = FleetEgress(needs.egress)

\* Nor does an entry send a subscriber down a line whose exit does not accept it yet, at any
\* point of a handler (applyRelayEnds applies the exit first).
ExitBeforeEntry ==
    ~ crossed => \A n \in hosts : \A t \in routes[n].lines :
        t[2] \in lineOn => t[2] \in routes[t[2][2]].landing

\* The configs follow the tables: every line, rule and block is where it is needed however the
\* handlers of api/relay.go, egress.go, restricted.go and api.go overlapped, and, while they
\* have not, nowhere else, and at an exit before its entry.
LinesFollowTables == LinesInstalled /\ LinesCurrent /\ ExitBeforeEntry

\* Traffic arrives at a line's exit, or an egress rule's landing, under a credential that no
\* longer says who was asking: whoever a destination bars is stopped by the last config that
\* still knows them, whichever handler wrote that config and however the handlers overlapped.
BarredAtEntry ==
    AllQuiet => \A n \in hosts \cap Bound, d \in Dests : \A h \in Holders \ dest[d].users :
        LET to == {t[2][2] : t \in {l \in routes[n].lines : l[1] = h}}
                  \cup {t[2] : t \in ToSet(routes[n].egress)}
        IN  (to \cup {n}) \cap dest[d].nodes # {} => <<<<d, dest[d].rev>>, h>> \in routes[n].blocks

=============================================================================
