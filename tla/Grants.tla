------------------------------- MODULE Grants -------------------------------
(* Who gets what: subscribers, their groups, the access configurations (profiles)     *)
(* granted and withheld, the nodes, lines and external nodes ("objects") denied and    *)
(* allowed, and the rule set of a subscription; with the handlers that change them     *)
(* and re-assemble the nodes a grant reaches (api/group.go, api/user.go,               *)
(* store/group.go, store/user.go).  Transactions are one step, requests interleave.    *)
(* The ends of relay lines that the same handlers re-assemble are in module Lines.     *)
EXTENDS FiniteSets

CONSTANTS
    Users, Groups, Profiles, Objects, Nodes, Rulesets, Requests,
    NoGroup, NoRules,
    ReachOf,        \* ReachOf[p]: the nodes profile p is bound to
    BindOverDeny    \* whether the POST route, which the console no longer calls, is used
                    \* for a profile withheld from the subscriber

ASSUME GrantsAssumption ==
    /\ NoGroup \notin Groups /\ NoRules \notin Rulesets
    /\ ReachOf \in [Profiles -> SUBSET Nodes]
    /\ BindOverDeny \in BOOLEAN /\ Requests # {}

VARIABLES
    users, groups, objects, rulesets,   \* the rows there are
    groupOf,        \* users.group_id
    grant, withheld,                    \* user_profiles, user_profile_denies
    deny, allow,    \* user_*_denies, user_*_allows
    groupGrant, groupDeny,              \* group_profiles, group_*_denies
    ruleset,        \* users.ruleset_id
    rulesetNone,    \* users.ruleset_none
    groupRuleset,   \* subscriber_groups.ruleset_id
    cred,           \* credentials: <<user, profile, node>>
    config,         \* config[n]: the clients in the node's newest stored config
    request,        \* the handlers in flight
    overlapped      \* history: two of them were in flight at once

tables == <<users, groups, objects, rulesets, groupOf, grant, withheld, deny, allow,
            groupGrant, groupDeny, ruleset, rulesetNone, groupRuleset>>
gvars == <<tables, cred, config, request, overlapped>>

Idle == [op |-> "idle", user |-> NoGroup, group |-> NoGroup, profile |-> NoGroup,
         members |-> {}, nodes |-> {}]

GrantsInit ==
    /\ users = {} /\ groups = {} /\ objects = {} /\ rulesets = {}
    /\ groupOf = [u \in Users |-> NoGroup]
    /\ grant = {} /\ withheld = {} /\ deny = {} /\ allow = {}
    /\ groupGrant = {} /\ groupDeny = {}
    /\ ruleset = [u \in Users |-> NoRules] /\ rulesetNone = {}
    /\ groupRuleset = [g \in Groups |-> NoRules]
    /\ cred = {} /\ config = [n \in Nodes |-> {}]
    /\ request = [q \in Requests |-> Idle] /\ overlapped = FALSE

-----------------------------------------------------------------------------
(* Resolved answers *)

\* The right components paired with x, the left components paired with y.
Of(T, x) == {t[2] : t \in {s \in T : s[1] = x}}
Where(T, y) == {t[1] : t \in {s \in T : s[2] = y}}
Without(T, x) == {t \in T : t[1] # x}

GroupMemberIDs(g) == {u \in users : groupOf[u] = g}

\* Their own grants plus their group's, less what is withheld from them personally.
UserProfileIDs(u) == (Of(grant, u) \cup Of(groupGrant, groupOf[u])) \ Of(withheld, u)

\* The same relation from the profile's end, which decides whose credentials exist.
ProfileUserIDs(p) ==
    (Where(grant, p) \cup {u \in users : groupOf[u] \in Where(groupGrant, p)}) \ Where(withheld, p)

\* Their own refusals, plus their group's less their exceptions.
effectiveDenies(u) == Of(deny, u) \cup (Of(groupDeny, groupOf[u]) \ Of(allow, u))

EffectiveRulesetID(u) ==
    IF ruleset[u] # NoRules THEN ruleset[u]
    ELSE IF u \in rulesetNone \/ groupOf[u] = NoGroup THEN NoRules
    ELSE groupRuleset[groupOf[u]]

\* The nodes a subscriber's access configurations reach, and those their credentials are on.
userCredentialNodes(u) == UNION {ReachOf[p] : p \in UserProfileIDs(u)}
NodesForUser(u) == {c[3] : c \in {d \in cred : d[1] = u}}
NodesForUserProfile(u, p) == {c[3] : c \in {d \in cred : d[1] = u /\ d[2] = p}}

\* The clients AssembleNode renders, minting the credentials they need.
Assembled(n) == UNION {ProfileUserIDs(p) \X {p} : p \in {q \in Profiles : n \in ReachOf[q]}}

-----------------------------------------------------------------------------
(* Transactions of the store on the membership and access tables *)

\* The group's decisions become the members' own rows; their exceptions are folded in.
\* Members keep the rule set unless they said "none".
detachUser(S, g) ==
    /\ grant' = grant \cup UNION {{u} \X (Of(groupGrant, g) \ Of(withheld, u)) : u \in S}
    /\ deny' = deny \cup UNION {{u} \X (Of(groupDeny, g) \ Of(allow, u)) : u \in S}
    /\ allow' = {t \in allow : t[1] \notin S}
    /\ withheld' = {t \in withheld : t[1] \notin S}
    /\ ruleset' = [u \in Users |->
          IF u \in S /\ u \notin rulesetNone /\ ruleset[u] = NoRules THEN groupRuleset[g]
          ELSE ruleset[u]]

SetUserGroupKeepsGrants(u, g) ==
    /\ groupOf' = [groupOf EXCEPT ![u] = g]
    /\ IF g # NoGroup
       THEN /\ deny' = Without(deny, u) /\ allow' = Without(allow, u)
            /\ UNCHANGED <<grant, withheld, ruleset>>
       ELSE IF groupOf[u] # NoGroup THEN detachUser({u}, groupOf[u])
       ELSE UNCHANGED <<grant, withheld, deny, allow, ruleset>>

\* Out of the group (keeping what it decided) or into one (discarding the personal rows).
SetUserGroup(u, g) ==
    /\ groupOf' = [groupOf EXCEPT ![u] = g]
    /\ IF g # NoGroup
       THEN /\ grant' = Without(grant, u) /\ withheld' = Without(withheld, u)
            /\ deny' = Without(deny, u) /\ allow' = Without(allow, u)
            /\ UNCHANGED ruleset
       ELSE IF groupOf[u] # NoGroup THEN detachUser({u}, groupOf[u])
       ELSE UNCHANGED <<grant, withheld, deny, allow, ruleset>>

\* The end state "these are refused", written as differences from the group compared with.
setUserDimension(u, g, refused) ==
    LET byGroup == Of(groupDeny, g) IN
    /\ deny' = Without(deny, u) \cup ({u} \X ((refused \cap objects) \ byGroup))
    /\ allow' = Without(allow, u) \cup ({u} \X ((byGroup \cap objects) \ refused))

\* The same reconciliation from the object's end.
setObjectAccess(o, refused) ==
    LET byGroup == {u \in users : groupOf[u] \in Where(groupDeny, o)} IN
    /\ deny' = {t \in deny : t[2] # o} \cup (((refused \cap users) \ byGroup) \X {o})
    /\ allow' = {t \in allow : t[2] # o} \cup ((byGroup \ refused) \X {o})

\* Grant, withhold or neither: at most one of the two rows is left.
SetUserProfileAccess(u, p, state) ==
    /\ grant' = (grant \ {<<u, p>>}) \cup (IF state = "grant" THEN {<<u, p>>} ELSE {})
    /\ withheld' = (withheld \ {<<u, p>>}) \cup (IF state = "deny" THEN {<<u, p>>} ELSE {})

-----------------------------------------------------------------------------
(* Rows that come and go.  Everything that exists is refused to a new row, and a new   *)
(* object to every row.                                                                *)

createUser(u) ==
    /\ u \in Users \ users
    /\ users' = users \cup {u}
    /\ deny' = deny \cup ({u} \X objects)
    /\ UNCHANGED <<groups, objects, rulesets, groupOf, grant, withheld, allow, groupGrant,
                   groupDeny, ruleset, rulesetNone, groupRuleset, cred, config, request>>

createGroup(g) ==
    /\ g \in Groups \ groups
    /\ groups' = groups \cup {g}
    /\ groupDeny' = groupDeny \cup ({g} \X objects)
    /\ UNCHANGED <<users, objects, rulesets, groupOf, grant, withheld, deny, allow,
                   groupGrant, ruleset, rulesetNone, groupRuleset, cred, config, request>>

\* createNode, createRelay and the external nodes a refresh adds.
createObject(o) ==
    /\ o \in Objects \ objects
    /\ objects' = objects \cup {o}
    /\ deny' = deny \cup (users \X {o})
    /\ groupDeny' = groupDeny \cup (groups \X {o})
    /\ UNCHANGED <<users, groups, rulesets, groupOf, grant, withheld, allow, groupGrant,
                   ruleset, rulesetNone, groupRuleset, cred, config, request>>

deleteObject(o) ==
    /\ o \in objects
    /\ objects' = objects \ {o}
    /\ deny' = {t \in deny : t[2] # o}
    /\ allow' = {t \in allow : t[2] # o}
    /\ groupDeny' = {t \in groupDeny : t[2] # o}
    /\ UNCHANGED <<users, groups, rulesets, groupOf, grant, withheld, groupGrant, ruleset,
                   rulesetNone, groupRuleset, cred, config, request>>

\* Dissolves the group; no node is re-assembled.
deleteGroup(g) ==
    /\ g \in groups
    /\ groups' = groups \ {g}
    /\ detachUser(GroupMemberIDs(g), g)
    /\ groupOf' = [u \in Users |-> IF groupOf[u] = g THEN NoGroup ELSE groupOf[u]]
    /\ groupGrant' = Without(groupGrant, g)
    /\ groupDeny' = Without(groupDeny, g)
    /\ groupRuleset' = [groupRuleset EXCEPT ![g] = NoRules]
    /\ UNCHANGED <<users, objects, rulesets, rulesetNone, cred, config, request>>

createRuleset(r) ==
    /\ r \in Rulesets \ rulesets
    /\ rulesets' = rulesets \cup {r}
    /\ UNCHANGED <<users, groups, objects, groupOf, grant, withheld, deny, allow, groupGrant,
                   groupDeny, ruleset, rulesetNone, groupRuleset, cred, config, request>>

\* Subscribers and groups on it fall back to none (ON DELETE SET NULL).
deleteRuleset(r) ==
    /\ r \in rulesets
    /\ rulesets' = rulesets \ {r}
    /\ ruleset' = [u \in Users |-> IF ruleset[u] = r THEN NoRules ELSE ruleset[u]]
    /\ groupRuleset' = [g \in Groups |-> IF groupRuleset[g] = r THEN NoRules ELSE groupRuleset[g]]
    /\ UNCHANGED <<users, groups, objects, groupOf, grant, withheld, deny, allow, groupGrant,
                   groupDeny, rulesetNone, cred, config, request>>

-----------------------------------------------------------------------------
(* Decisions of one transaction *)

decided == <<users, groups, objects, rulesets, groupOf, cred, config, request>>

setGroupNodeAccess(g, refused) ==
    /\ g \in groups /\ refused \subseteq objects
    /\ groupDeny' = Without(groupDeny, g) \cup ({g} \X refused)
    /\ UNCHANGED <<decided, grant, withheld, deny, allow, groupGrant, ruleset, rulesetNone,
                   groupRuleset>>

\* setRelayUsers and setExternalProxyUsers.
SetObjectUsers(o, refused) ==
    /\ o \in objects
    /\ setObjectAccess(o, refused)
    /\ UNCHANGED <<decided, grant, withheld, groupGrant, groupDeny, ruleset, rulesetNone,
                   groupRuleset>>

setGroupRuleset(g, r) ==
    /\ g \in groups /\ r \in rulesets \cup {NoRules}
    /\ groupRuleset' = [groupRuleset EXCEPT ![g] = r]
    /\ UNCHANGED <<decided, grant, withheld, deny, allow, groupGrant, groupDeny, ruleset,
                   rulesetNone>>

\* A rule set, "inherit" (NoRules) or "none, whatever my group says".
setUserRuleset(u, r, none) ==
    /\ u \in users /\ r \in rulesets \cup {NoRules}
    /\ ruleset' = [ruleset EXCEPT ![u] = IF none THEN NoRules ELSE r]
    /\ rulesetNone' = IF none THEN rulesetNone \cup {u} ELSE rulesetNone \ {u}
    /\ UNCHANGED <<decided, grant, withheld, deny, allow, groupGrant, groupDeny, groupRuleset>>

-----------------------------------------------------------------------------
(* Handlers of several statements.  A handler reads, writes, drops the credentials     *)
(* its change withdrew, and re-assembles the nodes it collected.                       *)

Begin(q, r) == request[q] = Idle /\ request' = [request EXCEPT ![q] = r]
Goto(q, op, ns) == request' = [request EXCEPT ![q].op = op, ![q].nodes = ns]
End(q) == request' = [request EXCEPT ![q] = Idle]
Apply(q, ns) == IF ns = {} THEN End(q) ELSE Goto(q, "apply", ns)

\* setUserNodeAccess reads the group outside the transaction that writes the differences.
setUserNodeAccess(q, u, refused) ==
    /\ u \in users
    /\ Begin(q, [Idle EXCEPT !.op = "access", !.user = u, !.group = groupOf[u],
                             !.members = refused])
    /\ UNCHANGED <<tables, cred, config>>

SetUserNodeAccess(q) ==
    /\ request[q].op = "access"
    /\ \/ /\ request[q].user \in users
          /\ setUserDimension(request[q].user, request[q].group, request[q].members)
       \/ request[q].user \notin users /\ UNCHANGED <<deny, allow>>
    /\ End(q)
    /\ UNCHANGED <<users, groups, objects, rulesets, groupOf, grant, withheld, groupGrant,
                   groupDeny, ruleset, rulesetNone, groupRuleset, cred, config>>

\* setUserGroup: the nodes before, the move, then the nodes after and the credentials the
\* move withdrew.  A subscriber or group deleted meanwhile fails the move.
setUserGroup(q, u, g) ==
    /\ u \in users /\ g \in groups \cup {NoGroup}
    /\ Begin(q, [Idle EXCEPT !.op = "move", !.user = u, !.group = g,
                             !.nodes = userCredentialNodes(u)])
    /\ UNCHANGED <<tables, cred, config>>

MoveUser(q) ==
    LET u == request[q].user  g == request[q].group IN
    /\ request[q].op = "move"
    /\ IF u \in users /\ g \in groups \cup {NoGroup}
       THEN SetUserGroup(u, g) /\ Goto(q, "moved", request[q].nodes)
       ELSE UNCHANGED <<groupOf, grant, withheld, deny, allow, ruleset>> /\ End(q)
    /\ UNCHANGED <<users, groups, objects, rulesets, groupGrant, groupDeny, rulesetNone,
                   groupRuleset, cred, config>>

AfterMoveBefore(q) ==
    LET u == request[q].user IN
    /\ request[q].op = "moved"
    /\ cred' = {c \in cred : c[1] = u => c[2] \in UserProfileIDs(u)}
    /\ Apply(q, request[q].nodes)
    /\ UNCHANGED <<tables, config>>

AfterMoveAfter(q) ==
    LET u == request[q].user IN
    /\ request[q].op = "moved"
    /\ cred' = {c \in cred : c[1] = u => c[2] \in UserProfileIDs(u)}
    /\ Apply(q, userCredentialNodes(u))
    /\ UNCHANGED <<tables, config>>

\* DeleteCredentialsNotEntitled, and the nodes of what the subscriber holds now.
AfterMove(q) ==
    LET u == request[q].user IN
    /\ request[q].op = "moved"
    /\ cred' = {c \in cred : c[1] = u => c[2] \in UserProfileIDs(u)}
    /\ Apply(q, request[q].nodes \cup userCredentialNodes(u))
    /\ UNCHANGED <<tables, config>>

\* changeGroupProfile: the members, the change, their credentials if it withdraws, the nodes.
changeGroupProfile(q, g, p, bind) ==
    /\ g \in groups
    /\ Begin(q, [Idle EXCEPT !.op = IF bind THEN "bindgroup" ELSE "unbindgroup",
                             !.group = g, !.profile = p, !.members = GroupMemberIDs(g)])
    /\ UNCHANGED <<tables, cred, config>>

BindGroupProfile(q) ==
    LET g == request[q].group  p == request[q].profile IN
    /\ request[q].op = "bindgroup"
    /\ IF g \in groups
       THEN groupGrant' = groupGrant \cup {<<g, p>>} /\ Apply(q, ReachOf[p])
       ELSE UNCHANGED groupGrant /\ End(q)
    /\ UNCHANGED <<users, groups, objects, rulesets, groupOf, grant, withheld, deny, allow,
                   groupDeny, ruleset, rulesetNone, groupRuleset, cred, config>>

UnbindGroupProfile(q) ==
    LET g == request[q].group  p == request[q].profile IN
    /\ request[q].op = "unbindgroup"
    /\ groupGrant' = groupGrant \ {<<g, p>>}
    /\ Goto(q, "unbound", ReachOf[p])
    /\ UNCHANGED <<users, groups, objects, rulesets, groupOf, grant, withheld, deny, allow,
                   groupDeny, ruleset, rulesetNone, groupRuleset, cred, config>>

DropMembers(q) ==
    /\ request[q].op = "unbound"
    /\ cred' = {c \in cred : ~(c[1] \in request[q].members /\ c[2] = request[q].profile)}
    /\ Apply(q, request[q].nodes)
    /\ UNCHANGED <<tables, config>>

\* setUserProfileAccess: what was held, the three-state row, what is held now.
setUserProfileAccess(q, u, p, state) ==
    /\ u \in users
    /\ Begin(q, [Idle EXCEPT !.op = state, !.user = u, !.profile = p,
                             !.members = IF p \in UserProfileIDs(u) THEN {u} ELSE {}])
    /\ UNCHANGED <<tables, cred, config>>

WriteProfileAccess(q) ==
    /\ request[q].op \in {"grant", "deny", "inherit"}
    /\ IF request[q].user \in users
       THEN /\ SetUserProfileAccess(request[q].user, request[q].profile, request[q].op)
            /\ Goto(q, "granted", ReachOf[request[q].profile])
       ELSE UNCHANGED <<grant, withheld>> /\ End(q)
    /\ UNCHANGED <<users, groups, objects, rulesets, groupOf, deny, allow, groupGrant,
                   groupDeny, ruleset, rulesetNone, groupRuleset, cred, config>>

AfterProfileAccess(q) ==
    LET u == request[q].user  p == request[q].profile IN
    /\ request[q].op = "granted"
    /\ cred' = IF u \in request[q].members /\ p \notin UserProfileIDs(u)
               THEN {c \in cred : ~(c[1] = u /\ c[2] = p)} ELSE cred
    /\ Apply(q, request[q].nodes)
    /\ UNCHANGED <<tables, config>>

\* POST and DELETE /api/users/{id}/profiles/{profileID}.
bindUserProfile(q, u, p) ==
    /\ u \in users /\ (BindOverDeny \/ <<u, p>> \notin withheld)
    /\ grant' = grant \cup {<<u, p>>}
    /\ request[q] = Idle /\ Apply(q, ReachOf[p])
    /\ UNCHANGED <<users, groups, objects, rulesets, groupOf, withheld, deny, allow, groupGrant,
                   groupDeny, ruleset, rulesetNone, groupRuleset, cred, config>>

unbindUserProfile(q, u, p) ==
    /\ Begin(q, [Idle EXCEPT !.op = "unbind", !.user = u, !.profile = p,
                             !.nodes = NodesForUserProfile(u, p)])
    /\ UNCHANGED <<tables, cred, config>>

UnbindUserProfile(q) ==
    LET u == request[q].user  p == request[q].profile IN
    /\ request[q].op = "unbind"
    /\ grant' = grant \ {<<u, p>>}
    /\ cred' = {c \in cred : ~(c[1] = u /\ c[2] = p)}
    /\ Apply(q, request[q].nodes)
    /\ UNCHANGED <<users, groups, objects, rulesets, groupOf, withheld, deny, allow, groupGrant,
                   groupDeny, ruleset, rulesetNone, groupRuleset, config>>

\* An existing secret is taken over as the credential of user x profile x node.
adoptCredential(q, u, p, n) ==
    /\ u \in users
    /\ cred' = cred \cup {<<u, p, n>>}
    /\ request[q] = Idle /\ Apply(q, {n})
    /\ UNCHANGED <<tables, config>>

\* deleteUser: the nodes holding the user's credentials, the row and all that hangs off it.
deleteUser(q, u) ==
    /\ u \in users
    /\ Begin(q, [Idle EXCEPT !.op = "delete", !.user = u, !.nodes = NodesForUser(u)])
    /\ UNCHANGED <<tables, cred, config>>

DeleteUser(q) ==
    LET u == request[q].user IN
    /\ request[q].op = "delete"
    /\ IF u \in users THEN Apply(q, request[q].nodes) ELSE End(q)
    /\ users' = users \ {u}
    /\ groupOf' = [groupOf EXCEPT ![u] = NoGroup]
    /\ grant' = Without(grant, u) /\ withheld' = Without(withheld, u)
    /\ deny' = Without(deny, u) /\ allow' = Without(allow, u)
    /\ ruleset' = [ruleset EXCEPT ![u] = NoRules]
    /\ rulesetNone' = rulesetNone \ {u}
    /\ cred' = Without(cred, u)
    /\ UNCHANGED <<groups, objects, rulesets, groupGrant, groupDeny, groupRuleset, config>>

\* One node of the list is assembled from the tables as they are now, and stored.
ApplyNode(q, n) ==
    /\ request[q].op = "apply" /\ n \in request[q].nodes
    /\ config' = [config EXCEPT ![n] = Assembled(n)]
    /\ cred' = cred \cup {<<c[1], c[2], n>> : c \in Assembled(n)}
    /\ Apply(q, request[q].nodes \ {n})
    /\ UNCHANGED tables

-----------------------------------------------------------------------------
RowStep ==
    \/ \E u \in Users : createUser(u)
    \/ \E g \in Groups : createGroup(g) \/ deleteGroup(g)
    \/ \E q \in Requests, u \in Users : deleteUser(q, u)
    \/ \E q \in Requests : DeleteUser(q)

MoveStep ==
    \E q \in Requests :
        \/ \E u \in Users, g \in Groups \cup {NoGroup} : setUserGroup(q, u, g)
        \/ MoveUser(q) \/ AfterMove(q)

AccessStep ==
    \/ \E o \in Objects : \/ createObject(o) \/ deleteObject(o)
                         \/ \E S \in SUBSET Users : SetObjectUsers(o, S)
    \/ \E S \in SUBSET Objects : \/ \E g \in Groups : setGroupNodeAccess(g, S)
                                \/ \E q \in Requests, u \in Users : setUserNodeAccess(q, u, S)
    \/ \E q \in Requests : SetUserNodeAccess(q)

RulesetStep ==
    \/ \E r \in Rulesets : createRuleset(r) \/ deleteRuleset(r)
    \/ \E r \in Rulesets \cup {NoRules} :
          \/ \E g \in Groups : setGroupRuleset(g, r)
          \/ \E u \in Users, none \in BOOLEAN : setUserRuleset(u, r, none)

ProfileStep ==
    \E q \in Requests :
        \/ \E p \in Profiles, g \in Groups, bind \in BOOLEAN : changeGroupProfile(q, g, p, bind)
        \/ \E p \in Profiles, u \in Users :
              \/ \E state \in {"grant", "deny", "inherit"} : setUserProfileAccess(q, u, p, state)
              \/ bindUserProfile(q, u, p) \/ unbindUserProfile(q, u, p)
              \/ \E n \in Nodes : adoptCredential(q, u, p, n)
        \/ BindGroupProfile(q) \/ UnbindGroupProfile(q) \/ DropMembers(q)
        \/ WriteProfileAccess(q) \/ AfterProfileAccess(q) \/ UnbindUserProfile(q)
        \/ \E n \in Nodes : ApplyNode(q, n)

InFlight == {q \in Requests : request[q] # Idle}
OneInFlight == \A q, r \in InFlight : q = r
Noted == overlapped' = (overlapped \/ ~ OneInFlight')

GrantsNext == (RowStep \/ MoveStep \/ AccessStep \/ RulesetStep \/ ProfileStep) /\ Noted

GrantsSpec == GrantsInit /\ [][GrantsNext]_gvars

-----------------------------------------------------------------------------

\* "A grant that exists only in the database is a subscription naming a node that will
\* refuse the connection" (api/group.go): once no handler is in flight, every access
\* configuration a subscriber holds, by whatever route, is in the config of every node it
\* reaches, however the handlers overlapped.
GrantedIsInstalled ==
    InFlight = {} => \A u \in users : \A p \in UserProfileIDs(u) : \A n \in ReachOf[p] :
        <<u, p>> \in config[n]

\* And as long as no two handlers have overlapped, what was withdrawn, personally, by a move,
\* by the group or with the subscriber, is in no config.  Two overlapping handlers can leave
\* it there: a grant made after setUserGroup read the subscriber's nodes is discarded by the
\* move and its nodes are not re-assembled.
WithdrawnIsGone ==
    InFlight = {} /\ ~ overlapped => \A n \in Nodes : \A c \in config[n] :
        c[1] \in users /\ c[2] \in UserProfileIDs(c[1])

-----------------------------------------------------------------------------
(* The promise the tables implement *)

Ent == INSTANCE Entitlement WITH
    subscribers <- users,
    may <- [u \in Users |-> IF u \in users THEN objects \ effectiveDenies(u) ELSE {}],
    holds <- [u \in Users |-> UserProfileIDs(u)],
    carries <- [u \in Users |-> EffectiveRulesetID(u)],
    memberOf <- groupOf,
    offers <- [g \in Groups |-> [objects |-> IF g \in groups THEN objects \ Of(groupDeny, g) ELSE {},
                                 profiles |-> Of(groupGrant, g)]],
    known <- objects,
    edits <- {<<request[q].user, request[q].group, request[q].members>> :
                 q \in {r \in Requests : request[r].op = "access"}}

\* The tables of store/group.go, store/user.go and store/external.go, with the handlers
\* interleaving, keep the promise of Entitlement: deny rows, exceptions and group rows
\* resolve to it whatever order subscribers, groups and objects are made, moved and deleted in.
ImplementsEntitlement == Ent!ESpec
=============================================================================
