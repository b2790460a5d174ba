----------------------------- MODULE FleetProofs -----------------------------
(* Proofs about who gets what (Grants): the tables keep the promise of Entitlement, and a      *)
(* grant reaches the nodes it is for, however the handlers overlap; and about how traffic      *)
(* leaves the fleet (Lines): the configs of the nodes follow the lines, rules and              *)
(* destinations, and whoever a destination bars is stopped where they enter.                   *)
EXTENDS Grants, Lines, FiniteSetTheorems, SequenceTheorems, WellFoundedInduction, TLAPS

-----------------------------------------------------------------------------
(* The rows and the handlers in flight *)

\* Rows belong to subscribers, groups and objects there are: the foreign keys.
RowsOwned ==
    /\ users \subseteq Users /\ groups \subseteq Groups /\ objects \subseteq Objects
    /\ grant \subseteq users \X Profiles /\ withheld \subseteq users \X Profiles
    /\ deny \subseteq users \X objects /\ allow \subseteq users \X objects
    /\ groupGrant \subseteq groups \X Profiles /\ groupDeny \subseteq groups \X objects
    /\ groupOf = [u \in Users |-> groupOf[u]]
    /\ \A u \in Users : groupOf[u] \in groups \cup {NoGroup}
    /\ \A u \in Users : groupOf[u] # NoGroup => u \in users

RulesOwned ==
    /\ ruleset = [u \in Users |-> ruleset[u]] /\ groupRuleset = [g \in Groups |-> groupRuleset[g]]
    /\ \A u \in Users : ruleset[u] # NoRules => u \in users
    /\ rulesetNone \subseteq users

RequestShaped(r) ==
    /\ r = [op |-> r.op, user |-> r.user, group |-> r.group, profile |-> r.profile,
            members |-> r.members, nodes |-> r.nodes]
    /\ r.op \in {"access", "move", "moved", "grant", "deny", "inherit", "granted", "unbind", "delete"}
          => r.user \in Users
    /\ r.op \in {"bindgroup", "unbindgroup"} => r.group \in Groups
    /\ r.op \in {"bindgroup", "unbindgroup", "unbound", "grant", "deny", "inherit", "granted", "unbind"}
          => r.profile \in Profiles
    /\ r.op = "idle" => r = Idle
RequestsShaped ==
    /\ request = [q \in Requests |-> request[q]]
    /\ \A q \in Requests : RequestShaped(request[q])

GrantsHeld == RowsOwned /\ RulesOwned /\ RequestsShaped

\* The handler at q goes on as j.
GoesOn(q, j) == request' = [request EXCEPT ![q] = j]

\* A request with another stage and other nodes.
Stage(r, op, ns) ==
    [op |-> op, user |-> r.user, group |-> r.group, profile |-> r.profile,
     members |-> r.members, nodes |-> ns]

\* What the stages of a handler do to it.
LEMMA GotoParts ==
    ASSUME RequestsShaped, NEW q \in Requests, NEW op, NEW ns, Goto(q, op, ns)
    PROVE  GoesOn(q, Stage(request[q], op, ns))
<1>1. PICK r : r = request[q] /\ RequestShaped(r)
  BY DEF RequestsShaped
<1>2. PICK a : a = [request EXCEPT ![q].op = op]
  OBVIOUS
<1>3. request' = [a EXCEPT ![q].nodes = ns]
  BY <1>2 DEF Goto
<1>4. PICK s : s = [op |-> op, user |-> r.user, group |-> r.group, profile |-> r.profile,
                    members |-> r.members, nodes |-> r.nodes]
  OBVIOUS
<1>5. [r EXCEPT !.op = op] = s
  BY <1>1, <1>4 DEF RequestShaped
<1>6. a = [request EXCEPT ![q] = s]
  BY <1>1, <1>2, <1>5
<1>7. a[q] = s /\ DOMAIN a = Requests /\ \A p \in Requests : p # q => a[p] = request[p]
  BY <1>6 DEF RequestsShaped
<1>8. [s EXCEPT !.nodes = ns] = Stage(r, op, ns)
  BY <1>4 DEF Stage
<1>9. request' = [a EXCEPT ![q] = Stage(r, op, ns)]
  BY <1>3, <1>7, <1>8
<1> QED  BY <1>1, <1>6, <1>9 DEF GoesOn, RequestsShaped

\* A handler with no node to assemble ends.
LEMMA ApplyParts ==
    ASSUME RequestsShaped, NEW q \in Requests, NEW ns, Apply(q, ns)
    PROVE  \/ ns = {} /\ GoesOn(q, Idle)
           \/ ns # {} /\ GoesOn(q, Stage(request[q], "apply", ns))
BY GotoParts DEF Apply, End, GoesOn

\* The shape is kept, and one request changes.
LEMMA ShapeKept ==
    ASSUME RequestsShaped, NEW q \in Requests, NEW j, GoesOn(q, j), RequestShaped(j)
    PROVE  RequestsShaped' /\ request'[q] = j /\ \A p \in Requests : p # q => request'[p] = request[p]
BY DEF RequestsShaped, GoesOn

\* So is a handler that rests.
LEMMA IdleShaped == RequestShaped(Idle)
BY DEF RequestShaped, Idle

-----------------------------------------------------------------------------
(* What a state promises *)

May(u) == IF u \in users THEN objects \ effectiveDenies(u) ELSE {}
GroupObjects(g) == IF g \in groups THEN objects \ Of(groupDeny, g) ELSE {}
Editors == {<<request[q].user, request[q].group, request[q].members>> :
                q \in {r \in Requests : request[r].op = "access"}}

\* The parts of the promise that did not change.
SameMay == \A u \in Users : May(u)' = May(u)
SameHolds == \A u \in Users : UserProfileIDs(u)' = UserProfileIDs(u)
SameCarries == \A u \in Users : EffectiveRulesetID(u)' = EffectiveRulesetID(u)
SameOffers ==
    \A g \in Groups : GroupObjects(g)' = GroupObjects(g) /\ Of(groupGrant, g)' = Of(groupGrant, g)

\* Nothing the promise is about changed.
LEMMA NothingPromised ==
    ASSUME SameMay, SameHolds, SameCarries, SameOffers,
           groupOf' = groupOf, users' = users, objects' = objects, Editors' = Editors
    PROVE  UNCHANGED Ent!evars
<1>1. [u \in Users |-> May(u)]' = [u \in Users |-> May(u)]
  BY DEF SameMay
<1>2. [u \in Users |-> UserProfileIDs(u)]' = [u \in Users |-> UserProfileIDs(u)]
  BY DEF SameHolds
<1>3. [u \in Users |-> EffectiveRulesetID(u)]' = [u \in Users |-> EffectiveRulesetID(u)]
  BY DEF SameCarries
<1>4. [g \in Groups |-> [objects |-> GroupObjects(g), profiles |-> Of(groupGrant, g)]]'
      = [g \in Groups |-> [objects |-> GroupObjects(g), profiles |-> Of(groupGrant, g)]]
  BY DEF SameOffers
<1> QED  BY <1>1, <1>2, <1>3, <1>4 DEF Ent!evars, May, GroupObjects, Editors

\* How the promise of a state is read off the tables: a new subscriber...
LEMMA SubscribePromised ==
    ASSUME NEW u \in Users, users' = users \cup {u}, SameMay, SameHolds, SameCarries, SameOffers,
           groupOf' = groupOf, objects' = objects, Editors' = Editors
    PROVE  Ent!ENext
<1>1. [v \in Users |-> May(v)]' = [v \in Users |-> May(v)]
  BY DEF SameMay
<1>2. [v \in Users |-> UserProfileIDs(v)]' = [v \in Users |-> UserProfileIDs(v)]
  BY DEF SameHolds
<1>3. [v \in Users |-> EffectiveRulesetID(v)]' = [v \in Users |-> EffectiveRulesetID(v)]
  BY DEF SameCarries
<1>4. [g \in Groups |-> [objects |-> GroupObjects(g), profiles |-> Of(groupGrant, g)]]'
      = [g \in Groups |-> [objects |-> GroupObjects(g), profiles |-> Of(groupGrant, g)]]
  BY DEF SameOffers
<1>5. Ent!Subscribe(u)
  BY <1>1, <1>2, <1>3, <1>4 DEF Ent!Subscribe, May, GroupObjects, Editors
<1> QED  BY <1>5 DEF Ent!ENext

\* ... one who is deleted...
LEMMA UnsubscribePromised ==
    ASSUME NEW u \in Users, users' = users \ {u}, groupOf' = [groupOf EXCEPT ![u] = NoGroup],
           May(u)' = {}, UserProfileIDs(u)' = {}, EffectiveRulesetID(u)' = NoRules,
           \A v \in Users \ {u} : /\ May(v)' = May(v) /\ UserProfileIDs(v)' = UserProfileIDs(v)
                                  /\ EffectiveRulesetID(v)' = EffectiveRulesetID(v),
           SameOffers, objects' = objects, Editors' = Editors
    PROVE  Ent!ENext
<1>1. [h \in Groups |-> [objects |-> GroupObjects(h), profiles |-> Of(groupGrant, h)]]'
      = [h \in Groups |-> [objects |-> GroupObjects(h), profiles |-> Of(groupGrant, h)]]
  BY DEF SameOffers
<1>2. [v \in Users |-> May(v)]' = [[v \in Users |-> May(v)] EXCEPT ![u] = {}]
  OBVIOUS
<1>3. [v \in Users |-> UserProfileIDs(v)]' = [[v \in Users |-> UserProfileIDs(v)] EXCEPT ![u] = {}]
  OBVIOUS
<1>4. [v \in Users |-> EffectiveRulesetID(v)]'
      = [[v \in Users |-> EffectiveRulesetID(v)] EXCEPT ![u] = NoRules]
  OBVIOUS
<1>5. Ent!Unsubscribe(u)
  BY <1>1, <1>2, <1>3, <1>4 DEF Ent!Unsubscribe, May, GroupObjects, Editors
<1> QED  BY <1>5 DEF Ent!ENext

\* ... an object that comes or goes...
LEMMA RegisterPromised ==
    ASSUME NEW o \in Objects, objects' \in {objects \cup {o}, objects \ {o}},
           \A u \in Users : May(u)' = May(u) \ {o},
           \A g \in Groups : GroupObjects(g)' = GroupObjects(g) \ {o} /\ Of(groupGrant, g)' = Of(groupGrant, g),
           SameHolds, SameCarries, users' = users, groupOf' = groupOf, Editors' = Editors
    PROVE  Ent!ENext
<1>1. [v \in Users |-> UserProfileIDs(v)]' = [v \in Users |-> UserProfileIDs(v)]
  BY DEF SameHolds
<1>2. [v \in Users |-> EffectiveRulesetID(v)]' = [v \in Users |-> EffectiveRulesetID(v)]
  BY DEF SameCarries
<1>3. Ent!Register(o)
  BY <1>1, <1>2 DEF Ent!Register, May, GroupObjects, Editors
<1> QED  BY <1>3 DEF Ent!ENext

\* ... members who leave...
LEMMA LeavePromised ==
    ASSUME NEW g \in Groups, NEW S \in SUBSET Users, g # NoGroup, S # {},
           \A u \in S : groupOf[u] = g,
           groupOf' = [u \in Users |-> IF u \in S THEN NoGroup ELSE groupOf[u]],
           SameMay, SameCarries, users' = users, objects' = objects, Editors' = Editors,
           \A u \in S : UserProfileIDs(u) \subseteq UserProfileIDs(u)',
           \A u \in Users \ S : UserProfileIDs(u)' = UserProfileIDs(u),
           \A h \in Groups \ {g} : GroupObjects(h)' = GroupObjects(h)
                                   /\ Of(groupGrant, h)' = Of(groupGrant, h),
           \/ GroupObjects(g)' = GroupObjects(g) /\ Of(groupGrant, g)' = Of(groupGrant, g)
           \/ GroupObjects(g)' = {} /\ Of(groupGrant, g)' = {}
    PROVE  Ent!ENext
<1>1. [u \in Users |-> May(u)]' = [u \in Users |-> May(u)]
  BY DEF SameMay
<1>2. [u \in Users |-> EffectiveRulesetID(u)]' = [u \in Users |-> EffectiveRulesetID(u)]
  BY DEF SameCarries
<1>3. Ent!Leave(g, S)
  BY <1>1, <1>2 DEF Ent!Leave, Ent!Members, Ent!OnlyFor, May, GroupObjects, Editors
<1> QED  BY <1>3 DEF Ent!ENext

\* ... one who joins...
LEMMA JoinPromised ==
    ASSUME NEW u \in Users, NEW g \in Groups, g # NoGroup, RowsOwned,
           groupOf' = [groupOf EXCEPT ![u] = g],
           May(u)' = GroupObjects(g), UserProfileIDs(u)' = Of(groupGrant, g),
           \A v \in Users \ {u} : /\ May(v)' = May(v) /\ UserProfileIDs(v)' = UserProfileIDs(v)
                                  /\ EffectiveRulesetID(v)' = EffectiveRulesetID(v),
           SameOffers, users' = users, objects' = objects, Editors' = Editors
    PROVE  Ent!ENext
<1>1. [h \in Groups |-> [objects |-> GroupObjects(h), profiles |-> Of(groupGrant, h)]]'
      = [h \in Groups |-> [objects |-> GroupObjects(h), profiles |-> Of(groupGrant, h)]]
  BY DEF SameOffers
<1>2. [v \in Users |-> May(v)]' = [[v \in Users |-> May(v)] EXCEPT ![u] = GroupObjects(g)]
  OBVIOUS
<1>3. [v \in Users |-> UserProfileIDs(v)]'
      = [[v \in Users |-> UserProfileIDs(v)] EXCEPT ![u] = Of(groupGrant, g)]
  OBVIOUS
<1>4. Ent!Join(u, g)
  BY <1>1, <1>2, <1>3 DEF Ent!Join, Ent!OnlyFor, May, GroupObjects, Editors
<1> QED  BY <1>4 DEF Ent!ENext

\* ... a decision about a group...
LEMMA DecideGroupPromised ==
    ASSUME NEW g \in Groups,
           \A h \in Groups \ {g} : GroupObjects(h)' = GroupObjects(h)
                                   /\ Of(groupGrant, h)' = Of(groupGrant, h),
           \A u \in Users : groupOf[u] # g => /\ May(u)' = May(u)
                                              /\ UserProfileIDs(u)' = UserProfileIDs(u)
                                              /\ EffectiveRulesetID(u)' = EffectiveRulesetID(u),
           groupOf' = groupOf, users' = users, objects' = objects, Editors' = Editors
    PROVE  Ent!ENext
<1>1. Ent!DecideGroup(g)
  BY DEF Ent!DecideGroup, Ent!Members, Ent!OnlyFor, May, GroupObjects, Editors
<1> QED  BY <1>1 DEF Ent!ENext

\* ... a rule set that is deleted...
LEMMA DropRulesPromised ==
    ASSUME NEW r, \A u \in Users : EffectiveRulesetID(u) # r => EffectiveRulesetID(u)' = EffectiveRulesetID(u),
           SameMay, SameHolds, SameOffers, groupOf' = groupOf, users' = users, objects' = objects, Editors' = Editors
    PROVE  Ent!ENext \/ UNCHANGED Ent!evars
<1>1. CASE \A u \in Users : EffectiveRulesetID(u) # r
  <2>1. SameCarries
    BY <1>1 DEF SameCarries
  <2> QED  BY <2>1, NothingPromised
<1>2. CASE \E u \in Users : EffectiveRulesetID(u) = r
  <2>1. PICK u \in Users : EffectiveRulesetID(u) = r
    BY <1>2
  <2>2. [v \in Users |-> May(v)]' = [v \in Users |-> May(v)]
    BY DEF SameMay
  <2>3. [v \in Users |-> UserProfileIDs(v)]' = [v \in Users |-> UserProfileIDs(v)]
    BY DEF SameHolds
  <2>4. [h \in Groups |-> [objects |-> GroupObjects(h), profiles |-> Of(groupGrant, h)]]'
        = [h \in Groups |-> [objects |-> GroupObjects(h), profiles |-> Of(groupGrant, h)]]
    BY DEF SameOffers
  <2>5. Ent!DropRules(r)
    BY <2>2, <2>3, <2>4 DEF Ent!DropRules, Ent!OnlyFor, May, GroupObjects, Editors
  <2>6. [v \in Users |-> EffectiveRulesetID(v)][u] = r
    BY <2>1
  <2> QED  BY <2>5, <2>6 DEF Ent!ENext
<1> QED  BY <1>1, <1>2

\* ... a decision about a subscriber...
LEMMA DecideUserPromised ==
    ASSUME NEW u \in Users,
           \A v \in Users \ {u} : /\ UserProfileIDs(v)' = UserProfileIDs(v)
                                  /\ EffectiveRulesetID(v)' = EffectiveRulesetID(v),
           SameMay, SameOffers, groupOf' = groupOf, users' = users, objects' = objects, Editors' = Editors
    PROVE  Ent!ENext
<1>1. [v \in Users |-> May(v)]' = [v \in Users |-> May(v)]
  BY DEF SameMay
<1>2. [h \in Groups |-> [objects |-> GroupObjects(h), profiles |-> Of(groupGrant, h)]]'
      = [h \in Groups |-> [objects |-> GroupObjects(h), profiles |-> Of(groupGrant, h)]]
  BY DEF SameOffers
<1>3. Ent!DecideUser(u)
  BY <1>1, <1>2 DEF Ent!DecideUser, Ent!OnlyFor, May, GroupObjects, Editors
<1> QED  BY <1>3 DEF Ent!ENext

\* ... about an object...
LEMMA DecideObjectPromised ==
    ASSUME NEW o \in Objects, NEW S \in SUBSET Users,
           \A u \in Users : May(u)' = IF u \in S THEN May(u) \ {o} ELSE May(u) \cup {o},
           SameHolds, SameCarries, SameOffers, groupOf' = groupOf, users' = users, objects' = objects, Editors' = Editors
    PROVE  Ent!ENext
<1>1. [v \in Users |-> UserProfileIDs(v)]' = [v \in Users |-> UserProfileIDs(v)]
  BY DEF SameHolds
<1>2. [v \in Users |-> EffectiveRulesetID(v)]' = [v \in Users |-> EffectiveRulesetID(v)]
  BY DEF SameCarries
<1>3. [h \in Groups |-> [objects |-> GroupObjects(h), profiles |-> Of(groupGrant, h)]]'
      = [h \in Groups |-> [objects |-> GroupObjects(h), profiles |-> Of(groupGrant, h)]]
  BY DEF SameOffers
<1>4. Ent!DecideObject(o, S)
  BY <1>1, <1>2, <1>3 DEF Ent!DecideObject, May, GroupObjects, Editors
<1> QED  BY <1>4 DEF Ent!ENext

\* ... an access editor that is sent...
LEMMA EditPromised ==
    ASSUME SameMay, SameHolds, SameCarries, SameOffers, groupOf' = groupOf, users' = users, objects' = objects
    PROVE  Ent!ENext \/ UNCHANGED Ent!evars
<1>1. [v \in Users |-> May(v)]' = [v \in Users |-> May(v)]
  BY DEF SameMay
<1>2. [v \in Users |-> UserProfileIDs(v)]' = [v \in Users |-> UserProfileIDs(v)]
  BY DEF SameHolds
<1>3. [v \in Users |-> EffectiveRulesetID(v)]' = [v \in Users |-> EffectiveRulesetID(v)]
  BY DEF SameCarries
<1>4. [h \in Groups |-> [objects |-> GroupObjects(h), profiles |-> Of(groupGrant, h)]]'
      = [h \in Groups |-> [objects |-> GroupObjects(h), profiles |-> Of(groupGrant, h)]]
  BY DEF SameOffers
<1>5. CASE Editors' # Editors
  <2>1. Ent!Edit
    BY <1>1, <1>2, <1>3, <1>4, <1>5 DEF Ent!Edit, May, GroupObjects, Editors
  <2> QED  BY <2>1 DEF Ent!ENext
<1> QED  BY <1>5, NothingPromised

\* ... and one that is stored.
LEMMA SavePromised ==
    ASSUME NEW q \in Requests, NEW u \in Users, NEW g, NEW no,
           request[q].op = "access", request[q].user = u, request[q].group = g, request[q].members = no,
           groupOf[u] = g => May(u)' = objects \ no,
           \A v \in Users \ {u} : May(v)' = May(v),
           SameHolds, SameCarries, SameOffers, groupOf' = groupOf, users' = users, objects' = objects
    PROVE  Ent!ENext
<1>1. [v \in Users |-> UserProfileIDs(v)]' = [v \in Users |-> UserProfileIDs(v)]
  BY DEF SameHolds
<1>2. [v \in Users |-> EffectiveRulesetID(v)]' = [v \in Users |-> EffectiveRulesetID(v)]
  BY DEF SameCarries
<1>3. [h \in Groups |-> [objects |-> GroupObjects(h), profiles |-> Of(groupGrant, h)]]'
      = [h \in Groups |-> [objects |-> GroupObjects(h), profiles |-> Of(groupGrant, h)]]
  BY DEF SameOffers
<1>4. Ent!Save(u, g, no)
  BY <1>1, <1>2, <1>3 DEF Ent!Save, Ent!OnlyFor, May, GroupObjects
<1>5. <<u, g, no>> \in Editors
  BY DEF Editors
<1>6. Ent!Save(<<u, g, no>>[1], <<u, g, no>>[2], <<u, g, no>>[3])
  BY <1>4
<1>7. \E e \in Editors : Ent!Save(e[1], e[2], e[3])
  BY <1>5, <1>6
<1> QED  BY <1>7 DEF Ent!ENext, Editors

\* Editors that are being saved stay as they are unless one begins or ends.
LEMMA EditorsStay ==
    ASSUME RequestsShaped, NEW q \in Requests, NEW j, GoesOn(q, j),
           request[q].op # "access", j.op # "access"
    PROVE  Editors' = Editors
<1>1. request'[q] = j /\ \A p \in Requests : p # q => request'[p] = request[p]
  BY DEF GoesOn, RequestsShaped
<1>2. {r \in Requests : request'[r].op = "access"} = {r \in Requests : request[r].op = "access"}
  BY <1>1
<1>3. \A r \in {s \in Requests : request[s].op = "access"} : request'[r] = request[r]
  BY <1>1
<1> QED  BY <1>2, <1>3 DEF Editors

\* The last stage of a handler: its nodes, if any.
Ending(j, ns) ==
    /\ RequestShaped(j) /\ j.op \in {"idle", "apply"}
    /\ ns # {} => j.op = "apply" /\ j.nodes = ns

\* A handler that reaches its last stage, a handler that reaches another.
LEMMA ApplyEnding ==
    ASSUME RequestsShaped, NEW q \in Requests, NEW ns, Apply(q, ns)
    PROVE  \E j : GoesOn(q, j) /\ Ending(j, ns)
<1>1. CASE ns = {} /\ GoesOn(q, Idle)
  BY <1>1, IdleShaped DEF Ending, Idle
<1>2. CASE ns # {} /\ GoesOn(q, Stage(request[q], "apply", ns))
  <2>1. PICK j : j = Stage(request[q], "apply", ns)
    OBVIOUS
  <2>2. RequestShaped(j) /\ j.op = "apply" /\ j.nodes = ns
    BY <2>1 DEF Stage, RequestShaped
  <2> QED  BY <1>2, <2>1, <2>2 DEF Ending
<1> QED  BY <1>1, <1>2, ApplyParts

\* A handler that ends.
LEMMA EndEnding ==
    ASSUME NEW q \in Requests, End(q) PROVE \E j : GoesOn(q, j) /\ Ending(j, {})
BY IdleShaped DEF End, GoesOn, Ending, Idle

\* The promise depends on the tables alone.
LEMMA TablesSame ==
    ASSUME UNCHANGED tables
    PROVE  /\ SameMay /\ SameHolds /\ SameCarries /\ SameOffers
           /\ users' = users /\ groupOf' = groupOf /\ objects' = objects
<1>1. users' = users /\ objects' = objects /\ groups' = groups /\ groupOf' = groupOf /\ grant' = grant
      /\ withheld' = withheld /\ deny' = deny /\ allow' = allow /\ groupGrant' = groupGrant
      /\ groupDeny' = groupDeny /\ ruleset' = ruleset /\ rulesetNone' = rulesetNone
      /\ groupRuleset' = groupRuleset
  BY DEF tables
<1>2. \A u \in Users : effectiveDenies(u)' = effectiveDenies(u)
  BY <1>1 DEF effectiveDenies, Of
<1>3. SameMay
  BY <1>1, <1>2 DEF SameMay, May
<1>4. SameHolds
  BY <1>1 DEF SameHolds, UserProfileIDs, Of
<1>5. SameCarries
  BY <1>1 DEF SameCarries, EffectiveRulesetID
<1>6. SameOffers
  BY <1>1 DEF SameOffers, GroupObjects, Of
<1> QED  BY <1>1, <1>3, <1>4, <1>5, <1>6

\* A step of a handler that writes none of them promises nothing new.
LEMMA RequestOnly ==
    ASSUME GrantsHeld, UNCHANGED tables, NEW q \in Requests, NEW j, GoesOn(q, j), RequestShaped(j),
           request[q].op # "access", j.op # "access"
    PROVE  GrantsHeld' /\ UNCHANGED Ent!evars
<1>1. Editors' = Editors
  BY EditorsStay DEF GrantsHeld
<1>2. UNCHANGED Ent!evars
  BY <1>1, TablesSame, NothingPromised
<1>3. RequestsShaped'
  BY ShapeKept DEF GrantsHeld
<1>4. RowsOwned' /\ RulesOwned'
  BY DEF GrantsHeld, RowsOwned, RulesOwned, tables
<1> QED  BY <1>2, <1>3, <1>4 DEF GrantsHeld

\* Requests as they are.
LEMMA RequestsStay ==
    ASSUME RequestsShaped, request' = request PROVE RequestsShaped' /\ Editors' = Editors
BY DEF RequestsShaped, RequestShaped, Editors

-----------------------------------------------------------------------------
(* Rows that come and go *)

\* What a pair set gives one of its left components.
LEMMA OfParts ==
    ASSUME NEW T, NEW x
    PROVE  /\ \A y : y \in Of(T, x) => \E t \in T : t[1] = x /\ t[2] = y
           /\ \A t \in T : t[1] = x => t[2] \in Of(T, x)
BY DEF Of

\* Its pairs give their right components.
LEMMA OfHas == ASSUME NEW T, NEW x, NEW y, <<x, y>> \in T PROVE y \in Of(T, x)
<1>1. <<x, y>>[1] = x /\ <<x, y>>[2] = y
  OBVIOUS
<1> QED  BY <1>1, OfParts

\* A new subscriber is refused everything.
LEMMA CreateUserStep ==
    ASSUME GrantsHeld, NEW u \in Users, createUser(u) PROVE GrantsHeld' /\ Ent!ENext
<1>1. /\ u \notin users /\ users' = users \cup {u} /\ deny' = deny \cup ({u} \X objects)
      /\ groups' = groups /\ objects' = objects /\ groupOf' = groupOf /\ grant' = grant
      /\ withheld' = withheld /\ allow' = allow /\ groupGrant' = groupGrant /\ groupDeny' = groupDeny
      /\ ruleset' = ruleset /\ rulesetNone' = rulesetNone /\ groupRuleset' = groupRuleset
      /\ request' = request
  BY DEF createUser
<1>2. RowsOwned' /\ RulesOwned'
  BY <1>1 DEF GrantsHeld, RowsOwned, RulesOwned
<1>3. RequestsShaped' /\ Editors' = Editors
  BY <1>1, RequestsStay DEF GrantsHeld
<1>4. ASSUME NEW v \in Users PROVE May(v)' = May(v)
  <2>1. CASE v = u
    <3>1. objects \subseteq Of(deny', u)
      <4>1. \A o \in objects : <<u, o>> \in deny'
        BY <1>1
      <4> QED  BY <4>1, OfHas
    <3> QED  BY <1>1, <2>1, <3>1 DEF May, effectiveDenies
  <2>2. CASE v # u
    <3>1. Of(deny', v) = Of(deny, v)
      BY <1>1, <2>2 DEF Of
    <3> QED  BY <1>1, <2>2, <3>1 DEF May, effectiveDenies
  <2> QED  BY <2>1, <2>2
<1>5. SameHolds /\ SameCarries /\ SameOffers
  BY <1>1 DEF SameHolds, SameCarries, SameOffers, UserProfileIDs, EffectiveRulesetID, GroupObjects
<1>6. SameMay
  BY <1>4 DEF SameMay
<1> QED  BY <1>1, <1>2, <1>3, <1>5, <1>6, SubscribePromised DEF GrantsHeld

\* A new group, likewise.
LEMMA CreateGroupStep ==
    ASSUME GrantsHeld, NEW g \in Groups, createGroup(g) PROVE GrantsHeld' /\ UNCHANGED Ent!evars
<1>1. /\ g \notin groups /\ groups' = groups \cup {g} /\ groupDeny' = groupDeny \cup ({g} \X objects)
      /\ users' = users /\ objects' = objects /\ groupOf' = groupOf /\ grant' = grant
      /\ withheld' = withheld /\ allow' = allow /\ groupGrant' = groupGrant /\ deny' = deny
      /\ ruleset' = ruleset /\ rulesetNone' = rulesetNone /\ groupRuleset' = groupRuleset
      /\ request' = request
  BY DEF createGroup
<1>2. RowsOwned' /\ RulesOwned'
  BY <1>1 DEF GrantsHeld, RowsOwned, RulesOwned
<1>3. RequestsShaped' /\ Editors' = Editors
  BY <1>1, RequestsStay DEF GrantsHeld
<1>4. \A h : h # g => Of(groupDeny', h) = Of(groupDeny, h)
  BY <1>1 DEF Of
<1>5. \A v \in Users : groupOf[v] # g
  BY <1>1, GrantsAssumption DEF GrantsHeld, RowsOwned
<1>6. ASSUME NEW v \in Users PROVE May(v)' = May(v)
  BY <1>1, <1>4, <1>5 DEF May, effectiveDenies
<1>7. ASSUME NEW h \in Groups PROVE GroupObjects(h)' = GroupObjects(h)
  <2>1. objects \subseteq Of(groupDeny', g)
    <3>1. \A o \in objects : <<g, o>> \in groupDeny'
      BY <1>1
    <3> QED  BY <3>1, OfHas
  <2> QED  BY <1>1, <1>4, <2>1 DEF GroupObjects
<1>8. SameHolds /\ SameCarries
  BY <1>1 DEF SameHolds, SameCarries, UserProfileIDs, EffectiveRulesetID
<1>9. SameMay /\ SameOffers
  BY <1>1, <1>6, <1>7 DEF SameMay, SameOffers
<1> QED  BY <1>1, <1>2, <1>3, <1>8, <1>9, NothingPromised DEF GrantsHeld

\* A new object is refused to everyone.
LEMMA CreateObjectStep ==
    ASSUME GrantsHeld, NEW o \in Objects, createObject(o) PROVE GrantsHeld' /\ Ent!ENext
<1>1. /\ o \notin objects /\ objects' = objects \cup {o} /\ deny' = deny \cup (users \X {o})
      /\ groupDeny' = groupDeny \cup (groups \X {o})
      /\ users' = users /\ groups' = groups /\ groupOf' = groupOf /\ grant' = grant
      /\ withheld' = withheld /\ allow' = allow /\ groupGrant' = groupGrant
      /\ ruleset' = ruleset /\ rulesetNone' = rulesetNone /\ groupRuleset' = groupRuleset
      /\ request' = request
  BY DEF createObject
<1>2. RowsOwned' /\ RulesOwned'
  BY <1>1 DEF GrantsHeld, RowsOwned, RulesOwned
<1>3. RequestsShaped' /\ Editors' = Editors
  BY <1>1, RequestsStay DEF GrantsHeld
<1>4. \A x : Of(users \X {o}, x) \subseteq {o} /\ Of(groups \X {o}, x) \subseteq {o}
  BY DEF Of
<1>5. \A T, U, x : Of(T \cup U, x) = Of(T, x) \cup Of(U, x)
  BY DEF Of
<1>6. ASSUME NEW v \in Users PROVE May(v)' = May(v) \ {o}
  <2>1. CASE v \in users
    <3>1. o \in Of(deny', v)
      <4>1. <<v, o>> \in deny'
        BY <1>1, <2>1
      <4> QED  BY <4>1, OfHas
    <3>2. Of(deny', v) = Of(deny, v) \cup {o}
      <4>1. Of(deny', v) = Of(deny, v) \cup Of(users \X {o}, v)
        BY <1>1, <1>5
      <4>2. Of(users \X {o}, v) \subseteq {o}
        BY <1>4
      <4> QED  BY <3>1, <4>1, <4>2
    <3>3. Of(groupDeny', groupOf[v]) \ {o} = Of(groupDeny, groupOf[v]) \ {o}
      BY <1>1, <1>4, <1>5
    <3> QED  BY <1>1, <2>1, <3>2, <3>3 DEF May, effectiveDenies
  <2> QED  BY <1>1, <2>1 DEF May
<1>7. ASSUME NEW h \in Groups PROVE GroupObjects(h)' = GroupObjects(h) \ {o}
  <2>1. Of(groupDeny', h) \ {o} = Of(groupDeny, h) \ {o}
    BY <1>1, <1>4, <1>5
  <2>2. h \in groups => <<h, o>> \in groupDeny'
    BY <1>1
  <2>3. h \in groups => o \in Of(groupDeny', h)
    BY <2>2, OfHas
  <2> QED  BY <1>1, <2>1, <2>3 DEF GroupObjects
<1>8. SameHolds /\ SameCarries
  BY <1>1 DEF SameHolds, SameCarries, UserProfileIDs, EffectiveRulesetID
<1> QED  BY <1>1, <1>2, <1>3, <1>6, <1>7, <1>8, RegisterPromised DEF GrantsHeld

\* A deleted object takes its rows with it.
LEMMA DeleteObjectStep ==
    ASSUME GrantsHeld, NEW o \in Objects, deleteObject(o) PROVE GrantsHeld' /\ Ent!ENext
<1>1. /\ objects' = objects \ {o} /\ deny' = {t \in deny : t[2] # o}
      /\ allow' = {t \in allow : t[2] # o} /\ groupDeny' = {t \in groupDeny : t[2] # o}
      /\ users' = users /\ groups' = groups /\ groupOf' = groupOf /\ grant' = grant
      /\ withheld' = withheld /\ groupGrant' = groupGrant
      /\ ruleset' = ruleset /\ rulesetNone' = rulesetNone /\ groupRuleset' = groupRuleset
      /\ request' = request
  BY DEF deleteObject
<1>2. RowsOwned' /\ RulesOwned'
  BY <1>1 DEF GrantsHeld, RowsOwned, RulesOwned
<1>3. RequestsShaped' /\ Editors' = Editors
  BY <1>1, RequestsStay DEF GrantsHeld
<1>4. \A x : /\ Of(deny', x) = Of(deny, x) \ {o} /\ Of(allow', x) = Of(allow, x) \ {o}
             /\ Of(groupDeny', x) = Of(groupDeny, x) \ {o}
  BY <1>1 DEF Of
<1>5. \A v \in Users : May(v)' = May(v) \ {o}
  BY <1>1, <1>4 DEF May, effectiveDenies
<1>6. \A h \in Groups : GroupObjects(h)' = GroupObjects(h) \ {o}
  BY <1>1, <1>4 DEF GroupObjects
<1>7. SameHolds /\ SameCarries
  BY <1>1 DEF SameHolds, SameCarries, UserProfileIDs, EffectiveRulesetID
<1> QED  BY <1>1, <1>2, <1>3, <1>5, <1>6, <1>7, RegisterPromised DEF GrantsHeld

\* A pair set in terms of its pairs.
PairSet(T) == \A t \in T : t = <<t[1], t[2]>>

\* What it gives is what it pairs.
LEMMA OfIff ==
    ASSUME NEW T, PairSet(T), NEW x, NEW y PROVE y \in Of(T, x) <=> <<x, y>> \in T
<1>1. ASSUME y \in Of(T, x) PROVE <<x, y>> \in T
  <2>1. PICK t \in T : t[1] = x /\ t[2] = y
    BY <1>1, OfParts
  <2>2. t = <<x, y>>
    BY <2>1 DEF PairSet
  <2> QED  BY <2>1, <2>2
<1> QED  BY <1>1, OfHas

\* The tables are pair sets.
LEMMA RowsArePairs ==
    ASSUME RowsOwned
    PROVE  /\ PairSet(grant) /\ PairSet(withheld) /\ PairSet(deny) /\ PairSet(allow)
           /\ PairSet(groupGrant) /\ PairSet(groupDeny)
BY DEF RowsOwned, PairSet

\* Pairs handed to each member of a set.
LEMMA HandedOut ==
    ASSUME NEW S, NEW f, NEW x, NEW y
    PROVE  <<x, y>> \in UNION {{u} \X f[u] : u \in S} <=> x \in S /\ y \in f[x]
OBVIOUS

\* What leaves the group takes what it decided along.
DetachedFrom(S, g) ==
    /\ grant' \subseteq users \X Profiles /\ withheld' \subseteq users \X Profiles
    /\ deny' \subseteq users \X objects /\ allow' \subseteq users \X objects
    /\ \A v \in S : /\ Of(grant', v) = Of(grant, v) \cup (Of(groupGrant, g) \ Of(withheld, v))
                    /\ Of(deny', v) = Of(deny, v) \cup (Of(groupDeny, g) \ Of(allow, v))
                    /\ Of(allow', v) = {} /\ Of(withheld', v) = {}
    /\ \A v : v \notin S => /\ Of(grant', v) = Of(grant, v) /\ Of(deny', v) = Of(deny, v)
                            /\ Of(allow', v) = Of(allow, v) /\ Of(withheld', v) = Of(withheld, v)

\* That is what detachUser writes.
LEMMA DetachParts ==
    ASSUME RowsOwned, NEW S \in SUBSET users, NEW g, detachUser(S, g) PROVE DetachedFrom(S, g)
<1>1. PICK f : f = [u \in S |-> Of(groupGrant, g) \ Of(withheld, u)]
  OBVIOUS
<1>2. PICK d : d = [u \in S |-> Of(groupDeny, g) \ Of(allow, u)]
  OBVIOUS
<1>3. PICK F, D : F = UNION {{u} \X f[u] : u \in S} /\ D = UNION {{u} \X d[u] : u \in S}
  OBVIOUS
<1>4. /\ grant' = grant \cup F /\ deny' = deny \cup D
      /\ allow' = {t \in allow : t[1] \notin S} /\ withheld' = {t \in withheld : t[1] \notin S}
  BY <1>1, <1>2, <1>3 DEF detachUser
<1>5. Of(groupGrant, g) \subseteq Profiles /\ Of(groupDeny, g) \subseteq objects
  BY DEF Of, RowsOwned
<1>6. F \subseteq users \X Profiles /\ D \subseteq users \X objects
  BY <1>1, <1>2, <1>3, <1>5
<1>7. /\ grant' \in SUBSET (users \X Profiles) /\ withheld' \in SUBSET (users \X Profiles)
      /\ deny' \in SUBSET (users \X objects) /\ allow' \in SUBSET (users \X objects)
  BY <1>4, <1>6 DEF RowsOwned
<1>8. /\ PairSet(grant) /\ PairSet(withheld) /\ PairSet(deny) /\ PairSet(allow)
      /\ PairSet(grant') /\ PairSet(withheld') /\ PairSet(deny') /\ PairSet(allow')
  BY <1>7, RowsArePairs DEF PairSet
<1>9. ASSUME NEW v, NEW y
      PROVE  /\ y \in Of(grant', v) <=> y \in Of(grant, v) \/ (v \in S /\ y \in f[v])
             /\ y \in Of(deny', v) <=> y \in Of(deny, v) \/ (v \in S /\ y \in d[v])
             /\ y \in Of(allow', v) <=> y \in Of(allow, v) /\ v \notin S
             /\ y \in Of(withheld', v) <=> y \in Of(withheld, v) /\ v \notin S
  <2>1. <<v, y>> \in F <=> v \in S /\ y \in f[v]
    BY <1>3, HandedOut
  <2>2. <<v, y>> \in D <=> v \in S /\ y \in d[v]
    BY <1>3, HandedOut
  <2>3. y \in Of(grant', v) <=> y \in Of(grant, v) \/ (v \in S /\ y \in f[v])
    BY <1>4, <1>8, <2>1, OfIff
  <2>4. y \in Of(deny', v) <=> y \in Of(deny, v) \/ (v \in S /\ y \in d[v])
    BY <1>4, <1>8, <2>2, OfIff
  <2>5. <<v, y>>[1] = v
    OBVIOUS
  <2>6. y \in Of(allow', v) <=> y \in Of(allow, v) /\ v \notin S
    <3>1. <<v, y>> \in allow' <=> <<v, y>> \in allow /\ v \notin S
      BY <1>4, <2>5
    <3> QED  BY <1>8, <3>1, OfIff
  <2>7. y \in Of(withheld', v) <=> y \in Of(withheld, v) /\ v \notin S
    <3>1. <<v, y>> \in withheld' <=> <<v, y>> \in withheld /\ v \notin S
      BY <1>4, <2>5
    <3> QED  BY <1>8, <3>1, OfIff
  <2> QED  BY <2>3, <2>4, <2>6, <2>7
<1>10. ASSUME NEW v \in S
       PROVE  /\ Of(grant', v) = Of(grant, v) \cup (Of(groupGrant, g) \ Of(withheld, v))
              /\ Of(deny', v) = Of(deny, v) \cup (Of(groupDeny, g) \ Of(allow, v))
              /\ Of(allow', v) = {} /\ Of(withheld', v) = {}
  BY <1>1, <1>2, <1>9
<1>11. ASSUME NEW v, v \notin S
       PROVE  /\ Of(grant', v) = Of(grant, v) /\ Of(deny', v) = Of(deny, v)
              /\ Of(allow', v) = Of(allow, v) /\ Of(withheld', v) = Of(withheld, v)
  BY <1>9, <1>11
<1> QED  BY <1>7, <1>10, <1>11 DEF DetachedFrom

\* Nobody out of a group is decided for by one.
LEMMA NoGroupDecides ==
    ASSUME RowsOwned PROVE Of(groupGrant, NoGroup) = {} /\ Of(groupDeny, NoGroup) = {}
<1>1. NoGroup \notin groups
  BY GrantsAssumption DEF RowsOwned
<1> QED  BY <1>1 DEF RowsOwned, Of

\* A function over D.
Over(f, D) == f = [x \in D |-> f[x]]

\* S left g, and nobody else anything.
OutOf(S, g) ==
    /\ g # NoGroup /\ S \subseteq users /\ users \subseteq Users
    /\ users' = users /\ rulesetNone' = rulesetNone
    /\ \A v \in S : groupOf[v] = g /\ groupOf'[v] = NoGroup
    /\ \A v \in Users \ S :
          /\ groupOf'[v] = groupOf[v]
          /\ groupOf[v] # NoGroup => groupRuleset'[groupOf[v]] = groupRuleset[groupOf[v]]
    /\ Over(groupRuleset', Groups)

\* The rule set survives too.
LEMMA DetachRules ==
    ASSUME RulesOwned, NEW S, NEW g, OutOf(S, g), detachUser(S, g) PROVE SameCarries /\ RulesOwned'
<1> USE DEF OutOf, Over
<1>1. ruleset' = [u \in Users |-> IF u \in S /\ u \notin rulesetNone /\ ruleset[u] = NoRules
                                  THEN groupRuleset[g] ELSE ruleset[u]]
  BY DEF detachUser
<1>2. ASSUME NEW v \in Users PROVE EffectiveRulesetID(v)' = EffectiveRulesetID(v)
  <2>1. CASE v \in S
    BY <1>1, <2>1 DEF EffectiveRulesetID
  <2>2. CASE v \notin S
    BY <1>1, <2>2 DEF EffectiveRulesetID
  <2> QED  BY <2>1, <2>2
<1>3. RulesOwned'
  BY <1>1 DEF RulesOwned
<1> QED  BY <1>2, <1>3 DEF SameCarries

\* A dissolved group leaves its members what it decided.
LEMMA DeleteGroupStep ==
    ASSUME GrantsHeld, NEW g \in Groups, deleteGroup(g) PROVE GrantsHeld' /\ Ent!ENext
<1>1. PICK S : S = GroupMemberIDs(g)
  OBVIOUS
<1>2. /\ g \in groups /\ groups' = groups \ {g} /\ detachUser(S, g)
      /\ groupOf' = [u \in Users |-> IF groupOf[u] = g THEN NoGroup ELSE groupOf[u]]
      /\ groupGrant' = Without(groupGrant, g) /\ groupDeny' = Without(groupDeny, g)
      /\ groupRuleset' = [groupRuleset EXCEPT ![g] = NoRules]
      /\ users' = users /\ objects' = objects /\ rulesetNone' = rulesetNone /\ request' = request
  BY <1>1 DEF deleteGroup
<1>3. g # NoGroup /\ S \in SUBSET users /\ users \subseteq Users
  BY <1>1, GrantsAssumption DEF GroupMemberIDs, GrantsHeld, RowsOwned
<1>4. DetachedFrom(S, g)
  BY <1>2, <1>3, DetachParts DEF GrantsHeld
<1>5. \A v \in Users : v \in S <=> groupOf[v] = g
  BY <1>1, <1>3 DEF GroupMemberIDs, GrantsHeld, RowsOwned
<1>6. /\ Of(groupGrant', g) = {} /\ Of(groupDeny', g) = {}
      /\ \A h : h # g => Of(groupGrant', h) = Of(groupGrant, h) /\ Of(groupDeny', h) = Of(groupDeny, h)
  BY <1>2 DEF Of, Without
<1>7. Of(groupGrant, NoGroup) = {} /\ Of(groupDeny, NoGroup) = {}
  BY NoGroupDecides DEF GrantsHeld
<1>8. RowsOwned'
  <2>1. groupGrant' \subseteq groups' \X Profiles /\ groupDeny' \subseteq groups' \X objects
    BY <1>2 DEF Without, GrantsHeld, RowsOwned
  <2> QED  BY <1>2, <1>4, <2>1 DEF DetachedFrom, GrantsHeld, RowsOwned
<1>9. SameCarries /\ RulesOwned'
  <2>1. groupRuleset' = [h \in Groups |-> groupRuleset'[h]] /\ \A h \in Groups : h # g => groupRuleset'[h] = groupRuleset[h]
    BY <1>2 DEF GrantsHeld, RulesOwned
  <2>2. \A v \in S : groupOf[v] = g /\ groupOf'[v] = NoGroup
    BY <1>2, <1>3, <1>5
  <2>3. \A v \in Users \ S :
            /\ groupOf'[v] = groupOf[v]
            /\ groupOf[v] # NoGroup => groupRuleset'[groupOf[v]] = groupRuleset[groupOf[v]]
    BY <1>2, <1>5, <2>1 DEF GrantsHeld, RowsOwned
  <2>4. OutOf(S, g)
    <3>1. users' = users /\ rulesetNone' = rulesetNone /\ Over(groupRuleset', Groups)
      BY <1>2, <2>1 DEF Over
    <3>2. g # NoGroup /\ S \subseteq users /\ users \subseteq Users
      BY <1>3
    <3> QED  BY <2>2, <2>3, <3>1, <3>2, Zenon DEF OutOf
  <2> QED  BY <1>2, <2>4, DetachRules DEF GrantsHeld
<1>10. RequestsShaped' /\ Editors' = Editors
  BY <1>2, RequestsStay DEF GrantsHeld
<1>11. ASSUME NEW v \in Users PROVE May(v)' = May(v)
  <2>1. CASE v \in S
    <3>1. groupOf[v] = g /\ groupOf'[v] = NoGroup /\ g # NoGroup
      BY <1>2, <1>3, <1>5, <2>1
    <3>2. effectiveDenies(v)' = Of(deny, v) \cup (Of(groupDeny, g) \ Of(allow, v))
      BY <1>3, <1>4, <1>6, <1>7, <2>1, <3>1 DEF effectiveDenies, DetachedFrom
    <3> QED  BY <1>2, <3>1, <3>2 DEF May, effectiveDenies
  <2>2. CASE v \notin S
    <3>1. groupOf[v] # g /\ groupOf'[v] = groupOf[v]
      BY <1>2, <1>5, <2>2
    <3> QED  BY <1>2, <1>4, <1>6, <2>2, <3>1 DEF May, effectiveDenies, DetachedFrom
  <2> QED  BY <2>1, <2>2
<1>12. ASSUME NEW v \in Users
       PROVE  /\ v \in S => UserProfileIDs(v) \subseteq UserProfileIDs(v)'
              /\ v \notin S => UserProfileIDs(v)' = UserProfileIDs(v)
  <2>1. CASE v \in S
    <3>1. groupOf[v] = g /\ groupOf'[v] = NoGroup
      BY <1>2, <1>5, <2>1
    <3>2. UserProfileIDs(v)' = Of(grant, v) \cup (Of(groupGrant, g) \ Of(withheld, v))
      BY <1>3, <1>4, <1>6, <1>7, <2>1, <3>1 DEF UserProfileIDs, DetachedFrom
    <3> QED  BY <2>1, <3>1, <3>2 DEF UserProfileIDs
  <2>2. CASE v \notin S
    <3>1. groupOf[v] # g /\ groupOf'[v] = groupOf[v]
      BY <1>2, <1>5, <2>2
    <3> QED  BY <1>4, <1>6, <2>2, <3>1 DEF UserProfileIDs, DetachedFrom
  <2> QED  BY <2>1, <2>2
<1>13. ASSUME NEW h \in Groups, h # g
       PROVE  GroupObjects(h)' = GroupObjects(h) /\ Of(groupGrant, h)' = Of(groupGrant, h)
  BY <1>2, <1>6, <1>13 DEF GroupObjects
<1>14. CASE S = {}
  <2>1. groupOf' = groupOf
    BY <1>2, <1>5, <1>14 DEF GrantsHeld, RowsOwned
  <2>2. \A v \in Users : /\ May(v)' = May(v) /\ UserProfileIDs(v)' = UserProfileIDs(v)
                        /\ EffectiveRulesetID(v)' = EffectiveRulesetID(v)
    BY <1>9, <1>11, <1>12, <1>14 DEF SameCarries
  <2>3. Ent!ENext
    BY <1>2, <1>10, <1>13, <2>1, <2>2, DecideGroupPromised
  <2> QED  BY <1>8, <1>9, <1>10, <2>3 DEF GrantsHeld
<1>15. CASE S # {}
  <2>1. groupOf' = [u \in Users |-> IF u \in S THEN NoGroup ELSE groupOf[u]]
    BY <1>2, <1>5
  <2>2. SameMay /\ S \in SUBSET Users /\ \A u \in S : groupOf[u] = g
    BY <1>3, <1>5, <1>11 DEF SameMay
  <2>3. GroupObjects(g)' = {} /\ Of(groupGrant, g)' = {}
    BY <1>2, <1>6 DEF GroupObjects
  <2>4. Ent!ENext
    BY <1>2, <1>3, <1>9, <1>10, <1>12, <1>13, <1>15, <2>1, <2>2, <2>3, LeavePromised
  <2> QED  BY <1>8, <1>9, <1>10, <2>4 DEF GrantsHeld
<1> QED  BY <1>14, <1>15

\* Rows of one owner removed.
LEMMA WithoutOf ==
    ASSUME NEW T, NEW u
    PROVE  /\ Of(Without(T, u), u) = {} /\ Without(T, u) \subseteq T
           /\ \A v : v # u => Of(Without(T, u), v) = Of(T, v)
           /\ \A t \in Without(T, u) : t[1] # u
BY DEF Of, Without

\* A deleted subscriber takes everything along.
LEMMA DeleteUserStep ==
    ASSUME GrantsHeld, NEW q \in Requests, DeleteUser(q) PROVE GrantsHeld' /\ Ent!ENext
<1>1. PICK r : r = request[q] /\ RequestShaped(r)
  BY DEF GrantsHeld, RequestsShaped
<1>2. PICK u : u = r.user
  OBVIOUS
<1>3. /\ r.op = "delete" /\ users' = users \ {u} /\ groupOf' = [groupOf EXCEPT ![u] = NoGroup]
      /\ grant' = Without(grant, u) /\ withheld' = Without(withheld, u)
      /\ deny' = Without(deny, u) /\ allow' = Without(allow, u)
      /\ ruleset' = [ruleset EXCEPT ![u] = NoRules] /\ rulesetNone' = rulesetNone \ {u}
      /\ groups' = groups /\ objects' = objects /\ groupGrant' = groupGrant /\ groupDeny' = groupDeny
      /\ groupRuleset' = groupRuleset
  BY <1>1, <1>2 DEF DeleteUser
<1>4. u \in Users
  BY <1>1, <1>2, <1>3 DEF RequestShaped
<1>5. PICK j : GoesOn(q, j) /\ RequestShaped(j) /\ j.op \in {"idle", "apply"}
  <2>1. Apply(q, r.nodes) \/ End(q)
    BY <1>1, <1>2 DEF DeleteUser
  <2> QED  BY <2>1, ApplyEnding, EndEnding DEF GrantsHeld, Ending
<1>6. RequestsShaped' /\ Editors' = Editors
  BY <1>1, <1>3, <1>5, ShapeKept, EditorsStay DEF GrantsHeld
<1>7. /\ grant' \subseteq users' \X Profiles /\ withheld' \subseteq users' \X Profiles
      /\ deny' \subseteq users' \X objects' /\ allow' \subseteq users' \X objects'
  BY <1>3, WithoutOf DEF GrantsHeld, RowsOwned
<1>8. RowsOwned'
  BY <1>3, <1>4, <1>7 DEF GrantsHeld, RowsOwned
<1>9. RulesOwned'
  BY <1>3, <1>4 DEF GrantsHeld, RulesOwned
<1>10. groupOf'[u] = NoGroup /\ \A v \in Users : v # u => groupOf'[v] = groupOf[v]
  BY <1>3, <1>4 DEF GrantsHeld, RowsOwned
<1>11. Of(groupGrant, NoGroup) = {}
  BY NoGroupDecides DEF GrantsHeld
<1>12. ruleset'[u] = NoRules /\ \A w \in Users : w # u => ruleset'[w] = ruleset[w]
  BY <1>3, <1>4 DEF GrantsHeld, RulesOwned
<1>13. May(u)' = {} /\ UserProfileIDs(u)' = {} /\ EffectiveRulesetID(u)' = NoRules
  BY <1>3, <1>10, <1>11, <1>12, WithoutOf DEF UserProfileIDs, May, EffectiveRulesetID
<1>14. ASSUME NEW v \in Users \ {u}
       PROVE  /\ May(v)' = May(v) /\ UserProfileIDs(v)' = UserProfileIDs(v)
              /\ EffectiveRulesetID(v)' = EffectiveRulesetID(v)
  <2>1. v # u /\ groupOf'[v] = groupOf[v] /\ ruleset'[v] = ruleset[v]
    BY <1>10, <1>12
  <2>2. /\ Of(grant', v) = Of(grant, v) /\ Of(withheld', v) = Of(withheld, v)
        /\ Of(deny', v) = Of(deny, v) /\ Of(allow', v) = Of(allow, v)
    BY <1>3, <2>1, WithoutOf
  <2>3. May(v)' = May(v)
    BY <1>3, <2>1, <2>2 DEF May, effectiveDenies
  <2>4. UserProfileIDs(v)' = UserProfileIDs(v)
    BY <1>3, <2>1, <2>2 DEF UserProfileIDs
  <2>5. EffectiveRulesetID(v)' = EffectiveRulesetID(v)
    BY <1>3, <2>1 DEF EffectiveRulesetID
  <2> QED  BY <2>3, <2>4, <2>5
<1>15. SameOffers
  BY <1>3 DEF SameOffers, GroupObjects
<1>16. Ent!ENext
  BY <1>3, <1>4, <1>6, <1>13, <1>14, <1>15, UnsubscribePromised
<1> QED  BY <1>6, <1>8, <1>9, <1>16 DEF GrantsHeld

\* A move: into a group, which then decides everything, out of one, keeping what it decided, or
\* nothing.
LEMMA MoveUserStep ==
    ASSUME GrantsHeld, NEW q \in Requests, MoveUser(q)
    PROVE  GrantsHeld' /\ (Ent!ENext \/ UNCHANGED Ent!evars)
<1>1. PICK r : r = request[q] /\ RequestShaped(r)
  BY DEF GrantsHeld, RequestsShaped
<1>2. PICK u, g : u = r.user /\ g = r.group
  OBVIOUS
<1>3. /\ r.op = "move" /\ users' = users /\ groups' = groups /\ objects' = objects
      /\ groupGrant' = groupGrant /\ groupDeny' = groupDeny /\ rulesetNone' = rulesetNone
      /\ groupRuleset' = groupRuleset /\ rulesets' = rulesets
  BY <1>1, <1>2 DEF MoveUser
<1>4. u \in Users
  BY <1>1, <1>2, <1>3 DEF RequestShaped
<1>5. CASE ~ (u \in users /\ g \in groups \cup {NoGroup})
  <2>1. UNCHANGED <<groupOf, grant, withheld, deny, allow, ruleset>> /\ End(q)
    BY <1>1, <1>2, <1>5 DEF MoveUser
  <2>2. UNCHANGED tables
    BY <1>3, <2>1 DEF tables
  <2>3. PICK j : GoesOn(q, j) /\ Ending(j, {})
    BY <2>1, EndEnding
  <2> QED  BY <1>1, <1>3, <2>2, <2>3, RequestOnly DEF Ending
<1>6. CASE u \in users /\ g \in groups \cup {NoGroup}
  <2>1. SetUserGroup(u, g) /\ Goto(q, "moved", r.nodes)
    BY <1>1, <1>2, <1>6 DEF MoveUser
  <2>2. PICK j : j = Stage(r, "moved", r.nodes)
    OBVIOUS
  <2>3. GoesOn(q, j)
    BY <1>1, <2>1, <2>2, GotoParts DEF GrantsHeld
  <2>4. RequestShaped(j) /\ j.op = "moved"
    BY <1>1, <1>2, <1>4, <2>2 DEF Stage, RequestShaped
  <2>5. RequestsShaped' /\ Editors' = Editors
    BY <1>1, <1>3, <2>3, <2>4, ShapeKept, EditorsStay DEF GrantsHeld
  <2>6. groupOf' = [groupOf EXCEPT ![u] = g]
    BY <2>1 DEF SetUserGroup
  <2>7. groupOf'[u] = g /\ \A v \in Users : v # u => groupOf'[v] = groupOf[v]
    BY <1>4, <2>6 DEF GrantsHeld, RowsOwned
  <2>8. SameOffers
    BY <1>3 DEF SameOffers, GroupObjects
  <2>9. Of(groupGrant, NoGroup) = {} /\ Of(groupDeny, NoGroup) = {}
    BY NoGroupDecides DEF GrantsHeld
  <2>10. NoGroup \notin groups /\ groups \subseteq Groups
    BY GrantsAssumption DEF GrantsHeld, RowsOwned
  <2>11. CASE g # NoGroup
    <3>1. /\ grant' = Without(grant, u) /\ withheld' = Without(withheld, u)
          /\ deny' = Without(deny, u) /\ allow' = Without(allow, u) /\ ruleset' = ruleset
      BY <2>1, <2>11 DEF SetUserGroup
    <3>2. RowsOwned' /\ RulesOwned'
      <4>1. /\ grant' \subseteq grant /\ withheld' \subseteq withheld
            /\ deny' \subseteq deny /\ allow' \subseteq allow
        BY <3>1, WithoutOf
      <4> QED  BY <1>3, <1>4, <1>6, <2>6, <3>1, <4>1 DEF GrantsHeld, RowsOwned, RulesOwned
    <3>3. May(u)' = GroupObjects(g) /\ UserProfileIDs(u)' = Of(groupGrant, g)
      BY <1>3, <1>6, <2>7, <2>11, <3>1, WithoutOf
      DEF May, GroupObjects, UserProfileIDs, effectiveDenies
    <3>4. ASSUME NEW v \in Users \ {u}
          PROVE  /\ May(v)' = May(v) /\ UserProfileIDs(v)' = UserProfileIDs(v)
                 /\ EffectiveRulesetID(v)' = EffectiveRulesetID(v)
      <4>1. groupOf'[v] = groupOf[v] /\ v # u
        BY <2>7
      <4>2. /\ Of(grant', v) = Of(grant, v) /\ Of(withheld', v) = Of(withheld, v)
            /\ Of(deny', v) = Of(deny, v) /\ Of(allow', v) = Of(allow, v)
        BY <3>1, <4>1, WithoutOf
      <4>3. May(v)' = May(v)
        BY <1>3, <4>1, <4>2 DEF May, effectiveDenies
      <4>4. UserProfileIDs(v)' = UserProfileIDs(v)
        BY <1>3, <4>1, <4>2 DEF UserProfileIDs
      <4>5. EffectiveRulesetID(v)' = EffectiveRulesetID(v)
        BY <1>3, <3>1, <4>1 DEF EffectiveRulesetID
      <4> QED  BY <4>3, <4>4, <4>5
    <3>5. Ent!ENext
      BY <1>3, <1>4, <1>6, <2>5, <2>6, <2>8, <2>10, <2>11, <3>3, <3>4, JoinPromised DEF GrantsHeld
    <3> QED  BY <2>5, <3>2, <3>5 DEF GrantsHeld
  <2>12. CASE g = NoGroup /\ groupOf[u] # NoGroup
    <3>1. PICK h : h = groupOf[u]
      OBVIOUS
    <3>2. detachUser({u}, h) /\ h \in groups /\ h # NoGroup
      BY <1>4, <2>1, <2>12, <3>1 DEF SetUserGroup, GrantsHeld, RowsOwned
    <3>3. DetachedFrom({u}, h)
      BY <1>6, <3>2, DetachParts DEF GrantsHeld
    <3>4. OutOf({u}, h)
      <4>1. \A v \in {u} : groupOf[v] = h /\ groupOf'[v] = NoGroup
        BY <2>7, <2>12, <3>1
      <4>2. \A v \in Users \ {u} :
                /\ groupOf'[v] = groupOf[v]
                /\ groupOf[v] # NoGroup => groupRuleset'[groupOf[v]] = groupRuleset[groupOf[v]]
        BY <1>3, <2>7
      <4>3. {u} \subseteq users /\ users \subseteq Users /\ Over(groupRuleset', Groups)
        BY <1>3, <1>6 DEF GrantsHeld, RowsOwned, RulesOwned, Over
      <4> QED  BY <1>3, <3>2, <4>1, <4>2, <4>3 DEF OutOf
    <3>5. SameCarries /\ RulesOwned'
      BY <3>2, <3>4, DetachRules DEF GrantsHeld
    <3>6. RowsOwned'
      BY <1>3, <1>4, <2>6, <2>12, <3>3 DEF DetachedFrom, GrantsHeld, RowsOwned
    <3>7. SameMay
      <4>1. ASSUME NEW v \in Users PROVE May(v)' = May(v)
        <5>1. CASE v = u
          <6>1. effectiveDenies(v)' = Of(deny, v) \cup (Of(groupDeny, h) \ Of(allow, v))
            BY <1>3, <2>7, <2>9, <2>12, <3>3, <5>1 DEF effectiveDenies, DetachedFrom
          <6> QED  BY <1>3, <3>1, <5>1, <6>1 DEF May, effectiveDenies
        <5>2. CASE v # u
          BY <1>3, <2>7, <3>3, <5>2 DEF May, effectiveDenies, DetachedFrom
        <5> QED  BY <5>1, <5>2
      <4> QED  BY <4>1 DEF SameMay
    <3>8. UserProfileIDs(u) \subseteq UserProfileIDs(u)'
      <4>1. UserProfileIDs(u)' = Of(grant, u) \cup (Of(groupGrant, h) \ Of(withheld, u))
        BY <1>3, <2>7, <2>9, <2>12, <3>3 DEF UserProfileIDs, DetachedFrom
      <4> QED  BY <3>1, <4>1 DEF UserProfileIDs
    <3>9. \A v \in Users \ {u} : UserProfileIDs(v)' = UserProfileIDs(v)
      BY <1>3, <2>7, <3>3 DEF UserProfileIDs, DetachedFrom
    <3>10. /\ h \in Groups /\ {u} \in SUBSET Users /\ {u} # {} /\ \A v \in {u} : groupOf[v] = h
           /\ groupOf' = [v \in Users |-> IF v \in {u} THEN NoGroup ELSE groupOf[v]]
      BY <1>4, <2>6, <2>10, <2>12, <3>1, <3>2 DEF GrantsHeld, RowsOwned
    <3>11. Ent!ENext
      <4>1. \A v \in {u} : UserProfileIDs(v) \subseteq UserProfileIDs(v)'
        BY <3>8
      <4>2. \A i \in Groups \ {h} : GroupObjects(i)' = GroupObjects(i) /\ Of(groupGrant, i)' = Of(groupGrant, i)
        BY <2>8 DEF SameOffers
      <4>3. GroupObjects(h)' = GroupObjects(h) /\ Of(groupGrant, h)' = Of(groupGrant, h)
        BY <2>8, <3>10 DEF SameOffers
      <4> QED  BY <1>3, <2>5, <3>2, <3>5, <3>7, <3>9, <3>10, <4>1, <4>2, <4>3, LeavePromised
    <3> QED  BY <2>5, <3>5, <3>6, <3>11 DEF GrantsHeld
  <2>13. CASE g = NoGroup /\ groupOf[u] = NoGroup
    <3>1. UNCHANGED <<grant, withheld, deny, allow, ruleset>>
      BY <2>1, <2>13 DEF SetUserGroup
    <3>2. groupOf' = groupOf
      BY <1>4, <2>6, <2>13 DEF GrantsHeld, RowsOwned
    <3>3. UNCHANGED tables
      BY <1>3, <3>1, <3>2 DEF tables
    <3> QED  BY <1>1, <1>3, <2>3, <2>4, <3>3, RequestOnly
  <2> QED  BY <2>11, <2>12, <2>13
<1> QED  BY <1>5, <1>6

-----------------------------------------------------------------------------
(* Decisions *)

\* A group's refusals reach its members.
LEMMA GroupAccessStep ==
    ASSUME GrantsHeld, NEW g \in Groups, NEW no, setGroupNodeAccess(g, no) PROVE GrantsHeld' /\ Ent!ENext
<1>1. /\ g \in groups /\ no \subseteq objects /\ groupDeny' = Without(groupDeny, g) \cup ({g} \X no)
      /\ users' = users /\ groups' = groups /\ objects' = objects /\ groupOf' = groupOf
      /\ request' = request /\ grant' = grant /\ withheld' = withheld /\ deny' = deny /\ allow' = allow
      /\ groupGrant' = groupGrant /\ ruleset' = ruleset /\ rulesetNone' = rulesetNone
      /\ groupRuleset' = groupRuleset
  BY DEF setGroupNodeAccess, decided
<1>2. groupDeny' \subseteq groups \X objects
  BY <1>1, WithoutOf DEF GrantsHeld, RowsOwned
<1>3. RowsOwned' /\ RulesOwned'
  BY <1>1, <1>2 DEF GrantsHeld, RowsOwned, RulesOwned
<1>4. RequestsShaped' /\ Editors' = Editors
  BY <1>1, RequestsStay DEF GrantsHeld
<1>5. \A h : h # g => Of(groupDeny', h) = Of(groupDeny, h)
  BY <1>1 DEF Of, Without
<1>6. \A h \in Groups \ {g} : GroupObjects(h)' = GroupObjects(h) /\ Of(groupGrant, h)' = Of(groupGrant, h)
  BY <1>1, <1>5 DEF GroupObjects
<1>7. ASSUME NEW u \in Users, groupOf[u] # g
      PROVE  /\ May(u)' = May(u) /\ UserProfileIDs(u)' = UserProfileIDs(u)
             /\ EffectiveRulesetID(u)' = EffectiveRulesetID(u)
  BY <1>1, <1>5, <1>7 DEF May, effectiveDenies, UserProfileIDs, EffectiveRulesetID
<1> QED  BY <1>1, <1>3, <1>4, <1>6, <1>7, DecideGroupPromised DEF GrantsHeld

\* Who may use an object: exactly those not refused, group or no group.
LEMMA ObjectUsersStep ==
    ASSUME GrantsHeld, NEW o \in Objects, NEW no \in SUBSET Users, SetObjectUsers(o, no)
    PROVE  GrantsHeld' /\ Ent!ENext
<1>1. PICK B : B = {u \in users : groupOf[u] \in Where(groupDeny, o)}
  OBVIOUS
<1>2. /\ o \in objects
      /\ deny' = {t \in deny : t[2] # o} \cup (((no \cap users) \ B) \X {o})
      /\ allow' = {t \in allow : t[2] # o} \cup ((B \ no) \X {o})
      /\ users' = users /\ groups' = groups /\ objects' = objects /\ groupOf' = groupOf
      /\ request' = request /\ grant' = grant /\ withheld' = withheld /\ groupDeny' = groupDeny
      /\ groupGrant' = groupGrant /\ ruleset' = ruleset /\ rulesetNone' = rulesetNone
      /\ groupRuleset' = groupRuleset
  BY <1>1 DEF SetObjectUsers, setObjectAccess, decided
<1>3. deny' \subseteq users \X objects /\ allow' \subseteq users \X objects
  BY <1>1, <1>2 DEF GrantsHeld, RowsOwned
<1>4. RowsOwned' /\ RulesOwned'
  BY <1>2, <1>3 DEF GrantsHeld, RowsOwned, RulesOwned
<1>5. RequestsShaped' /\ Editors' = Editors
  BY <1>2, RequestsStay DEF GrantsHeld
<1>6. SameHolds /\ SameCarries /\ SameOffers
  BY <1>2 DEF SameHolds, SameCarries, SameOffers, UserProfileIDs, EffectiveRulesetID, GroupObjects
<1>7. PairSet(deny) /\ PairSet(allow) /\ PairSet(groupDeny) /\ PairSet(deny') /\ PairSet(allow')
  BY <1>4, RowsArePairs DEF GrantsHeld, PairSet, RowsOwned
<1>8. ASSUME NEW u \in users PROVE u \in B <=> o \in Of(groupDeny, groupOf[u])
  <2>1. ASSUME u \in B PROVE o \in Of(groupDeny, groupOf[u])
    <3>1. PICK t \in groupDeny : t[2] = o /\ t[1] = groupOf[u]
      BY <1>1, <2>1 DEF Where
    <3>2. t = <<groupOf[u], o>>
      BY <1>7, <3>1 DEF PairSet
    <3> QED  BY <1>7, <3>1, <3>2, OfIff
  <2>2. ASSUME o \in Of(groupDeny, groupOf[u]) PROVE u \in B
    <3>1. PICK t : t = <<groupOf[u], o>> /\ t \in groupDeny
      BY <1>7, <2>2, OfIff
    <3>2. t[2] = o /\ t[1] = groupOf[u]
      BY <3>1
    <3>3. groupOf[u] \in Where(groupDeny, o)
      BY <3>1, <3>2 DEF Where
    <3> QED  BY <1>1, <3>3
  <2> QED  BY <2>1, <2>2
<1>9. PICK S : S = no \cup (Users \ users)
  OBVIOUS
<1>10. ASSUME NEW u \in Users PROVE May(u)' = IF u \in S THEN May(u) \ {o} ELSE May(u) \cup {o}
  <2>1. CASE u \notin users
    BY <1>2, <1>9, <2>1 DEF May
  <2>2. CASE u \in users
    <3>1. ASSUME NEW y, y # o
          PROVE  /\ y \in Of(deny', u) <=> y \in Of(deny, u)
                 /\ y \in Of(allow', u) <=> y \in Of(allow, u)
      <4>1. <<u, y>>[2] = y
        OBVIOUS
      <4>2. <<u, y>> \in deny' <=> <<u, y>> \in deny
        BY <1>2, <3>1, <4>1
      <4>3. <<u, y>> \in allow' <=> <<u, y>> \in allow
        BY <1>2, <3>1, <4>1
      <4> QED  BY <1>7, <4>2, <4>3, OfIff
    <3>2. /\ o \in Of(deny', u) <=> u \in no \ B
          /\ o \in Of(allow', u) <=> u \in B \ no
      <4>1. <<u, o>>[2] = o
        OBVIOUS
      <4>2. <<u, o>> \in deny' <=> u \in no \ B
        BY <1>2, <2>2, <4>1
      <4>3. <<u, o>> \in allow' <=> u \in B \ no
        BY <1>2, <4>1
      <4> QED  BY <1>7, <4>2, <4>3, OfIff
    <3>3. \A y : y # o => (y \in effectiveDenies(u)' <=> y \in effectiveDenies(u))
      BY <1>2, <3>1 DEF effectiveDenies
    <3>4. o \in effectiveDenies(u)' <=> u \in no
      BY <1>2, <1>8, <2>2, <3>2 DEF effectiveDenies
    <3>5. May(u) = objects \ effectiveDenies(u) /\ May(u)' = objects \ effectiveDenies(u)'
      BY <1>2, <2>2 DEF May
    <3> QED  BY <1>2, <1>9, <2>2, <3>3, <3>4, <3>5
  <2> QED  BY <2>1, <2>2
<1>11. S \in SUBSET Users
  BY <1>9
<1>12. Ent!ENext
  BY <1>2, <1>5, <1>6, <1>10, <1>11, DecideObjectPromised
<1> QED  BY <1>4, <1>5, <1>12 DEF GrantsHeld

\* An access editor is saved.
LEMMA SaveStep ==
    ASSUME GrantsHeld, NEW q \in Requests, SetUserNodeAccess(q)
    PROVE  GrantsHeld' /\ (Ent!ENext \/ UNCHANGED Ent!evars)
<1>1. PICK r : r = request[q] /\ RequestShaped(r)
  BY DEF GrantsHeld, RequestsShaped
<1>2. PICK u, g, no : u = r.user /\ g = r.group /\ no = r.members
  OBVIOUS
<1>3. /\ r.op = "access" /\ users' = users /\ groups' = groups /\ objects' = objects
      /\ groupOf' = groupOf /\ grant' = grant /\ withheld' = withheld /\ groupDeny' = groupDeny
      /\ groupGrant' = groupGrant /\ ruleset' = ruleset /\ rulesetNone' = rulesetNone
      /\ groupRuleset' = groupRuleset /\ rulesets' = rulesets /\ End(q)
  BY <1>1 DEF SetUserNodeAccess
<1>4. u \in Users
  BY <1>1, <1>2, <1>3 DEF RequestShaped
<1>5. RequestsShaped'
  BY <1>3, EndEnding, ShapeKept DEF GrantsHeld, Ending
<1>6. SameHolds /\ SameCarries /\ SameOffers
  BY <1>3 DEF SameHolds, SameCarries, SameOffers, UserProfileIDs, EffectiveRulesetID, GroupObjects
<1>7. CASE u \notin users
  <2>1. UNCHANGED <<deny, allow>>
    BY <1>1, <1>2, <1>7 DEF SetUserNodeAccess
  <2>2. UNCHANGED tables
    BY <1>3, <2>1 DEF tables
  <2>3. RowsOwned' /\ RulesOwned'
    BY <2>2 DEF GrantsHeld, RowsOwned, RulesOwned, tables
  <2> QED  BY <1>5, <2>2, <2>3, TablesSame, EditPromised DEF GrantsHeld
<1>8. CASE u \in users
  <2>1. PICK D, A : /\ D = (no \cap objects) \ Of(groupDeny, g)
                    /\ A = (Of(groupDeny, g) \cap objects) \ no
    OBVIOUS
  <2>2. deny' = Without(deny, u) \cup ({u} \X D) /\ allow' = Without(allow, u) \cup ({u} \X A)
    BY <1>1, <1>2, <1>8, <2>1 DEF SetUserNodeAccess, setUserDimension
  <2>3. deny' \subseteq users \X objects /\ allow' \subseteq users \X objects
    BY <1>8, <2>1, <2>2, WithoutOf DEF GrantsHeld, RowsOwned
  <2>4. RowsOwned' /\ RulesOwned'
    BY <1>3, <2>3 DEF GrantsHeld, RowsOwned, RulesOwned
  <2>5. PairSet(deny') /\ PairSet(allow')
    BY <2>3 DEF PairSet
  <2>6. ASSUME NEW y PROVE (y \in Of(deny', u) <=> y \in D) /\ (y \in Of(allow', u) <=> y \in A)
    <3>1. <<u, y>>[1] = u
      OBVIOUS
    <3>2. <<u, y>> \in deny' <=> y \in D
      BY <2>2, <3>1, WithoutOf
    <3>3. <<u, y>> \in allow' <=> y \in A
      BY <2>2, <3>1, WithoutOf
    <3> QED  BY <2>5, <3>2, <3>3, OfIff
  <2>7. ASSUME NEW v, v # u PROVE Of(deny', v) = Of(deny, v) /\ Of(allow', v) = Of(allow, v)
    BY <2>2, <2>7 DEF Of, Without
  <2>8. ASSUME groupOf[u] = g PROVE May(u)' = objects \ no
    <3>1. effectiveDenies(u)' = D \cup (Of(groupDeny, g) \ A)
      BY <1>3, <2>6, <2>8 DEF effectiveDenies
    <3> QED  BY <1>3, <1>8, <2>1, <3>1 DEF May
  <2>9. \A v \in Users \ {u} : May(v)' = May(v)
    BY <1>3, <2>7 DEF May, effectiveDenies
  <2>10. Ent!ENext
    BY <1>1, <1>2, <1>3, <1>4, <1>6, <2>8, <2>9, SavePromised
  <2> QED  BY <1>5, <2>4, <2>10 DEF GrantsHeld
<1> QED  BY <1>7, <1>8

\* Rule sets made, deleted and given.
LEMMA RulesetsStep ==
    ASSUME GrantsHeld, RulesetStep PROVE GrantsHeld' /\ (Ent!ENext \/ UNCHANGED Ent!evars)
<1>1. /\ users' = users /\ groups' = groups /\ objects' = objects /\ groupOf' = groupOf
      /\ grant' = grant /\ withheld' = withheld /\ deny' = deny /\ allow' = allow
      /\ groupGrant' = groupGrant /\ groupDeny' = groupDeny /\ request' = request
  BY DEF RulesetStep, createRuleset, deleteRuleset, setGroupRuleset, setUserRuleset, decided
<1>2. RowsOwned'
  BY <1>1 DEF GrantsHeld, RowsOwned
<1>3. RequestsShaped' /\ Editors' = Editors
  BY <1>1, RequestsStay DEF GrantsHeld
<1>4. SameMay /\ SameHolds /\ SameOffers
  BY <1>1 DEF SameMay, SameHolds, SameOffers, May, effectiveDenies, UserProfileIDs, GroupObjects
<1>5. ASSUME NEW r \in Rulesets, createRuleset(r) PROVE GrantsHeld' /\ UNCHANGED Ent!evars
  <2>1. ruleset' = ruleset /\ rulesetNone' = rulesetNone /\ groupRuleset' = groupRuleset
    BY <1>5 DEF createRuleset
  <2>2. RulesOwned' /\ SameCarries
    BY <1>1, <2>1 DEF GrantsHeld, RulesOwned, SameCarries, EffectiveRulesetID
  <2> QED  BY <1>1, <1>2, <1>3, <1>4, <2>2, NothingPromised DEF GrantsHeld
<1>6. ASSUME NEW r \in Rulesets, deleteRuleset(r) PROVE GrantsHeld' /\ (Ent!ENext \/ UNCHANGED Ent!evars)
  <2>1. /\ ruleset' = [u \in Users |-> IF ruleset[u] = r THEN NoRules ELSE ruleset[u]]
        /\ groupRuleset' = [g \in Groups |-> IF groupRuleset[g] = r THEN NoRules ELSE groupRuleset[g]]
        /\ rulesetNone' = rulesetNone
    BY <1>6 DEF deleteRuleset
  <2>2. RulesOwned'
    BY <1>1, <2>1 DEF GrantsHeld, RulesOwned
  <2>3. ASSUME NEW u \in Users, EffectiveRulesetID(u) # r
        PROVE  EffectiveRulesetID(u)' = EffectiveRulesetID(u)
    <3>1. groupOf[u] # NoGroup => groupOf[u] \in Groups
      BY DEF GrantsHeld, RowsOwned
    <3> QED  BY <1>1, <2>1, <2>3, <3>1 DEF EffectiveRulesetID
  <2> QED  BY <1>1, <1>2, <1>3, <1>4, <2>2, <2>3, DropRulesPromised DEF GrantsHeld
<1>7. ASSUME NEW g \in Groups, NEW r, setGroupRuleset(g, r) PROVE GrantsHeld' /\ Ent!ENext
  <2>1. groupRuleset' = [groupRuleset EXCEPT ![g] = r] /\ ruleset' = ruleset /\ rulesetNone' = rulesetNone
    BY <1>7 DEF setGroupRuleset
  <2>2. RulesOwned'
    BY <1>1, <2>1 DEF GrantsHeld, RulesOwned
  <2>3. ASSUME NEW u \in Users, groupOf[u] # g
        PROVE  /\ May(u)' = May(u) /\ UserProfileIDs(u)' = UserProfileIDs(u)
               /\ EffectiveRulesetID(u)' = EffectiveRulesetID(u)
    <3>1. groupOf[u] # NoGroup => groupOf[u] \in Groups
      BY DEF GrantsHeld, RowsOwned
    <3>2. \A h \in Groups : h # g => groupRuleset'[h] = groupRuleset[h]
      BY <2>1 DEF GrantsHeld, RulesOwned
    <3>3. EffectiveRulesetID(u)' = EffectiveRulesetID(u)
      BY <1>1, <2>1, <2>3, <3>1, <3>2 DEF EffectiveRulesetID
    <3> QED  BY <1>4, <3>3 DEF SameMay, SameHolds
  <2>4. Ent!ENext
    BY <1>1, <1>3, <1>4, <2>3, DecideGroupPromised DEF SameOffers
  <2> QED  BY <1>2, <1>3, <2>2, <2>4 DEF GrantsHeld
<1>8. ASSUME NEW u \in Users, NEW r, NEW none \in BOOLEAN, setUserRuleset(u, r, none)
      PROVE  GrantsHeld' /\ Ent!ENext
  <2>1. PICK x : ruleset' = [ruleset EXCEPT ![u] = x]
    BY <1>8 DEF setUserRuleset
  <2>2. /\ u \in users /\ groupRuleset' = groupRuleset
        /\ rulesetNone' = rulesetNone \cup {u} \/ rulesetNone' = rulesetNone \ {u}
    BY <1>8 DEF setUserRuleset
  <2>3. RulesOwned'
    BY <1>1, <2>1, <2>2 DEF GrantsHeld, RulesOwned
  <2>4. ASSUME NEW v \in Users \ {u}
        PROVE  /\ UserProfileIDs(v)' = UserProfileIDs(v)
               /\ EffectiveRulesetID(v)' = EffectiveRulesetID(v)
    <3>1. ruleset'[v] = ruleset[v] /\ (v \in rulesetNone' <=> v \in rulesetNone)
      BY <2>1, <2>2 DEF GrantsHeld, RulesOwned
    <3>2. EffectiveRulesetID(v)' = EffectiveRulesetID(v)
      BY <1>1, <2>2, <3>1 DEF EffectiveRulesetID
    <3> QED  BY <1>4, <3>2 DEF SameHolds
  <2>5. Ent!ENext
    BY <1>1, <1>3, <1>4, <2>4, DecideUserPromised
  <2> QED  BY <1>2, <1>3, <2>3, <2>5 DEF GrantsHeld
<1> QED  BY <1>5, <1>6, <1>7, <1>8 DEF RulesetStep

-----------------------------------------------------------------------------
(* Handlers of several statements *)

\* A handler begins: it has read, and written nothing.
Begun(q, j) ==
    /\ UNCHANGED tables /\ request[q] = Idle /\ GoesOn(q, j) /\ RequestShaped(j) /\ j.op # "idle"

\* Every handler of several statements begins that way.
LEMMA BeginSteps ==
    ASSUME NEW q \in Requests
    PROVE  /\ \A u \in Users : deleteUser(q, u) => \E j : Begun(q, j) /\ j.op = "delete"
           /\ \A u \in Users : \A g : setUserGroup(q, u, g) => \E j : Begun(q, j) /\ j.op = "move"
           /\ \A u \in Users : \A no : setUserNodeAccess(q, u, no) => \E j : Begun(q, j) /\ j.op = "access"
           /\ \A g \in Groups, p \in Profiles, bind \in BOOLEAN : changeGroupProfile(q, g, p, bind) =>
                 \E j : Begun(q, j) /\ j.op \in {"bindgroup", "unbindgroup"}
           /\ \A u \in Users, p \in Profiles, state \in {"grant", "deny", "inherit"} :
                 setUserProfileAccess(q, u, p, state) =>
                 \E j : Begun(q, j) /\ j.op \in {"grant", "deny", "inherit"}
           /\ \A u \in Users, p \in Profiles : unbindUserProfile(q, u, p) =>
                 \E j : Begun(q, j) /\ j.op = "unbind"
<1> USE DEF Begun, Begin, GoesOn
<1>1. ASSUME NEW u \in Users, deleteUser(q, u) PROVE \E j : Begun(q, j) /\ j.op = "delete"
  <2>1. PICK j : j = [Idle EXCEPT !.op = "delete", !.user = u, !.nodes = NodesForUser(u)]
    OBVIOUS
  <2>2. RequestShaped(j) /\ j.op = "delete"
    BY <2>1 DEF RequestShaped, Idle
  <2> QED  BY <1>1, <2>1, <2>2 DEF deleteUser
<1>2. ASSUME NEW u \in Users, NEW g, setUserGroup(q, u, g) PROVE \E j : Begun(q, j) /\ j.op = "move"
  <2>1. PICK j : j = [Idle EXCEPT !.op = "move", !.user = u, !.group = g,
                                  !.nodes = userCredentialNodes(u)]
    OBVIOUS
  <2>2. RequestShaped(j) /\ j.op = "move"
    BY <2>1 DEF RequestShaped, Idle
  <2> QED  BY <1>2, <2>1, <2>2 DEF setUserGroup
<1>3. ASSUME NEW u \in Users, NEW no, setUserNodeAccess(q, u, no)
      PROVE  \E j : Begun(q, j) /\ j.op = "access"
  <2>1. PICK j : j = [Idle EXCEPT !.op = "access", !.user = u, !.group = groupOf[u], !.members = no]
    OBVIOUS
  <2>2. RequestShaped(j) /\ j.op = "access"
    BY <2>1 DEF RequestShaped, Idle
  <2> QED  BY <1>3, <2>1, <2>2 DEF setUserNodeAccess
<1>4. ASSUME NEW g \in Groups, NEW p \in Profiles, NEW bind \in BOOLEAN, changeGroupProfile(q, g, p, bind)
      PROVE  \E j : Begun(q, j) /\ j.op \in {"bindgroup", "unbindgroup"}
  <2>1. PICK op : op = IF bind THEN "bindgroup" ELSE "unbindgroup"
    OBVIOUS
  <2>2. PICK j : j = [Idle EXCEPT !.op = op, !.group = g, !.profile = p, !.members = GroupMemberIDs(g)]
    OBVIOUS
  <2>3. op \in {"bindgroup", "unbindgroup"}
    BY <2>1
  <2>4. RequestShaped(j) /\ j.op = op /\ op # "idle"
    BY <2>2, <2>3 DEF RequestShaped, Idle
  <2> QED  BY <1>4, <2>1, <2>2, <2>3, <2>4 DEF changeGroupProfile
<1>5. ASSUME NEW u \in Users, NEW p \in Profiles, NEW state \in {"grant", "deny", "inherit"},
             setUserProfileAccess(q, u, p, state)
      PROVE  \E j : Begun(q, j) /\ j.op \in {"grant", "deny", "inherit"}
  <2>1. PICK m : m = IF p \in UserProfileIDs(u) THEN {u} ELSE {}
    OBVIOUS
  <2>2. PICK j : j = [Idle EXCEPT !.op = state, !.user = u, !.profile = p, !.members = m]
    OBVIOUS
  <2>3. RequestShaped(j) /\ j.op = state
    BY <2>2 DEF RequestShaped, Idle
  <2> QED  BY <1>5, <2>1, <2>2, <2>3 DEF setUserProfileAccess
<1>6. ASSUME NEW u \in Users, NEW p \in Profiles, unbindUserProfile(q, u, p)
      PROVE  \E j : Begun(q, j) /\ j.op = "unbind"
  <2>1. PICK j : j = [Idle EXCEPT !.op = "unbind", !.user = u, !.profile = p,
                                  !.nodes = NodesForUserProfile(u, p)]
    OBVIOUS
  <2>2. RequestShaped(j) /\ j.op = "unbind"
    BY <2>1 DEF RequestShaped, Idle
  <2> QED  BY <1>6, <2>1, <2>2 DEF unbindUserProfile
<1> QED  BY <1>1, <1>2, <1>3, <1>4, <1>5, <1>6

\* Nothing is promised when a handler begins.
LEMMA BegunStep ==
    ASSUME GrantsHeld, NEW q \in Requests, NEW j, Begun(q, j)
    PROVE  GrantsHeld' /\ (Ent!ENext \/ UNCHANGED Ent!evars)
<1>1. RequestsShaped'
  BY ShapeKept DEF GrantsHeld, Begun
<1>2. RowsOwned' /\ RulesOwned'
  BY DEF GrantsHeld, RowsOwned, RulesOwned, Begun, tables
<1>3. Ent!ENext \/ UNCHANGED Ent!evars
  BY TablesSame, EditPromised DEF Begun
<1> QED  BY <1>1, <1>2, <1>3 DEF GrantsHeld

\* Nor when one ends that leaves the tables alone.
LEMMA ReleaseStep ==
    ASSUME GrantsHeld, NEW q \in Requests, UNCHANGED tables, request[q].op # "access",
           NEW ns, Apply(q, ns)
    PROVE  GrantsHeld' /\ UNCHANGED Ent!evars
<1>1. PICK j : GoesOn(q, j) /\ Ending(j, ns)
  BY ApplyEnding DEF GrantsHeld
<1> QED  BY <1>1, RequestOnly DEF Ending

\* A group's access configurations.
LEMMA GroupProfileStep ==
    ASSUME GrantsHeld, NEW q \in Requests, BindGroupProfile(q) \/ UnbindGroupProfile(q)
    PROVE  GrantsHeld' /\ (Ent!ENext \/ UNCHANGED Ent!evars)
<1>1. PICK r : r = request[q] /\ RequestShaped(r)
  BY DEF GrantsHeld, RequestsShaped
<1>2. PICK g, p : g = r.group /\ p = r.profile
  OBVIOUS
<1>3. /\ users' = users /\ groups' = groups /\ objects' = objects /\ groupOf' = groupOf
      /\ grant' = grant /\ withheld' = withheld /\ deny' = deny /\ allow' = allow
      /\ groupDeny' = groupDeny /\ ruleset' = ruleset /\ rulesetNone' = rulesetNone
      /\ groupRuleset' = groupRuleset /\ rulesets' = rulesets /\ r.op \in {"bindgroup", "unbindgroup"}
  BY <1>1 DEF BindGroupProfile, UnbindGroupProfile
<1>4. g \in Groups /\ p \in Profiles
  BY <1>1, <1>2, <1>3 DEF RequestShaped
<1>5. \/ groupGrant' = groupGrant \cup {<<g, p>>} /\ g \in groups
      \/ groupGrant' = groupGrant
      \/ groupGrant' = groupGrant \ {<<g, p>>}
  BY <1>1, <1>2 DEF BindGroupProfile, UnbindGroupProfile
<1>6. PICK j : GoesOn(q, j) /\ RequestShaped(j) /\ j.op # "access"
  <2>1. CASE BindGroupProfile(q)
    <3>1. Apply(q, ReachOf[p]) \/ End(q)
      BY <1>1, <1>2, <2>1 DEF BindGroupProfile
    <3> QED  BY <3>1, ApplyEnding, EndEnding DEF GrantsHeld, Ending
  <2>2. CASE UnbindGroupProfile(q)
    <3>1. Goto(q, "unbound", ReachOf[p])
      BY <1>1, <1>2, <2>2 DEF UnbindGroupProfile
    <3>2. PICK j : j = Stage(r, "unbound", ReachOf[p])
      OBVIOUS
    <3>3. RequestShaped(j) /\ j.op = "unbound"
      BY <1>2, <1>4, <3>2 DEF Stage, RequestShaped
    <3> QED  BY <1>1, <3>1, <3>2, <3>3, GotoParts DEF GrantsHeld
  <2> QED  BY <2>1, <2>2
<1>7. RequestsShaped' /\ Editors' = Editors
  BY <1>1, <1>3, <1>6, ShapeKept, EditorsStay DEF GrantsHeld
<1>8. groupGrant' \subseteq groups \X Profiles
  BY <1>4, <1>5 DEF GrantsHeld, RowsOwned
<1>9. RowsOwned' /\ RulesOwned'
  BY <1>3, <1>8 DEF GrantsHeld, RowsOwned, RulesOwned
<1>10. ASSUME NEW h, h # g PROVE Of(groupGrant', h) = Of(groupGrant, h)
  <2>1. <<g, p>>[1] = g
    OBVIOUS
  <2> QED  BY <1>5, <1>10, <2>1 DEF Of
<1>11. \A h \in Groups \ {g} : GroupObjects(h)' = GroupObjects(h) /\ Of(groupGrant, h)' = Of(groupGrant, h)
  BY <1>3, <1>10 DEF GroupObjects
<1>12. ASSUME NEW u \in Users, groupOf[u] # g
       PROVE  /\ May(u)' = May(u) /\ UserProfileIDs(u)' = UserProfileIDs(u)
              /\ EffectiveRulesetID(u)' = EffectiveRulesetID(u)
  BY <1>3, <1>10, <1>12 DEF May, effectiveDenies, UserProfileIDs, EffectiveRulesetID
<1>13. Ent!ENext
  BY <1>3, <1>4, <1>7, <1>11, <1>12, DecideGroupPromised
<1> QED  BY <1>7, <1>9, <1>13 DEF GrantsHeld

\* A subscriber's own access configurations: one pair comes or goes.
OnePair(u, p) ==
    /\ users' = users /\ groups' = groups /\ objects' = objects /\ groupOf' = groupOf
    /\ deny' = deny /\ allow' = allow /\ groupGrant' = groupGrant
    /\ groupDeny' = groupDeny /\ ruleset' = ruleset /\ rulesetNone' = rulesetNone
    /\ groupRuleset' = groupRuleset
    /\ u \in users \/ (grant' \subseteq grant /\ withheld' \subseteq withheld)
    /\ \A t : t # <<u, p>> => (t \in grant' <=> t \in grant) /\ (t \in withheld' <=> t \in withheld)

\* Such a step is a decision about that subscriber.
LEMMA OnePairStep ==
    ASSUME GrantsHeld, NEW q \in Requests, NEW u \in Users, NEW p \in Profiles, OnePair(u, p),
           NEW j, GoesOn(q, j), RequestShaped(j), request[q].op # "access", j.op # "access"
    PROVE  GrantsHeld' /\ Ent!ENext
<1> USE DEF OnePair
<1>1. RequestsShaped' /\ Editors' = Editors
  BY ShapeKept, EditorsStay DEF GrantsHeld
<1>2. grant' \subseteq users \X Profiles /\ withheld' \subseteq users \X Profiles
  BY DEF GrantsHeld, RowsOwned
<1>3. RowsOwned' /\ RulesOwned'
  BY <1>2 DEF GrantsHeld, RowsOwned, RulesOwned
<1>4. SameMay /\ SameOffers /\ SameCarries
  BY DEF SameMay, SameOffers, SameCarries, May, effectiveDenies, GroupObjects, EffectiveRulesetID
<1>5. ASSUME NEW v \in Users \ {u} PROVE UserProfileIDs(v)' = UserProfileIDs(v)
  <2>1. \A t : t[1] = v => t # <<u, p>>
    OBVIOUS
  <2>2. Of(grant', v) = Of(grant, v) /\ Of(withheld', v) = Of(withheld, v)
    BY <2>1 DEF Of
  <2> QED  BY <2>2 DEF UserProfileIDs
<1>6. Ent!ENext
  BY <1>1, <1>4, <1>5, DecideUserPromised DEF SameCarries
<1> QED  BY <1>1, <1>3, <1>6 DEF GrantsHeld

\* The three states of one pair, and the two older routes.
LEMMA UserProfileStep ==
    ASSUME GrantsHeld, NEW q \in Requests,
           \/ WriteProfileAccess(q) \/ UnbindUserProfile(q)
           \/ \E u \in Users, p \in Profiles : bindUserProfile(q, u, p)
    PROVE  GrantsHeld' /\ (Ent!ENext \/ UNCHANGED Ent!evars)
<1>1. PICK r : r = request[q] /\ RequestShaped(r)
  BY DEF GrantsHeld, RequestsShaped
<1>2. CASE WriteProfileAccess(q)
  <2>1. PICK u, p : u = r.user /\ p = r.profile
    OBVIOUS
  <2>2. r.op \in {"grant", "deny", "inherit"} /\ u \in Users /\ p \in Profiles
    BY <1>1, <1>2, <2>1 DEF WriteProfileAccess, RequestShaped
  <2>3. CASE u \in users
    <3>1. OnePair(u, p)
      BY <1>1, <1>2, <2>1, <2>3 DEF WriteProfileAccess, SetUserProfileAccess, OnePair
    <3>2. Goto(q, "granted", ReachOf[p])
      BY <1>1, <1>2, <2>1, <2>3 DEF WriteProfileAccess
    <3>3. PICK j : j = Stage(r, "granted", ReachOf[p])
      OBVIOUS
    <3>4. RequestShaped(j) /\ j.op = "granted"
      BY <2>1, <2>2, <3>3 DEF Stage, RequestShaped
    <3>5. GoesOn(q, j)
      BY <1>1, <3>2, <3>3, GotoParts DEF GrantsHeld
    <3> QED  BY <1>1, <2>2, <3>1, <3>4, <3>5, OnePairStep
  <2>4. CASE u \notin users
    <3>1. UNCHANGED tables /\ End(q)
      BY <1>1, <1>2, <2>1, <2>4 DEF WriteProfileAccess, tables
    <3>2. PICK j : GoesOn(q, j) /\ Ending(j, {})
      BY <3>1, EndEnding
    <3> QED  BY <1>1, <2>2, <3>1, <3>2, RequestOnly DEF Ending
  <2> QED  BY <2>3, <2>4
<1>3. CASE UnbindUserProfile(q)
  <2>1. PICK u, p : u = r.user /\ p = r.profile
    OBVIOUS
  <2>2. r.op = "unbind" /\ u \in Users /\ p \in Profiles
    BY <1>1, <1>3, <2>1 DEF UnbindUserProfile, RequestShaped
  <2>3. OnePair(u, p) /\ Apply(q, r.nodes)
    BY <1>1, <1>3, <2>1 DEF UnbindUserProfile, OnePair
  <2>4. PICK j : GoesOn(q, j) /\ Ending(j, r.nodes)
    BY <2>3, ApplyEnding DEF GrantsHeld
  <2> QED  BY <1>1, <2>2, <2>3, <2>4, OnePairStep DEF Ending
<1>4. ASSUME NEW u \in Users, NEW p \in Profiles, bindUserProfile(q, u, p)
      PROVE  GrantsHeld' /\ Ent!ENext
  <2>1. OnePair(u, p) /\ request[q] = Idle /\ Apply(q, ReachOf[p])
    BY <1>4 DEF bindUserProfile, OnePair
  <2>2. PICK j : GoesOn(q, j) /\ Ending(j, ReachOf[p])
    BY <2>1, ApplyEnding DEF GrantsHeld
  <2>3. request[q].op # "access"
    BY <2>1 DEF Idle
  <2> QED  BY <2>1, <2>2, <2>3, OnePairStep DEF Ending
<1> QED  BY <1>2, <1>3, <1>4

\* Every step keeps the rows owned, and is one the promise allows or changes nothing of it.
LEMMA GrantsStep ==
    ASSUME GrantsHeld, [GrantsNext]_gvars PROVE GrantsHeld' /\ (Ent!ENext \/ UNCHANGED Ent!evars)
<1>1. CASE RowStep
  <2>1. ASSUME NEW q \in Requests, NEW u \in Users, deleteUser(q, u)
        PROVE  GrantsHeld' /\ (Ent!ENext \/ UNCHANGED Ent!evars)
    BY <2>1, BeginSteps, BegunStep
  <2> QED  BY <1>1, <2>1, CreateUserStep, CreateGroupStep, DeleteGroupStep, DeleteUserStep DEF RowStep
<1>2. CASE MoveStep
  <2>1. ASSUME NEW q \in Requests, NEW u \in Users, NEW g, setUserGroup(q, u, g)
        PROVE  GrantsHeld' /\ (Ent!ENext \/ UNCHANGED Ent!evars)
    BY <2>1, BeginSteps, BegunStep
  <2>2. ASSUME NEW q \in Requests, AfterMove(q) PROVE GrantsHeld' /\ UNCHANGED Ent!evars
    <3>1. UNCHANGED tables /\ request[q].op = "moved"
          /\ Apply(q, request[q].nodes \cup userCredentialNodes(request[q].user))
      BY <2>2 DEF AfterMove
    <3> QED  BY <3>1, ReleaseStep
  <2> QED  BY <1>2, <2>1, <2>2, MoveUserStep DEF MoveStep
<1>3. CASE AccessStep
  <2>1. ASSUME NEW q \in Requests, NEW u \in Users, NEW no, setUserNodeAccess(q, u, no)
        PROVE  GrantsHeld' /\ (Ent!ENext \/ UNCHANGED Ent!evars)
    BY <2>1, BeginSteps, BegunStep
  <2> QED  BY <1>3, <2>1, CreateObjectStep, DeleteObjectStep, ObjectUsersStep, GroupAccessStep, SaveStep
           DEF AccessStep
<1>4. CASE ProfileStep
  <2>1. PICK q \in Requests :
        \/ \E p \in Profiles, g \in Groups, bind \in BOOLEAN : changeGroupProfile(q, g, p, bind)
        \/ \E p \in Profiles, u \in Users :
              \/ \E state \in {"grant", "deny", "inherit"} : setUserProfileAccess(q, u, p, state)
              \/ bindUserProfile(q, u, p) \/ unbindUserProfile(q, u, p)
              \/ \E n \in Nodes : adoptCredential(q, u, p, n)
        \/ BindGroupProfile(q) \/ UnbindGroupProfile(q) \/ DropMembers(q)
        \/ WriteProfileAccess(q) \/ AfterProfileAccess(q) \/ UnbindUserProfile(q)
        \/ \E n \in Nodes : ApplyNode(q, n)
    BY <1>4 DEF ProfileStep
  <2>2. ASSUME NEW p \in Profiles, NEW g \in Groups, NEW bind \in BOOLEAN, changeGroupProfile(q, g, p, bind)
        PROVE  GrantsHeld' /\ (Ent!ENext \/ UNCHANGED Ent!evars)
    <3>1. \E j : Begun(q, j)
      BY <2>2, BeginSteps, Zenon
    <3> QED  BY <3>1, BegunStep
  <2>3. ASSUME NEW p \in Profiles, NEW u \in Users, NEW state \in {"grant", "deny", "inherit"},
               setUserProfileAccess(q, u, p, state)
        PROVE  GrantsHeld' /\ (Ent!ENext \/ UNCHANGED Ent!evars)
    <3>1. \E j : Begun(q, j)
      BY <2>3, BeginSteps
    <3> QED  BY <3>1, BegunStep
  <2>4. ASSUME NEW p \in Profiles, NEW u \in Users, unbindUserProfile(q, u, p)
        PROVE  GrantsHeld' /\ (Ent!ENext \/ UNCHANGED Ent!evars)
    <3>1. \E j : Begun(q, j)
      BY <2>4, BeginSteps
    <3> QED  BY <3>1, BegunStep
  <2>5. ASSUME NEW p \in Profiles, NEW u \in Users, NEW n \in Nodes, adoptCredential(q, u, p, n)
        PROVE  GrantsHeld' /\ UNCHANGED Ent!evars
    <3>1. UNCHANGED tables /\ request[q].op # "access" /\ Apply(q, {n})
      BY <2>5 DEF adoptCredential, Idle
    <3> QED  BY <3>1, ReleaseStep
  <2>6. CASE DropMembers(q)
    <3>1. UNCHANGED tables /\ request[q].op # "access" /\ Apply(q, request[q].nodes)
      BY <2>6 DEF DropMembers
    <3> QED  BY <3>1, ReleaseStep
  <2>7. CASE AfterProfileAccess(q)
    <3>1. UNCHANGED tables /\ request[q].op # "access" /\ Apply(q, request[q].nodes)
      BY <2>7 DEF AfterProfileAccess
    <3> QED  BY <3>1, ReleaseStep
  <2>8. ASSUME NEW n \in Nodes, ApplyNode(q, n) PROVE GrantsHeld' /\ UNCHANGED Ent!evars
    <3>1. UNCHANGED tables /\ request[q].op # "access" /\ Apply(q, request[q].nodes \ {n})
      BY <2>8 DEF ApplyNode
    <3> QED  BY <3>1, ReleaseStep
  <2> QED  BY <2>1, <2>2, <2>3, <2>4, <2>5, <2>6, <2>7, <2>8, GroupProfileStep, UserProfileStep
<1>5. CASE UNCHANGED gvars
  <2>1. UNCHANGED tables /\ request' = request
    BY <1>5 DEF gvars
  <2>2. RowsOwned' /\ RulesOwned'
    BY <2>1 DEF GrantsHeld, RowsOwned, RulesOwned, tables
  <2>3. RequestsShaped' /\ Editors' = Editors
    BY <2>1, RequestsStay DEF GrantsHeld
  <2> QED  BY <2>1, <2>2, <2>3, TablesSame, NothingPromised DEF GrantsHeld
<1> QED  BY <1>1, <1>2, <1>3, <1>4, <1>5, RulesetsStep DEF GrantsNext

\* Nothing is promised to begin with.
LEMMA GrantsInitial == GrantsInit => GrantsHeld /\ Ent!EInit
<1> SUFFICES ASSUME GrantsInit PROVE GrantsHeld /\ Ent!EInit
  OBVIOUS
<1>1. RowsOwned /\ RulesOwned
  BY DEF GrantsInit, RowsOwned, RulesOwned
<1>2. RequestsShaped
  BY IdleShaped DEF GrantsInit, RequestsShaped
<1>3. \A x : Of({}, x) = {}
  BY DEF Of
<1>4. \A u \in Users : May(u) = {} /\ UserProfileIDs(u) = {} /\ EffectiveRulesetID(u) = NoRules
  BY <1>3 DEF GrantsInit, May, UserProfileIDs, EffectiveRulesetID
<1>5. \A g \in Groups : GroupObjects(g) = {} /\ Of(groupGrant, g) = {}
  BY <1>3 DEF GrantsInit, GroupObjects
<1>6. Editors = {}
  BY DEF GrantsInit, Editors, Idle
<1>7. Ent!EInit
  BY <1>4, <1>5, <1>6 DEF Ent!EInit, GrantsInit, May, GroupObjects, Editors
<1> QED  BY <1>1, <1>2, <1>7 DEF GrantsHeld

\* The tables and handlers of store/group.go, store/user.go and api/group.go implement the promise
\* of Entitlement, for any number of subscribers, groups, objects, rule sets and requests.
THEOREM KeepsThePromise == GrantsSpec => ImplementsEntitlement
<1>1. GrantsInit => GrantsHeld /\ Ent!EInit
  BY GrantsInitial
<1>2. GrantsHeld /\ [GrantsNext]_gvars => GrantsHeld' /\ [Ent!ENext]_(Ent!evars)
  BY GrantsStep
<1> QED  BY <1>1, <1>2, PTL DEF GrantsSpec, ImplementsEntitlement, Ent!ESpec

-----------------------------------------------------------------------------
(* A grant reaches its nodes *)

\* The handler still has node n to assemble for subscriber u, or has yet to collect the nodes.
Bears(r, u, n) ==
    \/ r.op \in {"apply", "granted"} /\ n \in r.nodes
    \/ r.op = "moved" /\ r.user = u

\* Nothing is granted to and withheld from the same subscriber: what leaving a group keeps is
\* what was held in it.
NeverBoth == \A u \in Users : Of(grant, u) \cap Of(withheld, u) = {}

\* What is held is installed, or a handler in flight will see to it.
Reaches ==
    \A u \in users : \A p \in UserProfileIDs(u) : \A n \in ReachOf[p] :
        <<u, p>> \in config[n] \/ \E q \in Requests : Bears(request[q], u, n)

GrantsReach == GrantsHeld /\ NeverBoth /\ Over(config, Nodes) /\ Reaches

\* The tables that decide what is held, and the configs, stay.
HoldingStays ==
    /\ users' = users /\ groupOf' = groupOf /\ grant' = grant /\ withheld' = withheld
    /\ groupGrant' = groupGrant /\ config' = config

\* What is held after a step was held before it, by the same subscribers.
NothingGained == \A u \in users' : u \in users /\ UserProfileIDs(u)' \subseteq UserProfileIDs(u)

\* A handler passes its burden on.
PassedOn(q, j) == \A u, n : Bears(request[q], u, n) => Bears(j, u, n)

\* What is held stays the same with the tables it is read from.
LEMMA HoldingSame == ASSUME HoldingStays PROVE NothingGained /\ (NeverBoth => NeverBoth')
BY DEF HoldingStays, NothingGained, UserProfileIDs, NeverBoth

\* Handlers that have read and not written bear nothing.
LEMMA LightBurden ==
    ASSUME NEW r, r.op \notin {"apply", "granted", "moved"}, NEW u, NEW n PROVE ~Bears(r, u, n)
BY DEF Bears

\* A step that gives nothing and in which every handler keeps its burden.
LEMMA BurdensKept ==
    ASSUME Reaches, NothingGained, config' = config,
           \A q \in Requests : \A u, n : Bears(request[q], u, n) => Bears(request'[q], u, n)
    PROVE  Reaches'
<1>1. ASSUME NEW u \in users', NEW p \in UserProfileIDs(u)', NEW n \in ReachOf[p]
      PROVE  <<u, p>> \in config'[n] \/ \E q \in Requests : Bears(request'[q], u, n)
  <2>1. u \in users /\ p \in UserProfileIDs(u)
    BY DEF NothingGained
  <2>2. <<u, p>> \in config[n] \/ \E q \in Requests : Bears(request[q], u, n)
    BY <2>1, Zenon DEF Reaches
  <2> QED  BY <2>2
<1> QED  BY <1>1 DEF Reaches, UserProfileIDs, Bears

\* One handler goes on, and passes its burden on.
LEMMA OneGoesOn ==
    ASSUME GrantsReach, NothingGained, config' = config, NEW q \in Requests, NEW j, GoesOn(q, j),
           PassedOn(q, j)
    PROVE  Reaches'
<1>1. request'[q] = j /\ \A p \in Requests : p # q => request'[p] = request[p]
  BY DEF GoesOn, GrantsReach, GrantsHeld, RequestsShaped
<1>2. \A p \in Requests : \A u, n : Bears(request[p], u, n) => Bears(request'[p], u, n)
  BY <1>1 DEF PassedOn
<1> QED  BY <1>2, BurdensKept DEF GrantsReach

\* What is held is one of the profiles, whose nodes are known.
LEMMA HeldIsBound ==
    ASSUME RowsOwned, NEW u \in users, NEW p \in UserProfileIDs(u)
    PROVE  p \in Profiles /\ ReachOf[p] \subseteq Nodes
<1>1. Of(grant, u) \subseteq Profiles /\ Of(groupGrant, groupOf[u]) \subseteq Profiles
  BY DEF RowsOwned, Of
<1> QED  BY <1>1, GrantsAssumption DEF UserProfileIDs

\* A node that is assembled has everybody who holds an access configuration on it.
LEMMA AssembledHolds ==
    ASSUME RowsOwned, NEW u \in users, NEW p \in UserProfileIDs(u), NEW n \in ReachOf[p]
    PROVE  <<u, p>> \in Assembled(n)
<1>1. p \in Profiles
  BY HeldIsBound
<1>2. PairSet(grant) /\ PairSet(withheld) /\ PairSet(groupGrant)
  BY RowsArePairs
<1>3. ASSUME NEW T, PairSet(T), NEW x, NEW y PROVE x \in Where(T, y) <=> <<x, y>> \in T
  <2>1. <<x, y>>[1] = x /\ <<x, y>>[2] = y
    OBVIOUS
  <2> QED  BY <1>3, <2>1 DEF Where, PairSet
<1>4. <<u, p>> \notin withheld /\ (<<u, p>> \in grant \/ <<groupOf[u], p>> \in groupGrant)
  BY <1>2, OfIff DEF UserProfileIDs
<1>5. u \in ProfileUserIDs(p)
  BY <1>2, <1>3, <1>4 DEF ProfileUserIDs
<1> QED  BY <1>1, <1>5 DEF Assembled

\* Steps that leave alone what is held, in which at most one handler moves.
LEMMA HoldingStaysStep ==
    ASSUME GrantsReach, GrantsHeld', HoldingStays,
           request' = request \/ \E q \in Requests : \E j : GoesOn(q, j) /\ PassedOn(q, j)
    PROVE  GrantsReach'
<1>1. NothingGained /\ NeverBoth'
  BY HoldingSame DEF GrantsReach
<1>2. config' = config /\ Over(config', Nodes)
  BY DEF HoldingStays, GrantsReach
<1>3. CASE request' = request
  <2>1. Reaches'
    BY <1>1, <1>2, <1>3, BurdensKept DEF GrantsReach
  <2> QED  BY <1>1, <1>2, <2>1 DEF GrantsReach
<1>4. ASSUME NEW q \in Requests, NEW j, GoesOn(q, j), PassedOn(q, j) PROVE GrantsReach'
  <2>1. Reaches'
    BY <1>1, <1>2, <1>4, OneGoesOn
  <2> QED  BY <1>1, <1>2, <2>1 DEF GrantsReach
<1> QED  BY <1>3, <1>4

\* Handlers that begin.
LEMMA BegunReach ==
    ASSUME GrantsReach, GrantsHeld', config' = config, NEW q \in Requests, NEW j, Begun(q, j)
    PROVE  GrantsReach'
<1>1. HoldingStays /\ GoesOn(q, j)
  BY DEF Begun, tables, HoldingStays
<1>2. \A u, n : ~Bears(request[q], u, n)
  BY LightBurden DEF Begun, Idle
<1>3. PassedOn(q, j)
  BY <1>2 DEF PassedOn
<1> QED  BY <1>1, <1>3, HoldingStaysStep

\* Handlers that release credentials and go on to their nodes.
LEMMA ReleaseReach ==
    ASSUME GrantsReach, GrantsHeld', UNCHANGED tables, config' = config, NEW q \in Requests,
           request[q].op # "moved", NEW ns, Apply(q, ns),
           request[q].op \in {"apply", "granted"} => ns = request[q].nodes
    PROVE  GrantsReach'
<1>1. PICK j : GoesOn(q, j) /\ Ending(j, ns)
  BY ApplyEnding DEF GrantsReach, GrantsHeld
<1>2. PassedOn(q, j)
  BY <1>1 DEF PassedOn, Bears, Ending
<1>3. HoldingStays
  BY DEF tables, HoldingStays
<1> QED  BY <1>1, <1>2, <1>3, HoldingStaysStep

\* Rows that come and go, but for subscribers and groups with something to keep.
LEMMA RowsReach ==
    ASSUME GrantsReach, GrantsHeld',
           \/ \E g \in Groups : createGroup(g)
           \/ \E o \in Objects : createObject(o) \/ deleteObject(o)
           \/ \E o \in Objects, S \in SUBSET Users : SetObjectUsers(o, S)
           \/ \E g \in Groups, S \in SUBSET Objects : setGroupNodeAccess(g, S)
           \/ RulesetStep
    PROVE  GrantsReach'
<1>1. HoldingStays /\ request' = request
  BY DEF createGroup, createObject, deleteObject, SetObjectUsers, setGroupNodeAccess, RulesetStep,
         createRuleset, deleteRuleset, setGroupRuleset, setUserRuleset, decided, HoldingStays
<1> QED  BY <1>1, HoldingStaysStep

\* An access editor that is stored.
LEMMA SaveReach ==
    ASSUME GrantsReach, GrantsHeld', NEW q \in Requests, SetUserNodeAccess(q) PROVE GrantsReach'
<1>1. HoldingStays /\ request[q].op = "access" /\ GoesOn(q, Idle)
  BY DEF SetUserNodeAccess, End, GoesOn, HoldingStays
<1>2. PassedOn(q, Idle)
  BY <1>1, LightBurden DEF PassedOn
<1> QED  BY <1>1, <1>2, HoldingStaysStep

\* A new subscriber holds nothing.
LEMMA CreateUserReach ==
    ASSUME GrantsReach, GrantsHeld', NEW u \in Users, createUser(u) PROVE GrantsReach'
<1>1. /\ u \notin users /\ users' = users \cup {u} /\ groupOf' = groupOf /\ grant' = grant
      /\ withheld' = withheld /\ groupGrant' = groupGrant /\ config' = config /\ request' = request
  BY DEF createUser
<1>2. NeverBoth' /\ Over(config', Nodes)
  BY <1>1 DEF GrantsReach, NeverBoth
<1>3. Of(grant, u) = {} /\ groupOf[u] = NoGroup
  BY <1>1 DEF GrantsReach, GrantsHeld, RowsOwned, Of
<1>4. UserProfileIDs(u) = {}
  BY <1>3, NoGroupDecides DEF GrantsReach, GrantsHeld, UserProfileIDs
<1>5. \A v : UserProfileIDs(v)' = UserProfileIDs(v)
  BY <1>1 DEF UserProfileIDs
<1>6. ASSUME NEW v \in users', NEW p \in UserProfileIDs(v)', NEW n \in ReachOf[p]
      PROVE  <<v, p>> \in config'[n] \/ \E q \in Requests : Bears(request'[q], v, n)
  <2>1. v \in users /\ p \in UserProfileIDs(v)
    BY <1>1, <1>4, <1>5
  <2>2. <<v, p>> \in config[n] \/ \E q \in Requests : Bears(request[q], v, n)
    BY <2>1, Zenon DEF GrantsReach, Reaches
  <2> QED  BY <1>1, <2>2
<1>7. Reaches'
  BY <1>6 DEF Reaches, UserProfileIDs, Bears
<1> QED  BY <1>2, <1>7 DEF GrantsReach

\* What is held now is with the handler, or was held before and not with it.
Entrusted(q, j) ==
    \A u \in users' : \A p \in UserProfileIDs(u)' : \A n \in ReachOf[p] :
        Bears(j, u, n) \/ (u \in users /\ p \in UserProfileIDs(u) /\ ~Bears(request[q], u, n))

\* One handler goes on and takes what is given with it.
LEMMA EntrustedReach ==
    ASSUME GrantsReach, config' = config, NEW q \in Requests, NEW j, GoesOn(q, j), Entrusted(q, j)
    PROVE  Reaches'
<1>1. request'[q] = j /\ \A p \in Requests : p # q => request'[p] = request[p]
  BY DEF GoesOn, GrantsReach, GrantsHeld, RequestsShaped
<1>2. ASSUME NEW u \in users', NEW p \in UserProfileIDs(u)', NEW n \in ReachOf[p]
      PROVE  <<u, p>> \in config'[n] \/ \E k \in Requests : Bears(request'[k], u, n)
  <2>1. CASE Bears(j, u, n)
    BY <1>1, <2>1
  <2>2. CASE ~Bears(j, u, n)
    <3>1. u \in users /\ p \in UserProfileIDs(u) /\ ~Bears(request[q], u, n)
      BY <2>2, Zenon DEF Entrusted
    <3>2. <<u, p>> \in config[n] \/ \E k \in Requests : Bears(request[k], u, n)
      BY <3>1, Zenon DEF GrantsReach, Reaches
    <3> QED  BY <1>1, <3>1, <3>2
  <2> QED  BY <2>1, <2>2
<1> QED  BY <1>2 DEF Reaches, UserProfileIDs, Bears

\* Members of a dissolved group keep what they held, and nothing else.
LEMMA DeleteGroupReach ==
    ASSUME GrantsReach, GrantsHeld', NEW g \in Groups, deleteGroup(g) PROVE GrantsReach'
<1>1. PICK S : S = GroupMemberIDs(g)
  OBVIOUS
<1>2. /\ g \in groups /\ detachUser(S, g) /\ users' = users /\ request' = request /\ config' = config
      /\ groupOf' = [u \in Users |-> IF groupOf[u] = g THEN NoGroup ELSE groupOf[u]]
      /\ groupGrant' = Without(groupGrant, g)
  BY <1>1 DEF deleteGroup
<1>3. S \in SUBSET users /\ users \subseteq Users
  BY <1>1 DEF GroupMemberIDs, GrantsReach, GrantsHeld, RowsOwned
<1>4. DetachedFrom(S, g)
  BY <1>2, <1>3, DetachParts DEF GrantsReach, GrantsHeld
<1>5. \A v \in users : v \in S <=> groupOf[v] = g
  BY <1>1 DEF GroupMemberIDs
<1>6. /\ Of(groupGrant', g) = {} /\ Of(groupGrant, NoGroup) = {}
      /\ \A h : h # g => Of(groupGrant', h) = Of(groupGrant, h)
  BY <1>2, WithoutOf, NoGroupDecides DEF GrantsReach, GrantsHeld
<1>7. NeverBoth'
  BY <1>4 DEF DetachedFrom, NeverBoth, GrantsReach
<1>8. ASSUME NEW v \in users PROVE UserProfileIDs(v)' \subseteq UserProfileIDs(v)
  <2>1. CASE v \in S
    <3>1. groupOf[v] = g /\ groupOf'[v] = NoGroup
      BY <1>2, <1>3, <1>5, <2>1
    <3>2. NoGroup # g
      BY <1>2, GrantsAssumption
    <3>3. UserProfileIDs(v)' = Of(grant, v) \cup (Of(groupGrant, g) \ Of(withheld, v))
      BY <1>4, <1>6, <2>1, <3>1, <3>2 DEF UserProfileIDs, DetachedFrom
    <3>4. Of(grant, v) \cap Of(withheld, v) = {}
      BY <1>3 DEF GrantsReach, NeverBoth
    <3> QED  BY <3>1, <3>3, <3>4 DEF UserProfileIDs
  <2>2. CASE v \notin S
    <3>1. groupOf[v] # g /\ groupOf'[v] = groupOf[v]
      BY <1>2, <1>3, <1>5, <2>2
    <3> QED  BY <1>4, <1>6, <2>2, <3>1 DEF UserProfileIDs, DetachedFrom
  <2> QED  BY <2>1, <2>2
<1>9. NothingGained
  BY <1>2, <1>8 DEF NothingGained
<1>10. Reaches'
  BY <1>2, <1>9, BurdensKept DEF GrantsReach
<1> QED  BY <1>2, <1>7, <1>10 DEF GrantsReach

\* Nobody else is touched when a subscriber is deleted.
LEMMA DeleteUserReach ==
    ASSUME GrantsReach, GrantsHeld', NEW q \in Requests, DeleteUser(q) PROVE GrantsReach'
<1>1. PICK u : u = request[q].user
  OBVIOUS
<1>2. /\ request[q].op = "delete" /\ users' = users \ {u} /\ groupOf' = [groupOf EXCEPT ![u] = NoGroup]
      /\ grant' = Without(grant, u) /\ withheld' = Without(withheld, u)
      /\ groupGrant' = groupGrant /\ config' = config
  BY <1>1 DEF DeleteUser
<1>3. PICK j : GoesOn(q, j)
  <2>1. Apply(q, request[q].nodes) \/ End(q)
    BY <1>1 DEF DeleteUser
  <2> QED  BY <2>1, ApplyEnding, EndEnding DEF GrantsReach, GrantsHeld
<1>4. PassedOn(q, j)
  BY <1>2, LightBurden DEF PassedOn
<1>5. ASSUME NEW v \in users' PROVE v \in users /\ UserProfileIDs(v)' \subseteq UserProfileIDs(v)
  <2>1. v \in users /\ v # u /\ v \in Users
    BY <1>2 DEF GrantsReach, GrantsHeld, RowsOwned
  <2>2. groupOf'[v] = groupOf[v]
    BY <1>2, <2>1 DEF GrantsReach, GrantsHeld, RowsOwned
  <2>3. Of(grant', v) = Of(grant, v) /\ Of(withheld', v) = Of(withheld, v)
    BY <1>2, <2>1, WithoutOf
  <2> QED  BY <1>2, <2>1, <2>2, <2>3 DEF UserProfileIDs
<1>6. NothingGained
  BY <1>5 DEF NothingGained
<1>7. Reaches'
  BY <1>2, <1>3, <1>4, <1>6, OneGoesOn
<1>8. NeverBoth'
  <2>1. ASSUME NEW v \in Users PROVE Of(grant', v) \cap Of(withheld', v) = {}
    <3>1. CASE v = u
      BY <1>2, <3>1, WithoutOf
    <3>2. CASE v # u
      BY <1>2, <3>2, WithoutOf DEF GrantsReach, NeverBoth
    <3> QED  BY <3>1, <3>2
  <2> QED  BY <2>1 DEF NeverBoth
<1> QED  BY <1>2, <1>7, <1>8 DEF GrantsReach

\* A move: the handler has yet to collect the nodes of what the subscriber holds now.
LEMMA MoveUserReach ==
    ASSUME GrantsReach, GrantsHeld', NEW q \in Requests, MoveUser(q) PROVE GrantsReach'
<1>1. PICK r : r = request[q] /\ RequestShaped(r)
  BY DEF GrantsReach, GrantsHeld, RequestsShaped
<1>2. PICK u, g : u = r.user /\ g = r.group
  OBVIOUS
<1>3. r.op = "move" /\ users' = users /\ groupGrant' = groupGrant /\ config' = config
  BY <1>1, <1>2 DEF MoveUser
<1>4. CASE ~ (u \in users /\ g \in groups \cup {NoGroup})
  <2>1. HoldingStays /\ GoesOn(q, Idle)
    BY <1>1, <1>2, <1>3, <1>4 DEF MoveUser, HoldingStays, End, GoesOn
  <2>2. PassedOn(q, Idle)
    BY <1>1, <1>3, LightBurden DEF PassedOn
  <2> QED  BY <2>1, <2>2, HoldingStaysStep
<1>5. CASE u \in users /\ g \in groups \cup {NoGroup}
  <2>1. SetUserGroup(u, g) /\ Goto(q, "moved", r.nodes)
    BY <1>1, <1>2, <1>5 DEF MoveUser
  <2>2. PICK j : j = Stage(r, "moved", r.nodes)
    OBVIOUS
  <2>3. GoesOn(q, j)
    BY <1>1, <2>1, <2>2, GotoParts DEF GrantsReach, GrantsHeld
  <2>4. j.op = "moved" /\ j.user = u
    BY <1>2, <2>2 DEF Stage
  <2>5. groupOf' = [groupOf EXCEPT ![u] = g]
    BY <2>1 DEF SetUserGroup
  <2>6. \A v \in Users : v # u => groupOf'[v] = groupOf[v]
    BY <2>5 DEF GrantsReach, GrantsHeld, RowsOwned
  <2>7. /\ Of(grant', u) \cap Of(withheld', u) = {}
        /\ \A v : v # u => Of(grant', v) = Of(grant, v) /\ Of(withheld', v) = Of(withheld, v)
    <3>1. CASE g # NoGroup
      BY <2>1, <3>1, WithoutOf DEF SetUserGroup
    <3>2. CASE g = NoGroup /\ groupOf[u] # NoGroup
      <4>1. DetachedFrom({u}, groupOf[u])
        BY <1>5, <2>1, <3>2, DetachParts DEF SetUserGroup, GrantsReach, GrantsHeld
      <4> QED  BY <4>1 DEF DetachedFrom
    <3>3. CASE g = NoGroup /\ groupOf[u] = NoGroup
      <4>1. grant' = grant /\ withheld' = withheld /\ u \in Users
        BY <1>5, <2>1, <3>3 DEF SetUserGroup, GrantsReach, GrantsHeld, RowsOwned
      <4> QED  BY <4>1 DEF GrantsReach, NeverBoth
    <3> QED  BY <3>1, <3>2, <3>3
  <2>8. NeverBoth'
    <3>1. \A v \in Users : Of(grant', v) \cap Of(withheld', v) = {}
      BY <2>7 DEF GrantsReach, NeverBoth
    <3> QED  BY <3>1 DEF NeverBoth
  <2>9. Entrusted(q, j)
    <3>1. ASSUME NEW v \in users', NEW p \in UserProfileIDs(v)', NEW n \in ReachOf[p]
          PROVE  Bears(j, v, n) \/ (v \in users /\ p \in UserProfileIDs(v) /\ ~Bears(r, v, n))
      <4>1. CASE v = u
        BY <2>4, <4>1 DEF Bears
      <4>2. CASE v # u
        <5>1. v \in users /\ v \in Users
          BY <1>3 DEF GrantsReach, GrantsHeld, RowsOwned
        <5>2. UserProfileIDs(v)' = UserProfileIDs(v)
          BY <1>3, <2>6, <2>7, <4>2, <5>1 DEF UserProfileIDs
        <5> QED  BY <1>3, <5>1, <5>2, LightBurden
      <4> QED  BY <4>1, <4>2
    <3> QED  BY <1>1, <3>1 DEF Entrusted
  <2>10. Reaches'
    BY <1>3, <2>3, <2>9, EntrustedReach
  <2> QED  BY <1>3, <2>8, <2>10 DEF GrantsReach
<1> QED  BY <1>4, <1>5

\* The nodes are collected from what is held by then.
LEMMA AfterMoveReach ==
    ASSUME GrantsReach, GrantsHeld', NEW q \in Requests, AfterMove(q) PROVE GrantsReach'
<1>1. PICK u, ns : u = request[q].user /\ ns = request[q].nodes \cup userCredentialNodes(u)
  OBVIOUS
<1>2. request[q].op = "moved" /\ Apply(q, ns) /\ UNCHANGED tables /\ config' = config
  BY <1>1 DEF AfterMove
<1>3. PICK j : GoesOn(q, j) /\ Ending(j, ns)
  BY <1>2, ApplyEnding DEF GrantsReach, GrantsHeld
<1>4. HoldingStays
  BY <1>2 DEF tables, HoldingStays
<1>5. ASSUME NEW v \in users', NEW p \in UserProfileIDs(v)', NEW n \in ReachOf[p]
      PROVE  Bears(j, v, n) \/ (v \in users /\ p \in UserProfileIDs(v) /\ ~Bears(request[q], v, n))
  <2>1. v \in users /\ p \in UserProfileIDs(v)
    BY <1>4 DEF HoldingStays, UserProfileIDs
  <2>2. CASE v = u
    <3>1. n \in ns
      BY <1>1, <2>1, <2>2 DEF userCredentialNodes
    <3> QED  BY <1>3, <3>1 DEF Ending, Bears
  <2>3. CASE v # u
    BY <1>1, <1>2, <2>1, <2>3 DEF Bears
  <2> QED  BY <2>2, <2>3
<1>6. Entrusted(q, j)
  BY <1>5 DEF Entrusted
<1>7. Reaches'
  BY <1>2, <1>3, <1>6, EntrustedReach
<1> QED  BY <1>2, <1>4, <1>7, HoldingSame DEF GrantsReach

\* A group's access configuration comes, with all its nodes, or goes.
LEMMA GroupProfileReach ==
    ASSUME GrantsReach, GrantsHeld', NEW q \in Requests, BindGroupProfile(q) \/ UnbindGroupProfile(q)
    PROVE  GrantsReach'
<1>1. PICK g, p : g = request[q].group /\ p = request[q].profile
  OBVIOUS
<1>2. /\ users' = users /\ groupOf' = groupOf /\ grant' = grant /\ withheld' = withheld
      /\ config' = config /\ request[q].op \in {"bindgroup", "unbindgroup"}
  BY DEF BindGroupProfile, UnbindGroupProfile
<1>3. NeverBoth'
  BY <1>2 DEF GrantsReach, NeverBoth
<1>4. CASE groupGrant' = groupGrant \cup {<<g, p>>} /\ Apply(q, ReachOf[p])
  <2>1. PICK j : GoesOn(q, j) /\ Ending(j, ReachOf[p])
    BY <1>4, ApplyEnding DEF GrantsReach, GrantsHeld
  <2>2. ASSUME NEW v \in users', NEW x \in UserProfileIDs(v)', NEW n \in ReachOf[x]
        PROVE  Bears(j, v, n) \/ (v \in users /\ x \in UserProfileIDs(v) /\ ~Bears(request[q], v, n))
    <3>1. CASE x = p
      BY <2>1, <3>1 DEF Ending, Bears
    <3>2. CASE x # p
      <4>1. Of(groupGrant', groupOf[v]) \subseteq Of(groupGrant, groupOf[v]) \cup {p}
        <5>1. <<g, p>>[2] = p
          OBVIOUS
        <5> QED  BY <1>4, <5>1 DEF Of
      <4>2. x \in UserProfileIDs(v)
        BY <1>2, <3>2, <4>1 DEF UserProfileIDs
      <4> QED  BY <1>2, <4>2, LightBurden
    <3> QED  BY <3>1, <3>2
  <2>3. Entrusted(q, j)
    BY <2>2 DEF Entrusted
  <2>4. Reaches'
    BY <1>2, <2>1, <2>3, EntrustedReach
  <2> QED  BY <1>2, <1>3, <2>4 DEF GrantsReach
<1>5. CASE groupGrant' \subseteq groupGrant /\ \E j : GoesOn(q, j)
  <2>1. \A v : Of(groupGrant', groupOf[v]) \subseteq Of(groupGrant, groupOf[v])
    BY <1>5 DEF Of
  <2>2. NothingGained
    BY <1>2, <2>1 DEF NothingGained, UserProfileIDs
  <2>3. PICK j : GoesOn(q, j)
    BY <1>5
  <2>4. PassedOn(q, j)
    BY <1>2, LightBurden DEF PassedOn
  <2>5. Reaches'
    BY <1>2, <2>2, <2>3, <2>4, OneGoesOn
  <2> QED  BY <1>2, <1>3, <2>5 DEF GrantsReach
<1>6. CASE BindGroupProfile(q)
  <2>1. CASE g \in groups
    BY <1>1, <1>4, <1>6, <2>1 DEF BindGroupProfile
  <2>2. CASE g \notin groups
    BY <1>1, <1>5, <1>6, <2>2 DEF BindGroupProfile, End, GoesOn
  <2> QED  BY <2>1, <2>2
<1>7. CASE UnbindGroupProfile(q)
  <2>1. groupGrant' \subseteq groupGrant /\ Goto(q, "unbound", ReachOf[p])
    BY <1>1, <1>7 DEF UnbindGroupProfile
  <2>2. \E j : GoesOn(q, j)
    BY <2>1, GotoParts DEF GrantsReach, GrantsHeld
  <2> QED  BY <1>5, <2>1, <2>2
<1> QED  BY <1>6, <1>7

\* One pair comes, with its nodes, or goes.
LEMMA OnePairReach ==
    ASSUME GrantsReach, GrantsHeld', config' = config, NEW u, NEW p, OnePair(u, p),
           ~(<<u, p>> \in grant' /\ <<u, p>> \in withheld'),
           NEW q \in Requests, NEW j, GoesOn(q, j), request[q].op \notin {"apply", "granted", "moved"},
           \/ j.op \in {"apply", "granted"} /\ j.nodes = ReachOf[p]
           \/ ReachOf[p] = {}
           \/ grant' \subseteq grant /\ withheld' = withheld
    PROVE  GrantsReach'
<1> USE DEF OnePair
<1>1. PairSet(grant) /\ PairSet(withheld) /\ PairSet(grant') /\ PairSet(withheld')
  <2>1. PairSet(grant) /\ PairSet(withheld)
    BY RowsArePairs DEF GrantsReach, GrantsHeld
  <2>2. grant' \subseteq users' \X Profiles /\ withheld' \subseteq users' \X Profiles
    BY DEF GrantsHeld, RowsOwned
  <2> QED  BY <2>1, <2>2 DEF PairSet
<1>2. ASSUME NEW v, NEW x, <<v, x>> # <<u, p>>
      PROVE  /\ x \in Of(grant', v) <=> x \in Of(grant, v)
             /\ x \in Of(withheld', v) <=> x \in Of(withheld, v)
  BY <1>1, <1>2, OfIff
<1>3. ~(p \in Of(grant', u) /\ p \in Of(withheld', u))
  BY <1>1, OfIff
<1>4. NeverBoth'
  <2>1. ASSUME NEW v \in Users, NEW x, x \in Of(grant', v), x \in Of(withheld', v) PROVE FALSE
    <3>1. CASE <<v, x>> = <<u, p>>
      <4>1. v = u /\ x = p
        BY <3>1
      <4> QED  BY <1>3, <2>1, <4>1
    <3>2. CASE <<v, x>> # <<u, p>>
      BY <1>2, <2>1, <3>2 DEF GrantsReach, NeverBoth
    <3> QED  BY <3>1, <3>2
  <2>2. \A v \in Users : Of(grant', v) \cap Of(withheld', v) = {}
    BY <2>1
  <2> QED  BY <2>2 DEF NeverBoth
<1>5. ASSUME NEW v \in users', NEW x \in UserProfileIDs(v)', NEW n \in ReachOf[x]
      PROVE  Bears(j, v, n) \/ (v \in users /\ x \in UserProfileIDs(v) /\ ~Bears(request[q], v, n))
  <2>1. ~Bears(request[q], v, n) /\ v \in users
    BY LightBurden
  <2>2. CASE <<v, x>> = <<u, p>>
    <3>1. v = u /\ x = p
      BY <2>2
    <3>2. CASE j.op \in {"apply", "granted"} /\ j.nodes = ReachOf[p]
      BY <3>1, <3>2 DEF Bears
    <3>3. CASE ReachOf[p] = {}
      BY <3>1, <3>3
    <3>4. CASE grant' \subseteq grant /\ withheld' = withheld
      <4>1. Of(grant', v) \subseteq Of(grant, v)
        BY <3>4 DEF Of
      <4>2. x \in UserProfileIDs(v)
        BY <3>4, <4>1 DEF UserProfileIDs
      <4> QED  BY <2>1, <4>2
    <3> QED  BY <3>2, <3>3, <3>4
  <2>3. CASE <<v, x>> # <<u, p>>
    <3>1. x \in UserProfileIDs(v)
      BY <1>2, <2>3 DEF UserProfileIDs
    <3> QED  BY <2>1, <3>1
  <2> QED  BY <2>2, <2>3
<1>6. Entrusted(q, j)
  BY <1>5 DEF Entrusted
<1>7. Reaches'
  BY <1>6, EntrustedReach
<1> QED  BY <1>4, <1>7 DEF GrantsReach

\* The three states of one pair, and the two older routes, the first of them not over a refusal.
LEMMA UserProfileReach ==
    ASSUME GrantsReach, GrantsHeld', BindOverDeny = FALSE, NEW q \in Requests,
           \/ WriteProfileAccess(q) \/ UnbindUserProfile(q)
           \/ \E u \in Users, p \in Profiles : bindUserProfile(q, u, p)
    PROVE  GrantsReach'
<1>1. PICK r : r = request[q] /\ RequestShaped(r)
  BY DEF GrantsReach, GrantsHeld, RequestsShaped
<1>2. PICK u, p : u = r.user /\ p = r.profile
  OBVIOUS
<1>3. CASE WriteProfileAccess(q) /\ u \in users
  <2>1. /\ OnePair(u, p) /\ config' = config /\ r.op \in {"grant", "deny", "inherit"}
        /\ ~(<<u, p>> \in grant' /\ <<u, p>> \in withheld')
    BY <1>1, <1>2, <1>3 DEF WriteProfileAccess, SetUserProfileAccess, OnePair
  <2>2. Goto(q, "granted", ReachOf[p])
    BY <1>1, <1>2, <1>3 DEF WriteProfileAccess
  <2>3. PICK j : j = Stage(r, "granted", ReachOf[p])
    OBVIOUS
  <2>4. j.op = "granted" /\ j.nodes = ReachOf[p]
    BY <2>3 DEF Stage
  <2>5. GoesOn(q, j)
    BY <1>1, <2>2, <2>3, GotoParts DEF GrantsReach, GrantsHeld
  <2> QED  BY <1>1, <2>1, <2>4, <2>5, OnePairReach
<1>4. CASE WriteProfileAccess(q) /\ u \notin users
  <2>1. HoldingStays /\ GoesOn(q, Idle) /\ r.op \in {"grant", "deny", "inherit"}
    BY <1>1, <1>2, <1>4 DEF WriteProfileAccess, HoldingStays, End, GoesOn
  <2>2. PassedOn(q, Idle)
    BY <1>1, <2>1, LightBurden DEF PassedOn
  <2> QED  BY <2>1, <2>2, HoldingStaysStep
<1>5. CASE UnbindUserProfile(q)
  <2>1. /\ OnePair(u, p) /\ config' = config /\ r.op = "unbind" /\ Apply(q, r.nodes)
        /\ <<u, p>> \notin grant' /\ grant' \subseteq grant /\ withheld' = withheld
    BY <1>1, <1>2, <1>5 DEF UnbindUserProfile, OnePair
  <2>2. PICK j : GoesOn(q, j)
    BY <2>1, ApplyEnding DEF GrantsReach, GrantsHeld
  <2> QED  BY <1>1, <2>1, <2>2, OnePairReach
<1>6. ASSUME NEW v \in Users, NEW x \in Profiles, bindUserProfile(q, v, x) PROVE GrantsReach'
  <2>1. /\ OnePair(v, x) /\ config' = config /\ request[q] = Idle /\ Apply(q, ReachOf[x])
        /\ <<v, x>> \notin withheld /\ withheld' = withheld
    BY <1>6 DEF bindUserProfile, OnePair
  <2>2. PICK j : GoesOn(q, j) /\ Ending(j, ReachOf[x])
    BY <2>1, ApplyEnding DEF GrantsReach, GrantsHeld
  <2>3. request[q].op \notin {"apply", "granted", "moved"}
    BY <2>1 DEF Idle
  <2>4. ReachOf[x] = {} \/ (j.op = "apply" /\ j.nodes = ReachOf[x])
    BY <2>2 DEF Ending
  <2> QED  BY <2>1, <2>2, <2>3, <2>4, OnePairReach
<1> QED  BY <1>3, <1>4, <1>5, <1>6

\* A node that is assembled has all it must; the handler keeps the others.
LEMMA ApplyNodeReach ==
    ASSUME GrantsReach, GrantsHeld', NEW q \in Requests, NEW m \in Nodes, ApplyNode(q, m)
    PROVE  GrantsReach'
<1>1. /\ request[q].op = "apply" /\ config' = [config EXCEPT ![m] = Assembled(m)]
      /\ Apply(q, request[q].nodes \ {m}) /\ UNCHANGED tables
  BY DEF ApplyNode
<1>2. PICK j : GoesOn(q, j) /\ Ending(j, request[q].nodes \ {m})
  BY <1>1, ApplyEnding DEF GrantsReach, GrantsHeld
<1>3. request'[q] = j /\ \A k \in Requests : k # q => request'[k] = request[k]
  BY <1>2 DEF GoesOn, GrantsReach, GrantsHeld, RequestsShaped
<1>4. Over(config', Nodes) /\ config'[m] = Assembled(m) /\ \A n \in Nodes : n # m => config'[n] = config[n]
  BY <1>1 DEF GrantsReach, Over
<1>5. /\ users' = users /\ grant' = grant /\ withheld' = withheld /\ groupOf' = groupOf
      /\ groupGrant' = groupGrant
  BY <1>1 DEF tables
<1>6. \A v : UserProfileIDs(v)' = UserProfileIDs(v)
  BY <1>5 DEF UserProfileIDs
<1>7. NeverBoth'
  BY <1>5 DEF GrantsReach, NeverBoth
<1>8. ASSUME NEW v \in users', NEW p \in UserProfileIDs(v)', NEW n \in ReachOf[p]
      PROVE  <<v, p>> \in config'[n] \/ \E k \in Requests : Bears(request'[k], v, n)
  <2>1. v \in users /\ p \in UserProfileIDs(v)
    BY <1>5, <1>6
  <2>2. n \in Nodes
    BY <2>1, HeldIsBound DEF GrantsReach, GrantsHeld
  <2>3. CASE n = m
    BY <1>4, <2>1, <2>3, AssembledHolds DEF GrantsReach, GrantsHeld
  <2>4. CASE n # m
    <3>1. <<v, p>> \in config[n] \/ \E k \in Requests : Bears(request[k], v, n)
      BY <2>1, Zenon DEF GrantsReach, Reaches
    <3>2. CASE <<v, p>> \in config[n]
      BY <1>4, <2>2, <2>4, <3>2
    <3>3. ASSUME NEW k \in Requests, Bears(request[k], v, n) PROVE Bears(request'[k], v, n)
      <4>1. CASE k = q
        <5>1. n \in request[q].nodes \ {m}
          BY <1>1, <2>4, <3>3, <4>1 DEF Bears
        <5> QED  BY <1>2, <1>3, <4>1, <5>1 DEF Ending, Bears
      <4>2. CASE k # q
        BY <1>3, <3>3, <4>2
      <4> QED  BY <4>1, <4>2
    <3> QED  BY <3>1, <3>2, <3>3
  <2> QED  BY <2>3, <2>4
<1>9. Reaches'
  BY <1>8 DEF Reaches, UserProfileIDs, Bears
<1> QED  BY <1>4, <1>7, <1>9 DEF GrantsReach

\* No step leaves what is held uninstalled and forgotten.
LEMMA ReachStep ==
    ASSUME BindOverDeny = FALSE, GrantsReach, [GrantsNext]_gvars PROVE GrantsReach'
<1>1. GrantsHeld'
  BY GrantsStep DEF GrantsReach
<1>2. CASE RowStep
  <2>1. ASSUME NEW q \in Requests, NEW u \in Users, deleteUser(q, u) PROVE GrantsReach'
    <3>1. config' = config /\ \E j : Begun(q, j)
      BY <2>1, BeginSteps DEF deleteUser
    <3> QED  BY <1>1, <3>1, BegunReach
  <2> QED  BY <1>1, <1>2, <2>1, CreateUserReach, RowsReach, DeleteGroupReach, DeleteUserReach DEF RowStep
<1>3. CASE MoveStep
  <2>1. ASSUME NEW q \in Requests, NEW u \in Users, NEW g, setUserGroup(q, u, g) PROVE GrantsReach'
    <3>1. config' = config /\ \E j : Begun(q, j)
      BY <2>1, BeginSteps DEF setUserGroup
    <3> QED  BY <1>1, <3>1, BegunReach
  <2> QED  BY <1>1, <1>3, <2>1, MoveUserReach, AfterMoveReach DEF MoveStep
<1>4. CASE AccessStep
  <2>1. ASSUME NEW q \in Requests, NEW u \in Users, NEW no, setUserNodeAccess(q, u, no) PROVE GrantsReach'
    <3>1. config' = config /\ \E j : Begun(q, j)
      BY <2>1, BeginSteps DEF setUserNodeAccess
    <3> QED  BY <1>1, <3>1, BegunReach
  <2> QED  BY <1>1, <1>4, <2>1, RowsReach, SaveReach DEF AccessStep
<1>5. CASE ProfileStep
  <2>1. PICK q \in Requests :
        \/ \E p \in Profiles, g \in Groups, bind \in BOOLEAN : changeGroupProfile(q, g, p, bind)
        \/ \E p \in Profiles, u \in Users :
              \/ \E state \in {"grant", "deny", "inherit"} : setUserProfileAccess(q, u, p, state)
              \/ bindUserProfile(q, u, p) \/ unbindUserProfile(q, u, p)
              \/ \E n \in Nodes : adoptCredential(q, u, p, n)
        \/ BindGroupProfile(q) \/ UnbindGroupProfile(q) \/ DropMembers(q)
        \/ WriteProfileAccess(q) \/ AfterProfileAccess(q) \/ UnbindUserProfile(q)
        \/ \E n \in Nodes : ApplyNode(q, n)
    BY <1>5 DEF ProfileStep
  <2>2. ASSUME NEW p \in Profiles, NEW g \in Groups, NEW bind \in BOOLEAN, changeGroupProfile(q, g, p, bind)
        PROVE  GrantsReach'
    <3>1. \E j : Begun(q, j)
      BY <2>2, BeginSteps, Zenon
    <3>2. config' = config
      BY <2>2 DEF changeGroupProfile
    <3> QED  BY <1>1, <3>1, <3>2, BegunReach
  <2>3. ASSUME NEW p \in Profiles, NEW u \in Users, NEW state \in {"grant", "deny", "inherit"},
               setUserProfileAccess(q, u, p, state)
        PROVE  GrantsReach'
    <3>1. \E j : Begun(q, j)
      BY <2>3, BeginSteps
    <3>2. config' = config
      BY <2>3 DEF setUserProfileAccess
    <3> QED  BY <1>1, <3>1, <3>2, BegunReach
  <2>4. ASSUME NEW p \in Profiles, NEW u \in Users, unbindUserProfile(q, u, p) PROVE GrantsReach'
    <3>1. \E j : Begun(q, j)
      BY <2>4, BeginSteps
    <3>2. config' = config
      BY <2>4 DEF unbindUserProfile
    <3> QED  BY <1>1, <3>1, <3>2, BegunReach
  <2>5. ASSUME NEW p \in Profiles, NEW u \in Users, NEW n \in Nodes, adoptCredential(q, u, p, n)
        PROVE  GrantsReach'
    <3>1. UNCHANGED tables /\ config' = config /\ request[q].op = "idle" /\ Apply(q, {n})
      BY <2>5 DEF adoptCredential, Idle
    <3> QED  BY <1>1, <3>1, ReleaseReach
  <2>6. CASE DropMembers(q)
    <3>1. UNCHANGED tables /\ config' = config /\ request[q].op = "unbound" /\ Apply(q, request[q].nodes)
      BY <2>6 DEF DropMembers
    <3> QED  BY <1>1, <3>1, ReleaseReach
  <2>7. CASE AfterProfileAccess(q)
    <3>1. UNCHANGED tables /\ config' = config /\ request[q].op = "granted" /\ Apply(q, request[q].nodes)
      BY <2>7 DEF AfterProfileAccess
    <3> QED  BY <1>1, <3>1, ReleaseReach
  <2> QED  BY <1>1, <2>1, <2>2, <2>3, <2>4, <2>5, <2>6, <2>7, GroupProfileReach, UserProfileReach,
              ApplyNodeReach
<1>6. CASE UNCHANGED gvars
  <2>1. HoldingStays /\ request' = request
    BY <1>6 DEF gvars, tables, HoldingStays
  <2> QED  BY <1>1, <2>1, HoldingStaysStep
<1>7. CASE RulesetStep
  BY <1>1, <1>7, RowsReach
<1> QED  BY <1>2, <1>3, <1>4, <1>5, <1>6, <1>7 DEF GrantsNext

\* api/group.go, api/user.go: once no handler is in flight, every access configuration a subscriber
\* holds, by whatever route, is in the config of every node it reaches, however many handlers
\* overlapped and in whatever order; as long as the POST route is not used over a refusal.
THEOREM GrantsInstalled ==
    ASSUME BindOverDeny = FALSE PROVE GrantsSpec => []GrantedIsInstalled
<1>1. GrantsInit => GrantsReach
  <2> SUFFICES ASSUME GrantsInit PROVE GrantsReach
    OBVIOUS
  <2>1. \A u : Of(grant, u) = {}
    BY DEF GrantsInit, Of
  <2>2. NeverBoth /\ Reaches
    BY <2>1 DEF GrantsInit, NeverBoth, Reaches
  <2>3. Over(config, Nodes)
    BY DEF GrantsInit, Over
  <2> QED  BY <2>2, <2>3, GrantsInitial DEF GrantsReach
<1>2. GrantsReach /\ [GrantsNext]_gvars => GrantsReach'
  BY ReachStep
<1>3. GrantsReach => GrantedIsInstalled
  <2> SUFFICES ASSUME GrantsReach, InFlight = {},
                      NEW u \in users, NEW p \in UserProfileIDs(u), NEW n \in ReachOf[p]
               PROVE  <<u, p>> \in config[n]
    BY DEF GrantedIsInstalled
  <2>1. \A q \in Requests : ~Bears(request[q], u, n)
    BY DEF InFlight, Bears, Idle
  <2> QED  BY <2>1, Zenon DEF GrantsReach, Reaches
<1> QED  BY <1>1, <1>2, <1>3, PTL DEF GrantsSpec

-----------------------------------------------------------------------------
(* What is withdrawn leaves the nodes, while requests do not overlap *)

\* The handler will assemble node n.
Due(r, n) == r.op \in {"apply", "granted", "unbound", "moved"} /\ n \in r.nodes

\* A client of a config is entitled, and the credential it came with is still there to find it by.
Rightful(n, c) == c[1] \in users /\ c[2] \in UserProfileIDs(c[1]) /\ <<c[1], c[2], n>> \in cred

\* What a handler read before its change covers what the change takes away.
Covers(r) ==
    /\ r.op \in {"move", "delete"} =>
          \A n \in Nodes : \A c \in config[n] : c[1] = r.user => n \in r.nodes
    /\ r.op = "unbind" =>
          \A n \in Nodes : \A c \in config[n] : c[1] = r.user /\ c[2] = r.profile => n \in r.nodes
    /\ r.op = "unbound" => r.nodes = ReachOf[r.profile]

\* Clients are where their access configuration is bound, and rightful or about to go.
Traced(r) ==
    \A n \in Nodes : \A c \in config[n] : n \in ReachOf[c[2]] /\ (Due(r, n) \/ Rightful(n, c))

TracedBy(q) == GrantsHeld /\ Over(config, Nodes) /\ Covers(request[q]) /\ Traced(request[q])

\* A step loses no client: those that were rightful still are, or the handler has them.
LosesNone(r, j) ==
    \A n \in Nodes : \A c \in config[n] :
        n \in ReachOf[c[2]] /\ (Due(r, n) \/ Rightful(n, c)) => Due(j, n) \/ Rightful(n, c)'

\* The handler at q goes on.
LEMMA OnGoingTraced ==
    ASSUME NEW q \in Requests, TracedBy(q), GrantsHeld', config' = config, NEW j, request'[q] = j,
           LosesNone(request[q], j), Covers(j)
    PROVE  TracedBy(q)'
<1>2. Traced(request[q])
  BY DEF TracedBy
<1>3. ASSUME NEW n \in Nodes, NEW c \in config'[n]
      PROVE  n \in ReachOf[c[2]] /\ (Due(request'[q], n) \/ Rightful(n, c)')
  <2>1. c \in config[n]
    OBVIOUS
  <2>2. n \in ReachOf[c[2]] /\ (Due(request[q], n) \/ Rightful(n, c))
    BY <1>2, <2>1, Zenon DEF Traced
  <2>3. Due(j, n) \/ Rightful(n, c)'
    BY <2>1, <2>2, Zenon DEF LosesNone
  <2> QED  BY <2>2, <2>3
<1>4. Traced(request[q])'
  BY <1>3, Zenon DEF Traced, Due
<1>5. Covers(request[q])'
  BY DEF Covers
<1> QED  BY <1>4, <1>5 DEF TracedBy, Over

\* Its own step takes it there.
LEMMA OneRequestTraced ==
    ASSUME NEW q \in Requests, TracedBy(q), GrantsHeld', config' = config, NEW j, GoesOn(q, j),
           LosesNone(request[q], j), Covers(j)
    PROVE  TracedBy(q)'
<1>1. request'[q] = j
  BY DEF GoesOn, TracedBy, GrantsHeld, RequestsShaped
<1> QED  BY <1>1, OnGoingTraced

\* It does not move.
LEMMA NoRequestTraced ==
    ASSUME NEW q \in Requests, TracedBy(q), GrantsHeld', config' = config, request'[q] = request[q],
           LosesNone(request[q], request[q])
    PROVE  TracedBy(q)'
<1>1. Covers(request[q])
  BY DEF TracedBy
<1> QED  BY <1>1, OnGoingTraced

\* What was held is held.
NothingTaken == \A u \in users : u \in users' /\ UserProfileIDs(u) \subseteq UserProfileIDs(u)'

\* Where nothing is taken and no credential dropped, no client is lost.
LEMMA NothingTakenLoses ==
    ASSUME NothingTaken, cred \subseteq cred', NEW r, NEW j, \A n : Due(r, n) => Due(j, n)
    PROVE  LosesNone(r, j)
<1>1. ASSUME NEW n \in Nodes, NEW c \in config[n], Rightful(n, c) PROVE Rightful(n, c)'
  BY <1>1 DEF Rightful, NothingTaken
<1> QED  BY <1>1 DEF LosesNone

\* Handlers that have read and not written have nothing due.
LEMMA NothingDue ==
    ASSUME NEW r, r.op \notin {"apply", "granted", "unbound", "moved"}, NEW n PROVE ~Due(r, n)
BY DEF Due

\* Stages that need to have read nothing.
LEMMA CoversNothing ==
    ASSUME NEW j, j.op \notin {"move", "delete", "unbind", "unbound"} PROVE Covers(j)
BY DEF Covers

\* Rows that come and go, and decisions that take no access configuration away.
LEMMA RowsTraced ==
    ASSUME NEW q \in Requests, TracedBy(q), GrantsHeld',
           \/ \E u \in Users : createUser(u)
           \/ \E g \in Groups : createGroup(g)
           \/ \E o \in Objects : createObject(o) \/ deleteObject(o)
           \/ \E o \in Objects, S \in SUBSET Users : SetObjectUsers(o, S)
           \/ \E g \in Groups, S \in SUBSET Objects : setGroupNodeAccess(g, S)
           \/ RulesetStep
    PROVE  TracedBy(q)'
<1>1. /\ users \subseteq users' /\ groupOf' = groupOf /\ grant' = grant /\ withheld' = withheld
      /\ groupGrant' = groupGrant /\ config' = config /\ cred' = cred /\ request' = request
  BY DEF createUser, createGroup, createObject, deleteObject, SetObjectUsers, setGroupNodeAccess,
         RulesetStep, createRuleset, deleteRuleset, setGroupRuleset, setUserRuleset, decided
<1>2. NothingTaken
  BY <1>1 DEF NothingTaken, UserProfileIDs
<1>3. LosesNone(request[q], request[q])
  BY <1>1, <1>2, NothingTakenLoses
<1> QED  BY <1>1, <1>3, NoRequestTraced

\* A dissolved group takes nothing from its members.
LEMMA DeleteGroupTraced ==
    ASSUME NEW q \in Requests, TracedBy(q), GrantsHeld', NEW g \in Groups, deleteGroup(g)
    PROVE  TracedBy(q)'
<1>1. PICK S : S = GroupMemberIDs(g)
  OBVIOUS
<1>2. /\ g \in groups /\ detachUser(S, g) /\ users' = users /\ request' = request /\ config' = config
      /\ cred' = cred
      /\ groupOf' = [u \in Users |-> IF groupOf[u] = g THEN NoGroup ELSE groupOf[u]]
      /\ groupGrant' = Without(groupGrant, g)
  BY <1>1 DEF deleteGroup
<1>3. S \in SUBSET users /\ users \subseteq Users
  BY <1>1 DEF GroupMemberIDs, TracedBy, GrantsHeld, RowsOwned
<1>4. DetachedFrom(S, g)
  BY <1>2, <1>3, DetachParts DEF TracedBy, GrantsHeld
<1>5. \A v \in users : v \in S <=> groupOf[v] = g
  BY <1>1 DEF GroupMemberIDs
<1>6. \A h : h # g => Of(groupGrant', h) = Of(groupGrant, h)
  BY <1>2, WithoutOf
<1>7. ASSUME NEW v \in users PROVE UserProfileIDs(v) \subseteq UserProfileIDs(v)'
  <2>1. CASE v \in S
    <3>1. groupOf[v] = g
      BY <1>5, <2>1
    <3> QED  BY <1>4, <2>1, <3>1 DEF UserProfileIDs, DetachedFrom
  <2>2. CASE v \notin S
    <3>1. groupOf[v] # g /\ groupOf'[v] = groupOf[v]
      BY <1>2, <1>3, <1>5, <2>2
    <3> QED  BY <1>4, <1>6, <2>2, <3>1 DEF UserProfileIDs, DetachedFrom
  <2> QED  BY <2>1, <2>2
<1>8. NothingTaken
  BY <1>2, <1>7 DEF NothingTaken
<1>9. LosesNone(request[q], request[q])
  BY <1>2, <1>8, NothingTakenLoses
<1> QED  BY <1>2, <1>9, NoRequestTraced

\* Nothing is due while no request is in flight: every client is rightful.
LEMMA IdleTraced ==
    ASSUME NEW q \in Requests, TracedBy(q), request[q] = Idle, NEW n \in Nodes, NEW c \in config[n]
    PROVE  n \in ReachOf[c[2]] /\ Rightful(n, c)
<1>1. ~Due(request[q], n)
  BY DEF Due, Idle
<1>2. Traced(request[q])
  BY DEF TracedBy
<1> QED  BY <1>1, <1>2, Zenon DEF Traced

\* A handler begins, and has read what it must.
LEMMA BeginTraced ==
    ASSUME NEW q \in Requests, TracedBy(q), GrantsHeld', NEW j, Begin(q, j),
           UNCHANGED <<tables, cred, config>>, Covers(j)
    PROVE  TracedBy(q)'
<1>1. request[q] = Idle /\ GoesOn(q, j)
  BY DEF Begin, GoesOn
<1>2. NothingTaken /\ cred' = cred /\ config' = config
  BY DEF tables, NothingTaken, UserProfileIDs
<1>3. \A n : Due(request[q], n) => Due(j, n)
  BY <1>1 DEF Due, Idle
<1>4. LosesNone(request[q], j)
  BY <1>2, <1>3, NothingTakenLoses
<1> QED  BY <1>1, <1>2, <1>4, OneRequestTraced

\* The handlers of several statements begin that way.
LEMMA BegunTraced ==
    ASSUME NEW q \in Requests, TracedBy(q), GrantsHeld',
           \/ \E u \in Users : \/ deleteUser(q, u)
                               \/ \E g : setUserGroup(q, u, g)
                               \/ \E no : setUserNodeAccess(q, u, no)
           \/ \E g \in Groups, p \in Profiles, bind \in BOOLEAN : changeGroupProfile(q, g, p, bind)
           \/ \E u \in Users, p \in Profiles :
                 \/ \E state \in {"grant", "deny", "inherit"} : setUserProfileAccess(q, u, p, state)
                 \/ unbindUserProfile(q, u, p)
    PROVE  TracedBy(q)'
<1>1. ASSUME NEW u \in Users, deleteUser(q, u) PROVE TracedBy(q)'
  <2>1. PICK j : j = [Idle EXCEPT !.op = "delete", !.user = u, !.nodes = NodesForUser(u)]
    OBVIOUS
  <2>2. j.op = "delete" /\ j.user = u /\ j.nodes = NodesForUser(u)
    BY <2>1 DEF Idle
  <2>3. Begin(q, j) /\ request[q] = Idle /\ UNCHANGED <<tables, cred, config>>
    BY <1>1, <2>1 DEF deleteUser, Begin
  <2>4. ASSUME NEW n \in Nodes, NEW c \in config[n], c[1] = u PROVE n \in NodesForUser(u)
    <3>1. <<u, c[2], n>> \in cred
      BY <2>3, <2>4, IdleTraced DEF Rightful
    <3>2. <<u, c[2], n>>[1] = u /\ <<u, c[2], n>>[3] = n
      OBVIOUS
    <3> QED  BY <3>1, <3>2 DEF NodesForUser
  <2>5. Covers(j)
    BY <2>2, <2>4 DEF Covers
  <2> QED  BY <2>3, <2>5, BeginTraced
<1>2. ASSUME NEW u \in Users, NEW g, setUserGroup(q, u, g) PROVE TracedBy(q)'
  <2>1. PICK j : j = [Idle EXCEPT !.op = "move", !.user = u, !.group = g,
                                  !.nodes = userCredentialNodes(u)]
    OBVIOUS
  <2>2. j.op = "move" /\ j.user = u /\ j.nodes = userCredentialNodes(u)
    BY <2>1 DEF Idle
  <2>3. Begin(q, j) /\ request[q] = Idle /\ UNCHANGED <<tables, cred, config>>
    BY <1>2, <2>1 DEF setUserGroup, Begin
  <2>4. ASSUME NEW n \in Nodes, NEW c \in config[n], c[1] = u PROVE n \in userCredentialNodes(u)
    <3>1. n \in ReachOf[c[2]] /\ c[2] \in UserProfileIDs(u)
      BY <2>3, <2>4, IdleTraced DEF Rightful
    <3> QED  BY <3>1 DEF userCredentialNodes
  <2>5. Covers(j)
    BY <2>2, <2>4 DEF Covers
  <2> QED  BY <2>3, <2>5, BeginTraced
<1>3. ASSUME NEW u \in Users, NEW no, setUserNodeAccess(q, u, no) PROVE TracedBy(q)'
  <2>1. PICK j : j = [Idle EXCEPT !.op = "access", !.user = u, !.group = groupOf[u], !.members = no]
    OBVIOUS
  <2>2. Covers(j)
    BY <2>1, CoversNothing DEF Idle
  <2>3. Begin(q, j) /\ UNCHANGED <<tables, cred, config>>
    BY <1>3, <2>1 DEF setUserNodeAccess
  <2> QED  BY <2>2, <2>3, BeginTraced
<1>4. ASSUME NEW g \in Groups, NEW p \in Profiles, NEW bind \in BOOLEAN, changeGroupProfile(q, g, p, bind)
      PROVE  TracedBy(q)'
  <2>1. PICK op : op = IF bind THEN "bindgroup" ELSE "unbindgroup"
    OBVIOUS
  <2>2. PICK j : j = [Idle EXCEPT !.op = op, !.group = g, !.profile = p, !.members = GroupMemberIDs(g)]
    OBVIOUS
  <2>3. op \in {"bindgroup", "unbindgroup"}
    BY <2>1
  <2>4. Covers(j)
    BY <2>2, <2>3, CoversNothing DEF Idle
  <2>5. Begin(q, j) /\ UNCHANGED <<tables, cred, config>>
    BY <1>4, <2>1, <2>2 DEF changeGroupProfile
  <2> QED  BY <2>4, <2>5, BeginTraced
<1>5. ASSUME NEW u \in Users, NEW p \in Profiles, NEW state \in {"grant", "deny", "inherit"},
             setUserProfileAccess(q, u, p, state)
      PROVE  TracedBy(q)'
  <2>1. PICK m : m = IF p \in UserProfileIDs(u) THEN {u} ELSE {}
    OBVIOUS
  <2>2. PICK j : j = [Idle EXCEPT !.op = state, !.user = u, !.profile = p, !.members = m]
    OBVIOUS
  <2>3. Covers(j)
    BY <2>2, CoversNothing DEF Idle
  <2>4. Begin(q, j) /\ UNCHANGED <<tables, cred, config>>
    BY <1>5, <2>1, <2>2 DEF setUserProfileAccess
  <2> QED  BY <2>3, <2>4, BeginTraced
<1>6. ASSUME NEW u \in Users, NEW p \in Profiles, unbindUserProfile(q, u, p) PROVE TracedBy(q)'
  <2>1. PICK j : j = [Idle EXCEPT !.op = "unbind", !.user = u, !.profile = p,
                                  !.nodes = NodesForUserProfile(u, p)]
    OBVIOUS
  <2>2. j.op = "unbind" /\ j.user = u /\ j.profile = p /\ j.nodes = NodesForUserProfile(u, p)
    BY <2>1 DEF Idle
  <2>3. Begin(q, j) /\ request[q] = Idle /\ UNCHANGED <<tables, cred, config>>
    BY <1>6, <2>1 DEF unbindUserProfile, Begin
  <2>4. ASSUME NEW n \in Nodes, NEW c \in config[n], c[1] = u, c[2] = p
        PROVE  n \in NodesForUserProfile(u, p)
    <3>1. <<u, p, n>> \in cred
      BY <2>3, <2>4, IdleTraced DEF Rightful
    <3>2. <<u, p, n>>[1] = u /\ <<u, p, n>>[2] = p /\ <<u, p, n>>[3] = n
      OBVIOUS
    <3> QED  BY <3>1, <3>2 DEF NodesForUserProfile
  <2>5. Covers(j)
    BY <2>2, <2>4 DEF Covers
  <2> QED  BY <2>3, <2>5, BeginTraced
<1> QED  BY <1>1, <1>2, <1>3, <1>4, <1>5, <1>6

\* A handler that ends, or goes on to its nodes, after a step that took nothing.
LEMMA EndingTraced ==
    ASSUME NEW q \in Requests, TracedBy(q), GrantsHeld', config' = config, NothingTaken,
           cred \subseteq cred', NEW j, GoesOn(q, j), NEW ns, Ending(j, ns),
           \A n : Due(request[q], n) => n \in ns
    PROVE  TracedBy(q)'
<1>1. \A n : Due(request[q], n) => Due(j, n)
  BY DEF Ending, Due
<1>2. Covers(j)
  BY CoversNothing DEF Ending
<1> QED  BY <1>1, <1>2, NothingTakenLoses, OneRequestTraced

\* What is held is what it was.
LEMMA SameTablesTaken ==
    ASSUME users' = users, groupOf' = groupOf, grant' = grant, withheld' = withheld,
           groupGrant \subseteq groupGrant'
    PROVE  NothingTaken
<1>1. \A x : Of(groupGrant, x) \subseteq Of(groupGrant', x)
  BY DEF Of
<1> QED  BY <1>1 DEF NothingTaken, UserProfileIDs

\* An access editor stored, an existing secret adopted, a group's access configuration bound.
LEMMA GivingTraced ==
    ASSUME NEW q \in Requests, TracedBy(q), GrantsHeld',
           \/ SetUserNodeAccess(q) \/ BindGroupProfile(q)
           \/ \E u \in Users, p \in Profiles, n \in Nodes : adoptCredential(q, u, p, n)
           \/ \E u \in Users, p \in Profiles : bindUserProfile(q, u, p)
    PROVE  TracedBy(q)'
<1>1. CASE SetUserNodeAccess(q)
  <2>1. /\ users' = users /\ groupOf' = groupOf /\ grant' = grant /\ withheld' = withheld
        /\ groupGrant' = groupGrant /\ config' = config /\ cred' = cred
        /\ request[q].op = "access" /\ End(q)
    BY <1>1 DEF SetUserNodeAccess
  <2>2. PICK j : GoesOn(q, j) /\ Ending(j, {})
    BY <2>1, EndEnding
  <2> QED  BY <2>1, <2>2, NothingDue, SameTablesTaken, EndingTraced
<1>2. CASE BindGroupProfile(q)
  <2>1. /\ users' = users /\ groupOf' = groupOf /\ grant' = grant /\ withheld' = withheld
        /\ groupGrant \subseteq groupGrant' /\ config' = config /\ cred' = cred
        /\ request[q].op = "bindgroup" /\ (End(q) \/ Apply(q, ReachOf[request[q].profile]))
    BY <1>2 DEF BindGroupProfile
  <2>2. PICK j, ns : GoesOn(q, j) /\ Ending(j, ns)
    BY <2>1, EndEnding, ApplyEnding DEF TracedBy, GrantsHeld
  <2> QED  BY <2>1, <2>2, NothingDue, SameTablesTaken, EndingTraced
<1>3. ASSUME NEW u \in Users, NEW p \in Profiles, NEW n \in Nodes, adoptCredential(q, u, p, n)
      PROVE  TracedBy(q)'
  <2>1. UNCHANGED tables /\ config' = config /\ cred \subseteq cred' /\ request[q] = Idle /\ Apply(q, {n})
    BY <1>3 DEF adoptCredential
  <2>2. /\ users' = users /\ groupOf' = groupOf /\ grant' = grant /\ withheld' = withheld
        /\ groupGrant' = groupGrant
    BY <2>1 DEF tables
  <2>3. PICK j, ns : GoesOn(q, j) /\ Ending(j, ns)
    BY <2>1, ApplyEnding DEF TracedBy, GrantsHeld
  <2>4. request[q].op = "idle"
    BY <2>1 DEF Idle
  <2> QED  BY <2>1, <2>2, <2>3, <2>4, NothingDue, SameTablesTaken, EndingTraced
<1>4. ASSUME NEW u \in Users, NEW p \in Profiles, bindUserProfile(q, u, p) PROVE TracedBy(q)'
  <2>1. /\ users' = users /\ groupOf' = groupOf /\ grant \subseteq grant' /\ withheld' = withheld
        /\ groupGrant' = groupGrant /\ config' = config /\ cred' = cred
        /\ request[q] = Idle /\ Apply(q, ReachOf[p])
    BY <1>4 DEF bindUserProfile
  <2>2. \A x : Of(grant, x) \subseteq Of(grant', x)
    BY <2>1 DEF Of
  <2>3. NothingTaken
    BY <2>1, <2>2 DEF NothingTaken, UserProfileIDs
  <2>4. PICK j, ns : GoesOn(q, j) /\ Ending(j, ns)
    BY <2>1, ApplyEnding DEF TracedBy, GrantsHeld
  <2>5. request[q].op = "idle"
    BY <2>1 DEF Idle
  <2> QED  BY <2>1, <2>3, <2>4, <2>5, NothingDue, EndingTraced
<1> QED  BY <1>1, <1>2, <1>3, <1>4

\* A move takes from the subscriber only, whose nodes it has read.
LEMMA MoveTraced ==
    ASSUME NEW q \in Requests, TracedBy(q), GrantsHeld', MoveUser(q) PROVE TracedBy(q)'
<1>1. PICK r : r = request[q] /\ RequestShaped(r) /\ Covers(r)
  BY DEF TracedBy, GrantsHeld, RequestsShaped
<1>2. PICK u, g : u = r.user /\ g = r.group
  OBVIOUS
<1>3. r.op = "move" /\ users' = users /\ groupGrant' = groupGrant /\ config' = config /\ cred' = cred
  BY <1>1, <1>2 DEF MoveUser
<1>4. CASE ~ (u \in users /\ g \in groups \cup {NoGroup})
  <2>1. groupOf' = groupOf /\ grant' = grant /\ withheld' = withheld /\ End(q)
    BY <1>1, <1>2, <1>4 DEF MoveUser
  <2>2. PICK j : GoesOn(q, j) /\ Ending(j, {})
    BY <2>1, EndEnding
  <2> QED  BY <1>1, <1>3, <2>1, <2>2, NothingDue, SameTablesTaken, EndingTraced
<1>5. CASE u \in users /\ g \in groups \cup {NoGroup}
  <2>1. SetUserGroup(u, g) /\ Goto(q, "moved", r.nodes)
    BY <1>1, <1>2, <1>5 DEF MoveUser
  <2>2. PICK j : j = Stage(r, "moved", r.nodes)
    OBVIOUS
  <2>3. GoesOn(q, j)
    BY <1>1, <2>1, <2>2, GotoParts DEF TracedBy, GrantsHeld
  <2>4. j.op = "moved" /\ j.nodes = r.nodes
    BY <2>2 DEF Stage
  <2>5. \A v \in Users : v # u => groupOf'[v] = groupOf[v]
    BY <2>1 DEF SetUserGroup, TracedBy, GrantsHeld, RowsOwned
  <2>6. \A v : v # u => Of(grant', v) = Of(grant, v) /\ Of(withheld', v) = Of(withheld, v)
    <3>1. CASE g # NoGroup
      BY <2>1, <3>1, WithoutOf DEF SetUserGroup
    <3>2. CASE g = NoGroup /\ groupOf[u] # NoGroup
      <4>1. DetachedFrom({u}, groupOf[u])
        BY <1>5, <2>1, <3>2, DetachParts DEF SetUserGroup, TracedBy, GrantsHeld
      <4> QED  BY <4>1 DEF DetachedFrom
    <3>3. CASE g = NoGroup /\ groupOf[u] = NoGroup
      BY <2>1, <3>3 DEF SetUserGroup
    <3> QED  BY <3>1, <3>2, <3>3
  <2>7. ASSUME NEW n \in Nodes, NEW c \in config[n], Rightful(n, c) PROVE Due(j, n) \/ Rightful(n, c)'
    <3>1. CASE c[1] = u
      <4>1. n \in r.nodes
        BY <1>1, <1>2, <1>3, <3>1 DEF Covers
      <4> QED  BY <2>4, <4>1 DEF Due
    <3>2. CASE c[1] # u
      <4>1. c[1] \in users /\ c[1] \in Users
        BY <2>7 DEF Rightful, TracedBy, GrantsHeld, RowsOwned
      <4>2. UserProfileIDs(c[1])' = UserProfileIDs(c[1])
        BY <1>3, <2>5, <2>6, <3>2, <4>1 DEF UserProfileIDs
      <4> QED  BY <1>3, <2>7, <4>2 DEF Rightful
    <3> QED  BY <3>1, <3>2
  <2>8. LosesNone(r, j)
    BY <1>3, <2>7, NothingDue DEF LosesNone
  <2>9. Covers(j)
    BY <2>4, CoversNothing
  <2> QED  BY <1>1, <1>3, <2>3, <2>8, <2>9, OneRequestTraced
<1> QED  BY <1>4, <1>5

\* The credentials a handler drops are of clients that are not entitled, or that it will assemble.
LEMMA DroppedTraced ==
    ASSUME NEW q \in Requests, TracedBy(q), GrantsHeld',
           AfterMove(q) \/ AfterProfileAccess(q) \/ DropMembers(q)
    PROVE  TracedBy(q)'
<1>1. PICK r : r = request[q] /\ Covers(r)
  BY DEF TracedBy
<1>2. UNCHANGED tables /\ config' = config /\ r.op \in {"moved", "granted", "unbound"}
  BY <1>1 DEF AfterMove, AfterProfileAccess, DropMembers
<1>3. users' = users /\ \A v : UserProfileIDs(v)' = UserProfileIDs(v)
  BY <1>2 DEF tables, UserProfileIDs
<1>4. PICK ns : r.nodes \subseteq ns /\ Apply(q, ns)
  BY <1>1 DEF AfterMove, AfterProfileAccess, DropMembers
<1>5. PICK j : GoesOn(q, j) /\ Ending(j, ns)
  BY <1>4, ApplyEnding DEF TracedBy, GrantsHeld
<1>6. \A n : n \in r.nodes => Due(j, n)
  BY <1>4, <1>5 DEF Ending, Due
<1>7. ASSUME NEW n \in Nodes, NEW c \in config[n], n \in ReachOf[c[2]], Rightful(n, c)
      PROVE  Due(j, n) \/ Rightful(n, c)'
  <2>0. PICK x : x = <<c[1], c[2], n>>
    OBVIOUS
  <2>1. x = <<c[1], c[2], n>> /\ x[1] = c[1] /\ x[2] = c[2]
    BY <2>0
  <2>2. x \in cred /\ c[1] \in users /\ c[2] \in UserProfileIDs(c[1])
    BY <1>7, <2>1 DEF Rightful
  <2>3. CASE AfterMove(q)
    <3>1. x \in cred'
      BY <2>1, <2>2, <2>3 DEF AfterMove
    <3> QED  BY <1>3, <2>1, <2>2, <3>1 DEF Rightful
  <2>4. CASE AfterProfileAccess(q)
    <3>1. x \in cred'
      BY <2>1, <2>2, <2>4 DEF AfterProfileAccess
    <3> QED  BY <1>3, <2>1, <2>2, <3>1 DEF Rightful
  <2>5. CASE DropMembers(q)
    <3>1. CASE c[2] = r.profile
      <4>1. r.nodes = ReachOf[r.profile]
        BY <1>1, <2>5 DEF DropMembers, Covers
      <4> QED  BY <1>6, <1>7, <3>1, <4>1
    <3>2. CASE c[2] # r.profile
      <4>1. x \in cred'
        BY <1>1, <2>1, <2>2, <2>5, <3>2 DEF DropMembers
      <4> QED  BY <1>3, <2>1, <2>2, <4>1 DEF Rightful
    <3> QED  BY <3>1, <3>2
  <2> QED  BY <2>3, <2>4, <2>5
<1>8. LosesNone(r, j)
  BY <1>6, <1>7 DEF LosesNone, Due
<1>9. Covers(j)
  BY <1>5, CoversNothing DEF Ending
<1> QED  BY <1>1, <1>2, <1>5, <1>8, <1>9, OneRequestTraced

\* A group's access configuration taken back: all its nodes are due.
LEMMA UnbindGroupTraced ==
    ASSUME NEW q \in Requests, TracedBy(q), GrantsHeld', UnbindGroupProfile(q) PROVE TracedBy(q)'
<1>1. PICK r : r = request[q]
  OBVIOUS
<1>2. PICK g, p : g = r.group /\ p = r.profile
  OBVIOUS
<1>3. /\ r.op = "unbindgroup" /\ groupGrant' = groupGrant \ {<<g, p>>} /\ Goto(q, "unbound", ReachOf[p])
      /\ users' = users /\ groupOf' = groupOf /\ grant' = grant /\ withheld' = withheld
      /\ config' = config /\ cred' = cred
  BY <1>1, <1>2 DEF UnbindGroupProfile
<1>4. PICK j : j = Stage(r, "unbound", ReachOf[p])
  OBVIOUS
<1>5. GoesOn(q, j)
  BY <1>1, <1>3, <1>4, GotoParts DEF TracedBy, GrantsHeld
<1>6. j.op = "unbound" /\ j.nodes = ReachOf[p] /\ j.profile = p
  BY <1>2, <1>4 DEF Stage
<1>7. ASSUME NEW n \in Nodes, NEW c \in config[n], n \in ReachOf[c[2]], Rightful(n, c)
      PROVE  Due(j, n) \/ Rightful(n, c)'
  <2>1. CASE c[2] = p
    BY <1>6, <1>7, <2>1 DEF Due
  <2>2. CASE c[2] # p
    <3>1. PairSet(groupGrant) /\ PairSet(groupGrant')
      BY <1>3, RowsArePairs DEF TracedBy, GrantsHeld, PairSet
    <3>2. PICK h : h = groupOf[c[1]]
      OBVIOUS
    <3>3. <<h, c[2]>> # <<g, p>>
      BY <2>2
    <3>4. c[2] \in Of(groupGrant, h) => c[2] \in Of(groupGrant', h)
      BY <1>3, <3>1, <3>3, OfIff
    <3> QED  BY <1>3, <1>7, <3>2, <3>4 DEF Rightful, UserProfileIDs
  <2> QED  BY <2>1, <2>2
<1>8. LosesNone(r, j)
  BY <1>3, <1>7, NothingDue DEF LosesNone
<1>9. Covers(j)
  BY <1>6 DEF Covers
<1> QED  BY <1>1, <1>3, <1>5, <1>8, <1>9, OneRequestTraced

\* One pair taken or given: its nodes are due, or those it is installed on.
LEMMA OnePairTraced ==
    ASSUME NEW q \in Requests, TracedBy(q), GrantsHeld', config' = config, NEW u, NEW p,
           OnePair(u, p), NEW j, GoesOn(q, j), Covers(j),
           request[q].op \notin {"apply", "granted", "unbound", "moved"},
           \A x \in cred : (x[1] = u /\ x[2] = p) \/ x \in cred',
           \A n \in Nodes : \A c \in config[n] :
               n \in ReachOf[c[2]] /\ c[1] = u /\ c[2] = p => Due(j, n)
    PROVE  TracedBy(q)'
<1> USE DEF OnePair
<1>1. PairSet(grant) /\ PairSet(withheld) /\ PairSet(grant') /\ PairSet(withheld')
  <2>1. PairSet(grant) /\ PairSet(withheld)
    BY RowsArePairs DEF TracedBy, GrantsHeld
  <2>2. grant' \subseteq users' \X Profiles /\ withheld' \subseteq users' \X Profiles
    BY DEF GrantsHeld, RowsOwned
  <2> QED  BY <2>1, <2>2 DEF PairSet
<1>2. ASSUME NEW v, NEW y, <<v, y>> # <<u, p>>
      PROVE  /\ y \in Of(grant', v) <=> y \in Of(grant, v)
             /\ y \in Of(withheld', v) <=> y \in Of(withheld, v)
  BY <1>1, <1>2, OfIff
<1>3. ASSUME NEW n \in Nodes, NEW c \in config[n], n \in ReachOf[c[2]], Rightful(n, c)
      PROVE  Due(j, n) \/ Rightful(n, c)'
  <2>1. CASE c[1] = u /\ c[2] = p
    BY <1>3, <2>1
  <2>2. CASE ~(c[1] = u /\ c[2] = p)
    <3>0. PICK x : x = <<c[1], c[2], n>>
      OBVIOUS
    <3>1. x = <<c[1], c[2], n>> /\ x[1] = c[1] /\ x[2] = c[2]
      BY <3>0
    <3>2. x \in cred'
      BY <1>3, <2>2, <3>1 DEF Rightful
    <3>3. <<c[1], c[2]>> # <<u, p>>
      BY <2>2
    <3>4. c[2] \in UserProfileIDs(c[1])'
      BY <1>2, <1>3, <3>3 DEF Rightful, UserProfileIDs
    <3> QED  BY <1>3, <3>1, <3>2, <3>4 DEF Rightful
  <2> QED  BY <2>1, <2>2
<1>4. LosesNone(request[q], j)
  BY <1>3, NothingDue DEF LosesNone
<1> QED  BY <1>4, OneRequestTraced

\* The three states of a pair, and the older route that takes one back.
LEMMA PairTraced ==
    ASSUME NEW q \in Requests, TracedBy(q), GrantsHeld', WriteProfileAccess(q) \/ UnbindUserProfile(q)
    PROVE  TracedBy(q)'
<1>1. PICK r : r = request[q] /\ Covers(r)
  BY DEF TracedBy
<1>2. PICK u, p : u = r.user /\ p = r.profile
  OBVIOUS
<1>3. CASE WriteProfileAccess(q) /\ u \in users
  <2>1. OnePair(u, p) /\ config' = config /\ cred' = cred /\ r.op \in {"grant", "deny", "inherit"}
    BY <1>1, <1>2, <1>3 DEF WriteProfileAccess, SetUserProfileAccess, OnePair
  <2>2. Goto(q, "granted", ReachOf[p])
    BY <1>1, <1>2, <1>3 DEF WriteProfileAccess
  <2>3. PICK j : j = Stage(r, "granted", ReachOf[p])
    OBVIOUS
  <2>4. j.op = "granted" /\ j.nodes = ReachOf[p]
    BY <2>3 DEF Stage
  <2>5. GoesOn(q, j)
    BY <1>1, <2>2, <2>3, GotoParts DEF TracedBy, GrantsHeld
  <2>6. Covers(j) /\ \A n \in Nodes : \A c \in config[n] :
                         n \in ReachOf[c[2]] /\ c[1] = u /\ c[2] = p => Due(j, n)
    BY <2>4, CoversNothing DEF Due
  <2> QED  BY <1>1, <2>1, <2>5, <2>6, OnePairTraced
<1>4. CASE WriteProfileAccess(q) /\ u \notin users
  <2>1. /\ users' = users /\ groupOf' = groupOf /\ grant' = grant /\ withheld' = withheld
        /\ groupGrant' = groupGrant /\ config' = config /\ cred' = cred
        /\ r.op \in {"grant", "deny", "inherit"} /\ End(q)
    BY <1>1, <1>2, <1>4 DEF WriteProfileAccess
  <2>2. PICK j : GoesOn(q, j) /\ Ending(j, {})
    BY <2>1, EndEnding
  <2> QED  BY <1>1, <2>1, <2>2, NothingDue, SameTablesTaken, EndingTraced
<1>5. CASE UnbindUserProfile(q)
  <2>1. /\ OnePair(u, p) /\ config' = config /\ r.op = "unbind" /\ Apply(q, r.nodes)
        /\ cred' = {c \in cred : ~(c[1] = u /\ c[2] = p)}
    BY <1>1, <1>2, <1>5 DEF UnbindUserProfile, OnePair
  <2>2. PICK j : GoesOn(q, j) /\ Ending(j, r.nodes)
    BY <2>1, ApplyEnding DEF TracedBy, GrantsHeld
  <2>3. Covers(j)
    BY <2>2, CoversNothing DEF Ending
  <2>4. \A n \in Nodes : \A c \in config[n] : n \in ReachOf[c[2]] /\ c[1] = u /\ c[2] = p => Due(j, n)
    BY <1>1, <1>2, <2>1, <2>2 DEF Covers, Ending, Due
  <2> QED  BY <1>1, <2>1, <2>2, <2>3, <2>4, OnePairTraced
<1> QED  BY <1>3, <1>4, <1>5

\* A deleted subscriber was on the nodes the handler has read, and on no other.
LEMMA DeleteUserTraced ==
    ASSUME NEW q \in Requests, TracedBy(q), GrantsHeld', DeleteUser(q) PROVE TracedBy(q)'
<1>1. PICK r : r = request[q] /\ Covers(r)
  BY DEF TracedBy
<1>2. PICK u : u = r.user
  OBVIOUS
<1>3. /\ r.op = "delete" /\ users' = users \ {u} /\ groupOf' = [groupOf EXCEPT ![u] = NoGroup]
      /\ grant' = Without(grant, u) /\ withheld' = Without(withheld, u) /\ cred' = Without(cred, u)
      /\ groupGrant' = groupGrant /\ config' = config
  BY <1>1, <1>2 DEF DeleteUser
<1>4. PICK j : GoesOn(q, j) /\ j.op \in {"idle", "apply"} /\ (u \in users => Ending(j, r.nodes))
  <2>1. CASE u \in users
    <3>1. Apply(q, r.nodes)
      BY <1>1, <1>2, <2>1 DEF DeleteUser
    <3> QED  BY <3>1, ApplyEnding DEF TracedBy, GrantsHeld, Ending
  <2>2. CASE u \notin users
    <3>1. End(q)
      BY <1>1, <1>2, <2>2 DEF DeleteUser
    <3> QED  BY <2>2, <3>1, EndEnding DEF Ending
  <2> QED  BY <2>1, <2>2
<1>5. ASSUME NEW n \in Nodes, NEW c \in config[n], Rightful(n, c) PROVE Due(j, n) \/ Rightful(n, c)'
  <2>1. CASE c[1] = u
    <3>1. u \in users /\ n \in r.nodes
      BY <1>1, <1>2, <1>3, <1>5, <2>1 DEF Rightful, Covers
    <3> QED  BY <1>4, <3>1 DEF Ending, Due
  <2>2. CASE c[1] # u
    <3>0. PICK x : x = <<c[1], c[2], n>>
      OBVIOUS
    <3>1. x = <<c[1], c[2], n>> /\ x[1] = c[1]
      BY <3>0
    <3>2. x \in cred'
      BY <1>3, <1>5, <2>2, <3>1 DEF Rightful, Without
    <3>3. c[1] \in users' /\ c[1] \in Users
      BY <1>3, <1>5, <2>2 DEF Rightful, TracedBy, GrantsHeld, RowsOwned
    <3>4. groupOf'[c[1]] = groupOf[c[1]]
      BY <1>3, <2>2, <3>3 DEF TracedBy, GrantsHeld, RowsOwned
    <3>5. Of(grant', c[1]) = Of(grant, c[1]) /\ Of(withheld', c[1]) = Of(withheld, c[1])
      BY <1>3, <2>2, WithoutOf
    <3>6. c[2] \in UserProfileIDs(c[1])'
      BY <1>3, <1>5, <3>4, <3>5 DEF Rightful, UserProfileIDs
    <3> QED  BY <3>1, <3>2, <3>3, <3>6 DEF Rightful
  <2> QED  BY <2>1, <2>2
<1>6. LosesNone(r, j)
  BY <1>3, <1>5, NothingDue DEF LosesNone
<1>7. Covers(j)
  BY <1>4, CoversNothing
<1> QED  BY <1>1, <1>3, <1>4, <1>6, <1>7, OneRequestTraced

\* A node that is assembled has nobody else.
LEMMA AssembledIsHeld ==
    ASSUME RowsOwned, NEW n, NEW c \in Assembled(n)
    PROVE  n \in ReachOf[c[2]] /\ c[1] \in users /\ c[2] \in UserProfileIDs(c[1])
<1>1. PICK p \in Profiles : n \in ReachOf[p] /\ c \in ProfileUserIDs(p) \X {p}
  BY DEF Assembled
<1>2. PICK u \in ProfileUserIDs(p) : c = <<u, p>>
  BY <1>1
<1>3. c[1] = u /\ c[2] = p
  BY <1>2
<1>4. u \notin Where(withheld, p) /\ (u \in Where(grant, p) \/ (u \in users /\ groupOf[u] \in Where(groupGrant, p)))
  BY <1>2 DEF ProfileUserIDs
<1>5. PairSet(grant) /\ PairSet(withheld) /\ PairSet(groupGrant)
  BY RowsArePairs
<1>6. ASSUME NEW T, PairSet(T), NEW x, NEW y PROVE x \in Where(T, y) <=> <<x, y>> \in T
  <2>1. <<x, y>>[1] = x /\ <<x, y>>[2] = y
    OBVIOUS
  <2> QED  BY <1>6, <2>1 DEF Where, PairSet
<1>7. <<u, p>> \notin withheld
  BY <1>4, <1>5, <1>6
<1>8. <<u, p>> \in grant \/ (u \in users /\ <<groupOf[u], p>> \in groupGrant)
  BY <1>4, <1>5, <1>6
<1>9. u \in users
  BY <1>8 DEF RowsOwned
<1>10. p \in UserProfileIDs(u)
  BY <1>5, <1>7, <1>8, OfIff DEF UserProfileIDs
<1> QED  BY <1>1, <1>3, <1>9, <1>10

\* Nobody is left on a node that is assembled but those entitled to it.
LEMMA ApplyNodeTraced ==
    ASSUME NEW q \in Requests, TracedBy(q), GrantsHeld', NEW m \in Nodes, ApplyNode(q, m)
    PROVE  TracedBy(q)'
<1>1. /\ request[q].op = "apply" /\ config' = [config EXCEPT ![m] = Assembled(m)]
      /\ cred' = cred \cup {<<c[1], c[2], m>> : c \in Assembled(m)}
      /\ Apply(q, request[q].nodes \ {m}) /\ UNCHANGED tables
  BY DEF ApplyNode
<1>2. PICK j : GoesOn(q, j) /\ Ending(j, request[q].nodes \ {m})
  BY <1>1, ApplyEnding DEF TracedBy, GrantsHeld
<1>3. request'[q] = j
  BY <1>2 DEF GoesOn, TracedBy, GrantsHeld, RequestsShaped
<1>4. Over(config', Nodes) /\ config'[m] = Assembled(m) /\ \A n \in Nodes : n # m => config'[n] = config[n]
  BY <1>1 DEF TracedBy, Over
<1>5. users' = users /\ \A v : UserProfileIDs(v)' = UserProfileIDs(v)
  BY <1>1 DEF tables, UserProfileIDs
<1>6. Traced(request[q])
  BY DEF TracedBy
<1>7. ASSUME NEW n \in Nodes, NEW c \in config'[n]
      PROVE  n \in ReachOf[c[2]] /\ (Due(request'[q], n) \/ Rightful(n, c)')
  <2>1. CASE n = m
    <3>1. c \in Assembled(m)
      BY <1>4, <2>1
    <3>2. m \in ReachOf[c[2]] /\ c[1] \in users /\ c[2] \in UserProfileIDs(c[1])
      BY <3>1, AssembledIsHeld DEF TracedBy, GrantsHeld
    <3>3. <<c[1], c[2], m>> \in cred'
      BY <1>1, <3>1
    <3> QED  BY <1>5, <2>1, <3>2, <3>3 DEF Rightful
  <2>2. CASE n # m
    <3>1. c \in config[n]
      BY <1>4, <2>2
    <3>2. n \in ReachOf[c[2]] /\ (Due(request[q], n) \/ Rightful(n, c))
      BY <1>6, <3>1, Zenon DEF Traced
    <3>3. Due(request[q], n) => Due(j, n)
      BY <1>2, <2>2 DEF Due, Ending
    <3>4. Rightful(n, c) => Rightful(n, c)'
      BY <1>1, <1>5 DEF Rightful
    <3> QED  BY <1>3, <3>2, <3>3, <3>4
  <2> QED  BY <2>1, <2>2
<1>8. Traced(request[q])'
  BY <1>7, Zenon DEF Traced, Due
<1>9. Covers(request[q])'
  BY <1>2, <1>3 DEF Covers, Ending
<1> QED  BY <1>4, <1>8, <1>9 DEF TracedBy

\* The steps of the handler at q, and those of no handler.
HandlerStep(q) ==
    \/ \E u \in Users : \/ deleteUser(q, u)
                        \/ \E g \in Groups \cup {NoGroup} : setUserGroup(q, u, g)
                        \/ \E S \in SUBSET Objects : setUserNodeAccess(q, u, S)
    \/ \E g \in Groups, p \in Profiles, bind \in BOOLEAN : changeGroupProfile(q, g, p, bind)
    \/ \E u \in Users, p \in Profiles :
          \/ \E state \in {"grant", "deny", "inherit"} : setUserProfileAccess(q, u, p, state)
          \/ unbindUserProfile(q, u, p)
    \/ \E u \in Users, p \in Profiles : bindUserProfile(q, u, p)
    \/ \E u \in Users, p \in Profiles, n \in Nodes : adoptCredential(q, u, p, n)
    \/ MoveUser(q) \/ AfterMove(q) \/ DeleteUser(q) \/ SetUserNodeAccess(q)
    \/ BindGroupProfile(q) \/ UnbindGroupProfile(q) \/ DropMembers(q)
    \/ WriteProfileAccess(q) \/ AfterProfileAccess(q) \/ UnbindUserProfile(q)
    \/ \E n \in Nodes : ApplyNode(q, n)
FreeStep ==
    \/ \E u \in Users : createUser(u)
    \/ \E g \in Groups : createGroup(g) \/ deleteGroup(g)
    \/ \E o \in Objects : createObject(o) \/ deleteObject(o)
    \/ \E o \in Objects, S \in SUBSET Users : SetObjectUsers(o, S)
    \/ \E g \in Groups, S \in SUBSET Objects : setGroupNodeAccess(g, S)
    \/ RulesetStep

\* Every step is one or the other.
LEMMA StepSorts ==
    ASSUME RowStep \/ MoveStep \/ AccessStep \/ RulesetStep \/ ProfileStep
    PROVE  FreeStep \/ \E q \in Requests : HandlerStep(q)
<1>1. CASE RowStep
  BY <1>1, Zenon DEF RowStep, FreeStep, HandlerStep
<1>2. CASE MoveStep
  BY <1>2, Zenon DEF MoveStep, HandlerStep
<1>3. CASE AccessStep
  BY <1>3, Zenon DEF AccessStep, FreeStep, HandlerStep
<1>4. CASE RulesetStep
  BY <1>4 DEF FreeStep
<1>5. CASE ProfileStep
  BY <1>5, Zenon DEF ProfileStep, HandlerStep
<1> QED  BY <1>1, <1>2, <1>3, <1>4, <1>5

\* A handler's own step leaves it traced...
LEMMA HandlerTraced ==
    ASSUME NEW q \in Requests, TracedBy(q), GrantsHeld', HandlerStep(q) PROVE TracedBy(q)'
<1>1. CASE \/ \E u \in Users : \/ deleteUser(q, u)
                               \/ \E g \in Groups \cup {NoGroup} : setUserGroup(q, u, g)
                               \/ \E S \in SUBSET Objects : setUserNodeAccess(q, u, S)
           \/ \E g \in Groups, p \in Profiles, bind \in BOOLEAN : changeGroupProfile(q, g, p, bind)
           \/ \E u \in Users, p \in Profiles :
                 \/ \E state \in {"grant", "deny", "inherit"} : setUserProfileAccess(q, u, p, state)
                 \/ unbindUserProfile(q, u, p)
  <2>1. \/ \E u \in Users : \/ deleteUser(q, u)
                            \/ \E g : setUserGroup(q, u, g)
                            \/ \E no : setUserNodeAccess(q, u, no)
        \/ \E g \in Groups, p \in Profiles, bind \in BOOLEAN : changeGroupProfile(q, g, p, bind)
        \/ \E u \in Users, p \in Profiles :
              \/ \E state \in {"grant", "deny", "inherit"} : setUserProfileAccess(q, u, p, state)
              \/ unbindUserProfile(q, u, p)
    BY <1>1, Zenon
  <2> QED  BY <2>1, BegunTraced, Zenon
<1>2. CASE \/ SetUserNodeAccess(q) \/ BindGroupProfile(q)
           \/ \E u \in Users, p \in Profiles, n \in Nodes : adoptCredential(q, u, p, n)
           \/ \E u \in Users, p \in Profiles : bindUserProfile(q, u, p)
  BY <1>2, GivingTraced, Zenon
<1>3. CASE MoveUser(q) \/ AfterMove(q) \/ DeleteUser(q) \/ UnbindGroupProfile(q) \/ DropMembers(q)
           \/ WriteProfileAccess(q) \/ AfterProfileAccess(q) \/ UnbindUserProfile(q)
  BY <1>3, MoveTraced, DroppedTraced, DeleteUserTraced, UnbindGroupTraced, PairTraced
<1>4. CASE \E n \in Nodes : ApplyNode(q, n)
  BY <1>4, ApplyNodeTraced
<1> QED  BY <1>1, <1>2, <1>3, <1>4, Zenon DEF HandlerStep

\* ...and so does the step of nobody.
LEMMA FreeTraced ==
    ASSUME NEW q \in Requests, TracedBy(q), GrantsHeld', FreeStep
    PROVE  TracedBy(q)' /\ request' = request
<1>1. request' = request
  BY DEF FreeStep, createUser, createGroup, deleteGroup, createObject, deleteObject, SetObjectUsers,
         setGroupNodeAccess, RulesetStep, createRuleset, deleteRuleset, setGroupRuleset,
         setUserRuleset, decided
<1>2. CASE \E g \in Groups : deleteGroup(g)
  BY <1>1, <1>2, DeleteGroupTraced
<1>3. CASE \/ \E u \in Users : createUser(u)
           \/ \E g \in Groups : createGroup(g)
           \/ \E o \in Objects : createObject(o) \/ deleteObject(o)
           \/ \E o \in Objects, S \in SUBSET Users : SetObjectUsers(o, S)
           \/ \E g \in Groups, S \in SUBSET Objects : setGroupNodeAccess(g, S)
           \/ RulesetStep
  BY <1>1, <1>3, RowsTraced, Zenon
<1> QED  BY <1>2, <1>3, Zenon DEF FreeStep

\* A handler moves nobody else.
LEMMA HandlerMovesItself ==
    ASSUME NEW q \in Requests, HandlerStep(q), NEW x \in Requests, x # q, RequestsShaped
    PROVE  request'[x] = request[x]
<1>1. ASSUME NEW j, Begin(q, j) PROVE request'[x] = request[x]
  BY <1>1 DEF Begin, RequestsShaped
<1>2. ASSUME NEW ns, Apply(q, ns) PROVE request'[x] = request[x]
  BY <1>2 DEF Apply, End, Goto, RequestsShaped
<1>3. ASSUME End(q) \/ \E op, ns : Goto(q, op, ns) PROVE request'[x] = request[x]
  BY <1>3 DEF End, Goto, RequestsShaped
<1>4. CASE \/ \E u \in Users : \/ deleteUser(q, u)
                               \/ \E g \in Groups \cup {NoGroup} : setUserGroup(q, u, g)
                               \/ \E S \in SUBSET Objects : setUserNodeAccess(q, u, S)
           \/ \E g \in Groups, p \in Profiles, bind \in BOOLEAN : changeGroupProfile(q, g, p, bind)
           \/ \E u \in Users, p \in Profiles :
                 \/ \E state \in {"grant", "deny", "inherit"} : setUserProfileAccess(q, u, p, state)
                 \/ unbindUserProfile(q, u, p)
  <2>1. \E j : Begin(q, j)
    BY <1>4, Zenon DEF deleteUser, setUserGroup, setUserNodeAccess, changeGroupProfile,
                       setUserProfileAccess, unbindUserProfile
  <2> QED  BY <1>1, <2>1
<1>5. CASE \/ \E u \in Users, p \in Profiles : bindUserProfile(q, u, p)
           \/ \E u \in Users, p \in Profiles, n \in Nodes : adoptCredential(q, u, p, n)
           \/ AfterMove(q) \/ DropMembers(q) \/ AfterProfileAccess(q) \/ UnbindUserProfile(q)
           \/ \E n \in Nodes : ApplyNode(q, n)
  <2>1. \E ns : Apply(q, ns)
    BY <1>5, Zenon DEF bindUserProfile, adoptCredential, AfterMove, DropMembers, AfterProfileAccess,
                       UnbindUserProfile, ApplyNode
  <2> QED  BY <1>2, <2>1
<1>6. CASE DeleteUser(q) \/ BindGroupProfile(q)
  BY <1>2, <1>3, <1>6 DEF DeleteUser, BindGroupProfile
<1>7. CASE MoveUser(q) \/ SetUserNodeAccess(q) \/ UnbindGroupProfile(q) \/ WriteProfileAccess(q)
  BY <1>3, <1>7 DEF MoveUser, SetUserNodeAccess, UnbindGroupProfile, WriteProfileAccess
<1> QED  BY <1>4, <1>5, <1>6, <1>7, Zenon DEF HandlerStep

\* A request that is over in one step is a grant that reaches no node: it takes nothing.
LEMMA DoneAtOnce ==
    ASSUME NEW q \in Requests, HandlerStep(q), request[q] = Idle, request'[q] = Idle, RequestsShaped
    PROVE  NothingTaken /\ config' = config /\ cred' = cred
<1>1. request[q].op = "idle" /\ request'[q].op = "idle"
  BY DEF Idle
<1>2. ASSUME NEW j, Begin(q, j), j.op # "idle" PROVE FALSE
  BY <1>1, <1>2 DEF Begin, RequestsShaped
<1>3. ~ \/ \E u \in Users : \/ deleteUser(q, u)
                            \/ \E g \in Groups \cup {NoGroup} : setUserGroup(q, u, g)
                            \/ \E S \in SUBSET Objects : setUserNodeAccess(q, u, S)
  <2>1. \A u : ~deleteUser(q, u)
    <3> SUFFICES ASSUME NEW u, deleteUser(q, u) PROVE FALSE
      OBVIOUS
    <3>1. PICK j : j = [Idle EXCEPT !.op = "delete", !.user = u, !.nodes = NodesForUser(u)]
      OBVIOUS
    <3> QED  BY <1>2, <3>1 DEF deleteUser, Idle
  <2>2. \A u, g : ~setUserGroup(q, u, g)
    <3> SUFFICES ASSUME NEW u, NEW g, setUserGroup(q, u, g) PROVE FALSE
      OBVIOUS
    <3>1. PICK j : j = [Idle EXCEPT !.op = "move", !.user = u, !.group = g,
                                    !.nodes = userCredentialNodes(u)]
      OBVIOUS
    <3> QED  BY <1>2, <3>1 DEF setUserGroup, Idle
  <2>3. \A u, S : ~setUserNodeAccess(q, u, S)
    <3> SUFFICES ASSUME NEW u, NEW S, setUserNodeAccess(q, u, S) PROVE FALSE
      OBVIOUS
    <3>1. PICK j : j = [Idle EXCEPT !.op = "access", !.user = u, !.group = groupOf[u], !.members = S]
      OBVIOUS
    <3> QED  BY <1>2, <3>1 DEF setUserNodeAccess, Idle
  <2> QED  BY <2>1, <2>2, <2>3, Zenon
<1>4. ~ \E g \in Groups, p \in Profiles, bind \in BOOLEAN : changeGroupProfile(q, g, p, bind)
  <2> SUFFICES ASSUME NEW g, NEW p, NEW bind \in BOOLEAN, changeGroupProfile(q, g, p, bind) PROVE FALSE
    OBVIOUS
  <2>1. PICK op \in {"bindgroup", "unbindgroup"} : op = IF bind THEN "bindgroup" ELSE "unbindgroup"
    OBVIOUS
  <2>2. PICK j : j = [Idle EXCEPT !.op = op, !.group = g, !.profile = p, !.members = GroupMemberIDs(g)]
    OBVIOUS
  <2>3. Begin(q, j)
    BY <2>1, <2>2 DEF changeGroupProfile
  <2> QED  BY <1>2, <2>1, <2>2, <2>3 DEF Idle
<1>5. ~ \E u \in Users, p \in Profiles :
           \/ \E state \in {"grant", "deny", "inherit"} : setUserProfileAccess(q, u, p, state)
           \/ unbindUserProfile(q, u, p)
  <2>1. ASSUME NEW u, NEW p, NEW state \in {"grant", "deny", "inherit"},
               setUserProfileAccess(q, u, p, state)
        PROVE  FALSE
    <3>1. PICK m : m = IF p \in UserProfileIDs(u) THEN {u} ELSE {}
      OBVIOUS
    <3>2. PICK j : j = [Idle EXCEPT !.op = state, !.user = u, !.profile = p, !.members = m]
      OBVIOUS
    <3>3. Begin(q, j)
      BY <2>1, <3>1, <3>2 DEF setUserProfileAccess
    <3> QED  BY <1>2, <3>2, <3>3 DEF Idle
  <2>2. ASSUME NEW u, NEW p, unbindUserProfile(q, u, p) PROVE FALSE
    <3>1. PICK j : j = [Idle EXCEPT !.op = "unbind", !.user = u, !.profile = p,
                                    !.nodes = NodesForUserProfile(u, p)]
      OBVIOUS
    <3> QED  BY <1>2, <2>2, <3>1 DEF unbindUserProfile, Idle
  <2> QED  BY <2>1, <2>2
<1>6. ~ \E u \in Users, p \in Profiles, n \in Nodes : adoptCredential(q, u, p, n)
  <2> SUFFICES ASSUME NEW u, NEW p, NEW n, adoptCredential(q, u, p, n) PROVE FALSE
    OBVIOUS
  <2>1. Goto(q, "apply", {n})
    BY DEF adoptCredential, Apply
  <2>2. PICK j : j = Stage(request[q], "apply", {n})
    OBVIOUS
  <2>3. GoesOn(q, j) /\ j.op = "apply"
    BY <2>1, <2>2, GotoParts DEF Stage
  <2>4. request'[q] = j
    BY <2>3 DEF GoesOn, RequestsShaped
  <2> QED  BY <1>1, <2>3, <2>4 DEF Idle
<1>7. PICK u \in Users, p \in Profiles : bindUserProfile(q, u, p)
  BY <1>1, <1>3, <1>4, <1>5, <1>6
     DEF HandlerStep, MoveUser, AfterMove, DeleteUser, SetUserNodeAccess, BindGroupProfile,
         UnbindGroupProfile, DropMembers, WriteProfileAccess, AfterProfileAccess, UnbindUserProfile,
         ApplyNode
<1>8. /\ users' = users /\ groupOf' = groupOf /\ grant \subseteq grant' /\ withheld' = withheld
      /\ groupGrant' = groupGrant /\ config' = config /\ cred' = cred
  BY <1>7 DEF bindUserProfile
<1>9. \A x : Of(grant, x) \subseteq Of(grant', x)
  BY <1>8 DEF Of
<1>10. NothingTaken
  BY <1>8, <1>9 DEF NothingTaken, UserProfileIDs
<1> QED  BY <1>8, <1>10

\* Nobody else is in flight.
Lone(q) == \A x \in Requests : x # q => request[x] = Idle

\* As long as no two handlers have overlapped, the one in flight is traced: no client is left
\* where it is not entitled and forgotten.
GrantsTraced ==
    /\ GrantsHeld
    /\ ~ overlapped => OneInFlight /\ \A q \in Requests : Lone(q) => TracedBy(q)

\* It stays so.
LEMMA TracedStep == ASSUME GrantsTraced, [GrantsNext]_gvars PROVE GrantsTraced'
<1>1. GrantsHeld' /\ RequestsShaped
  BY GrantsStep DEF GrantsTraced, GrantsHeld
<1>2. CASE UNCHANGED gvars
  <2>1. /\ users' = users /\ groupOf' = groupOf /\ grant' = grant /\ withheld' = withheld
        /\ groupGrant' = groupGrant /\ config' = config /\ cred' = cred /\ request' = request
        /\ overlapped' = overlapped
    BY <1>2 DEF gvars, tables
  <2>2. OneInFlight' <=> OneInFlight
    BY <2>1 DEF OneInFlight, InFlight
  <2>3. ASSUME NEW q \in Requests, TracedBy(q) PROVE TracedBy(q)'
    <3>1. LosesNone(request[q], request[q])
      BY <2>1, SameTablesTaken, NothingTakenLoses
    <3> QED  BY <1>1, <2>1, <2>3, <3>1, NoRequestTraced
  <2>4. ASSUME NEW q \in Requests PROVE Lone(q)' <=> Lone(q)
    BY <2>1 DEF Lone
  <2> QED  BY <1>1, <2>1, <2>2, <2>3, <2>4 DEF GrantsTraced
<1>3. CASE GrantsNext
  <2>1. FreeStep \/ \E q \in Requests : HandlerStep(q)
    BY <1>3, StepSorts DEF GrantsNext
  <2> SUFFICES ASSUME ~ overlapped'
               PROVE  OneInFlight' /\ \A q \in Requests : Lone(q)' => TracedBy(q)'
    BY <1>1 DEF GrantsTraced
  <2>2. ~ overlapped /\ OneInFlight'
    BY <1>3 DEF GrantsNext, Noted
  <2>3. OneInFlight /\ \A q \in Requests : Lone(q) => TracedBy(q)
    BY <2>2 DEF GrantsTraced
  <2> SUFFICES ASSUME NEW q \in Requests, Lone(q)' PROVE TracedBy(q)'
    BY <2>2
  <2>4. CASE FreeStep
    <3>1. request' = request
      BY <2>4 DEF FreeStep, createUser, createGroup, deleteGroup, createObject, deleteObject,
                  SetObjectUsers, setGroupNodeAccess, RulesetStep, createRuleset, deleteRuleset,
                  setGroupRuleset, setUserRuleset, decided
    <3>2. Lone(q)
      BY <3>1 DEF Lone
    <3> QED  BY <1>1, <2>3, <2>4, <3>2, FreeTraced
  <2>5. CASE HandlerStep(q)
    <3>1. Lone(q)
      BY <1>1, <2>5, HandlerMovesItself DEF Lone
    <3> QED  BY <1>1, <2>3, <2>5, <3>1, HandlerTraced
  <2>6. ASSUME NEW x \in Requests, x # q, HandlerStep(x) PROVE TracedBy(q)'
    <3>1. request'[x] = Idle /\ request'[q] = request[q]
      BY <1>1, <2>6, HandlerMovesItself DEF Lone
    <3>2. \A y \in Requests : y # x /\ y # q => request[y] = Idle
      BY <1>1, <2>6, HandlerMovesItself DEF Lone
    <3>3. CASE request[x] = Idle
      <4>1. Lone(q)
        BY <3>2, <3>3 DEF Lone
      <4>2. TracedBy(q)
        BY <2>3, <4>1
      <4>3. NothingTaken /\ config' = config /\ cred' = cred
        BY <1>1, <2>6, <3>1, <3>3, DoneAtOnce
      <4>4. LosesNone(request[q], request[q])
        BY <4>3, NothingTakenLoses
      <4> QED  BY <1>1, <3>1, <4>2, <4>3, <4>4, NoRequestTraced
    <3>4. CASE request[x] # Idle
      <4>1. request[q] = Idle
        BY <2>3, <2>6, <3>4 DEF OneInFlight, InFlight
      <4>2. Lone(x)
        BY <3>2, <4>1 DEF Lone
      <4>3. TracedBy(x)'
        BY <1>1, <2>3, <2>6, <4>2, HandlerTraced
      <4>4. request'[q] = request'[x]
        BY <3>1, <4>1
      <4> QED  BY <4>3, <4>4 DEF TracedBy
    <3> QED  BY <3>3, <3>4
  <2> QED  BY <2>1, <2>4, <2>5, <2>6
<1> QED  BY <1>2, <1>3

\* api/group.go, api/user.go, for any number of requests, as long as no two have overlapped: what
\* was withdrawn, personally, by a move, by the group or with the subscriber, is in the config of
\* no node once the request that took it has returned.
THEOREM WithdrawnLeaves == GrantsSpec => []WithdrawnIsGone
<1>1. GrantsInit => GrantsTraced
  <2> SUFFICES ASSUME GrantsInit PROVE GrantsTraced
    OBVIOUS
  <2>1. Over(config, Nodes) /\ \A n \in Nodes : config[n] = {}
    BY DEF GrantsInit, Over
  <2>2. \A q \in Requests : request[q] = Idle
    BY DEF GrantsInit
  <2>3. \A q \in Requests : Covers(request[q]) /\ Traced(request[q])
    BY <2>1, <2>2 DEF Covers, Traced, Idle
  <2>4. OneInFlight
    BY <2>2 DEF OneInFlight, InFlight
  <2> QED  BY <2>1, <2>3, <2>4, GrantsInitial DEF GrantsTraced, TracedBy
<1>2. GrantsTraced /\ [GrantsNext]_gvars => GrantsTraced'
  BY TracedStep
<1>3. GrantsTraced => WithdrawnIsGone
  <2> SUFFICES ASSUME GrantsTraced, InFlight = {}, ~ overlapped, NEW n \in Nodes, NEW c \in config[n]
               PROVE  c[1] \in users /\ c[2] \in UserProfileIDs(c[1])
    BY DEF WithdrawnIsGone
  <2>1. PICK q \in Requests : TRUE
    BY GrantsAssumption
  <2>2. request[q] = Idle /\ Lone(q)
    BY DEF InFlight, Lone
  <2>3. TracedBy(q)
    BY <2>2 DEF GrantsTraced
  <2> QED  BY <2>2, <2>3, IdleTraced DEF Rightful
<1> QED  BY <1>1, <1>2, <1>3, PTL DEF GrantsSpec

-----------------------------------------------------------------------------
(* Sequences filtered by a set *)

\* The order of the natural numbers, as a relation.
Preceding == {ss \in Nat \X Nat : ss[1] < ss[2]}

LEMMA PrecedingWellFounded == IsWellFoundedOn(Preceding, Nat)
BY NatLessThanWellFounded, Zenon DEF OpToRel, Preceding

\* Induction over the natural numbers, for a set rather than for an operator.
LEMMA CountedUp ==
    ASSUME NEW S, 0 \in S, \A n \in Nat : n \in S => n + 1 \in S
    PROVE  Nat \subseteq S
<1> DEFINE T == Nat \ S
<1> SUFFICES ASSUME T # {} PROVE FALSE
  OBVIOUS
<1>1. PICK x \in T : \A y \in T : ~ (<<y, x>> \in Preceding)
  <2>1. T \subseteq Nat
    OBVIOUS
  <2> HIDE DEF T
  <2> QED  BY <2>1, WFMin, PrecedingWellFounded
<1>2. \A y \in T : ~ (y < x)
  BY <1>1 DEF Preceding
<1>3. x - 1 \in Nat /\ x - 1 \in S
  BY <1>2
<1> QED  BY <1>3

\* Sequences are what is appended to the empty one.
LEMMA Appended ==
    ASSUME NEW A, NEW X, <<>> \in X, \A s \in Seq(A), a \in A : s \in X => Append(s, a) \in X
    PROVE  Seq(A) \subseteq X
<1> DEFINE S == {n \in Nat : \A s \in Seq(A) : Len(s) = n => s \in X}
<1>1. 0 \in S
  <2>1. ASSUME NEW s \in Seq(A), Len(s) = 0 PROVE s \in X
    BY <2>1
  <2> QED  BY <2>1
<1>2. ASSUME NEW n \in Nat, n \in S PROVE n + 1 \in S
  <2>1. ASSUME NEW s \in Seq(A), Len(s) = n + 1 PROVE s \in X
    <3>1. PICK t : t = [i \in 1..n |-> s[i]]
      OBVIOUS
    <3>2. t \in Seq(A) /\ Len(t) = n /\ s[n + 1] \in A
      BY <2>1, <3>1
    <3>3. s = Append(t, s[n + 1])
      BY <2>1, <3>1, <3>2
    <3>4. t \in X
      BY <1>2, <3>2
    <3> QED  BY <3>2, <3>3, <3>4
  <2> QED  BY <2>1
<1>3. Nat \subseteq S
  <2> HIDE DEF S
  <2> QED  BY <1>1, <1>2, CountedUp
<1> QED  BY <1>3

\* What Keep has taken of the first i elements.
Taken(s, S, F, i) ==
    IF i = 0 THEN <<>> ELSE IF s[i] \in S THEN Append(F[i - 1], s[i]) ELSE F[i - 1]
Filters(F, s, S, n) == F = [i \in 0..n |-> Taken(s, S, F, i)]

\* The filter of a sequence exists...
LEMMA FilterExists == ASSUME NEW s, NEW S, NEW n \in Nat PROVE \E F : Filters(F, s, S, n)
<1> DEFINE P == {k \in Nat : \E F : Filters(F, s, S, k)}
<1>1. 0 \in P
  <2>1. Filters([i \in 0..0 |-> <<>>], s, S, 0)
    BY DEF Filters, Taken
  <2> QED  BY <2>1
<1>2. ASSUME NEW k \in Nat, k \in P PROVE k + 1 \in P
  <2>1. PICK F : Filters(F, s, S, k)
    BY <1>2
  <2> DEFINE last == IF s[k + 1] \in S THEN Append(F[k], s[k + 1]) ELSE F[k]
  <2> DEFINE G == [i \in 0..(k + 1) |-> IF i \in 0..k THEN F[i] ELSE last]
  <2>2. \A i \in 0..k : F[i] = Taken(s, S, F, i)
    BY <2>1 DEF Filters
  <2>3. ASSUME NEW i \in 0..(k + 1) PROVE G[i] = Taken(s, S, G, i)
    <3>1. CASE i \in 0..k
      <4>1. G[i] = F[i] /\ (i # 0 => G[i - 1] = F[i - 1])
        BY <3>1
      <4> QED  BY <2>2, <3>1, <4>1 DEF Taken
    <3>2. CASE i = k + 1
      <4>1. G[i] = last /\ G[i - 1] = F[k] /\ i # 0
        BY <3>2
      <4> QED  BY <3>2, <4>1 DEF Taken
    <3> QED  BY <3>1, <3>2
  <2>4. Filters(G, s, S, k + 1)
    <3> HIDE DEF G
    <3>1. G = [i \in 0..(k + 1) |-> G[i]]
      BY DEF G
    <3> QED  BY <2>3, <3>1 DEF Filters
  <2> QED  BY <2>4
<1> HIDE DEF P
<1>3. Nat \subseteq P
  BY <1>1, <1>2, CountedUp
<1> QED  BY <1>3 DEF P

\* ...and is what Keep computes.
LEMMA KeepFilters ==
    ASSUME NEW s, NEW S, Len(s) \in Nat
    PROVE  \E F : Filters(F, s, S, Len(s)) /\ Keep(s, S) = F[Len(s)]
<1> DEFINE F == CHOOSE G : G = [i \in 0..Len(s) |->
                    IF i = 0 THEN <<>> ELSE IF s[i] \in S THEN Append(G[i - 1], s[i]) ELSE G[i - 1]]
<1>1. \E G : G = [i \in 0..Len(s) |->
                    IF i = 0 THEN <<>> ELSE IF s[i] \in S THEN Append(G[i - 1], s[i]) ELSE G[i - 1]]
  <2>1. PICK G : Filters(G, s, S, Len(s))
    BY FilterExists
  <2>2. G = [i \in 0..Len(s) |->
                    IF i = 0 THEN <<>> ELSE IF s[i] \in S THEN Append(G[i - 1], s[i]) ELSE G[i - 1]]
    BY <2>1 DEF Filters, Taken
  <2> QED  BY <2>2, Zenon
<1>2. F = [i \in 0..Len(s) |->
                    IF i = 0 THEN <<>> ELSE IF s[i] \in S THEN Append(F[i - 1], s[i]) ELSE F[i - 1]]
  BY <1>1, Zenon
<1>3. Filters(F, s, S, Len(s))
  BY <1>2, Zenon DEF Filters, Taken
<1>4. Keep(s, S) = F[Len(s)]
  BY Zenon DEF Keep
<1> QED  BY <1>3, <1>4, Zenon

\* Filters of sequences that start alike start alike.
LEMMA FiltersAgree ==
    ASSUME NEW n \in Nat, NEW m \in Nat, n <= m, NEW s, NEW t, NEW S, NEW F, NEW G,
           Filters(F, s, S, n), Filters(G, t, S, m), \A i \in 1..n : s[i] = t[i]
    PROVE  \A i \in 0..n : F[i] = G[i]
<1> DEFINE P == {k \in Nat : k <= n => F[k] = G[k]}
<1>1. (\A i \in 0..n : F[i] = Taken(s, S, F, i)) /\ (\A i \in 0..m : G[i] = Taken(t, S, G, i))
  BY DEF Filters
<1>2. 0 \in P
  BY <1>1 DEF Taken
<1>3. ASSUME NEW k \in Nat, k \in P PROVE k + 1 \in P
  <2> SUFFICES ASSUME k + 1 <= n PROVE F[k + 1] = G[k + 1]
    OBVIOUS
  <2>1. F[k + 1] = Taken(s, S, F, k + 1) /\ G[k + 1] = Taken(t, S, G, k + 1)
    BY <1>1
  <2>2. F[k] = G[k] /\ s[k + 1] = t[k + 1] /\ k + 1 # 0 /\ (k + 1) - 1 = k
    BY <1>3
  <2> QED  BY <2>1, <2>2 DEF Taken
<1> HIDE DEF P
<1>4. Nat \subseteq P
  BY <1>2, <1>3, CountedUp
<1> QED  BY <1>4 DEF P

LEMMA KeepEmpty == ASSUME NEW S PROVE Keep(<<>>, S) = <<>>
<1>1. PICK F : Filters(F, <<>>, S, 0) /\ Keep(<<>>, S) = F[0]
  BY KeepFilters
<1> QED  BY <1>1 DEF Filters, Taken

\* An element more is kept or not, at the end.
LEMMA KeepAppend ==
    ASSUME NEW A, NEW s \in Seq(A), NEW a \in A, NEW S
    PROVE  Keep(Append(s, a), S) = IF a \in S THEN Append(Keep(s, S), a) ELSE Keep(s, S)
<1>1. PICK t : t = Append(s, a)
  OBVIOUS
<1>2. PICK n : n = Len(s)
  OBVIOUS
<1>3. n \in Nat /\ Len(t) = n + 1 /\ t[n + 1] = a /\ \A i \in 1..n : s[i] = t[i]
  BY <1>1, <1>2
<1>4. PICK F : Filters(F, s, S, n) /\ Keep(s, S) = F[n]
  BY <1>2, <1>3, KeepFilters
<1>5. PICK G : Filters(G, t, S, n + 1) /\ Keep(t, S) = G[n + 1]
  BY <1>3, KeepFilters
<1>6. F[n] = G[n]
  <2>1. \A i \in 0..n : F[i] = G[i]
    BY <1>3, <1>4, <1>5, FiltersAgree
  <2> QED  BY <1>3, <2>1
<1>7. G[n + 1] = Taken(t, S, G, n + 1)
  <2>1. n + 1 \in 0..(n + 1)
    BY <1>3
  <2> QED  BY <1>5, <2>1, Zenon DEF Filters
<1>8. (n + 1) # 0 /\ (n + 1) - 1 = n
  BY <1>3
<1>9. Keep(t, S) = IF a \in S THEN Append(G[n], a) ELSE G[n]
  BY <1>3, <1>5, <1>7, <1>8 DEF Taken
<1> QED  BY <1>1, <1>4, <1>6, <1>9

LEMMA AppendSet ==
    ASSUME NEW A, NEW s \in Seq(A), NEW a \in A
    PROVE  ToSet(Append(s, a)) = ToSet(s) \cup {a}
<1>1. PICK t : t = Append(s, a)
  OBVIOUS
<1>2. /\ DOMAIN s = 1..Len(s) /\ DOMAIN t = 1..(Len(s) + 1) /\ Len(s) \in Nat
      /\ t[Len(s) + 1] = a /\ \A i \in 1..Len(s) : t[i] = s[i]
  BY <1>1
<1>3. ASSUME NEW x, x \in ToSet(t) PROVE x \in ToSet(s) \cup {a}
  <2>1. PICK i \in 1..(Len(s) + 1) : x = t[i]
    BY <1>2, <1>3 DEF ToSet
  <2>2. i \in 1..Len(s) \/ i = Len(s) + 1
    BY <1>2
  <2> QED  BY <1>2, <2>1, <2>2 DEF ToSet
<1>4. ASSUME NEW x, x \in ToSet(s) \cup {a} PROVE x \in ToSet(t)
  <2>1. CASE x = a
    <3>1. Len(s) + 1 \in DOMAIN t
      BY <1>2
    <3> QED  BY <1>2, <2>1, <3>1 DEF ToSet
  <2>2. CASE x \in ToSet(s)
    <3>1. PICK i \in 1..Len(s) : x = s[i]
      BY <1>2, <2>2 DEF ToSet
    <3>2. i \in DOMAIN t /\ t[i] = x
      BY <1>2, <3>1
    <3> QED  BY <3>2 DEF ToSet
  <2> QED  BY <1>4, <2>1, <2>2
<1> QED  BY <1>1, <1>3, <1>4

LEMMA EmptySet == ToSet(<<>>) = {}
BY DEF ToSet

\* Keep's elements, in what it is given...
LEMMA KeepSeq ==
    ASSUME NEW A, NEW s \in Seq(A), NEW S
    PROVE  Keep(s, S) \in Seq(A) /\ ToSet(Keep(s, S)) = ToSet(s) \cap S
<1> DEFINE X == {t \in Seq(A) : Keep(t, S) \in Seq(A) /\ ToSet(Keep(t, S)) = ToSet(t) \cap S}
<1>1. <<>> \in X
  <2>1. Keep(<<>>, S) = <<>> /\ ToSet(<<>>) = {}
    BY KeepEmpty, EmptySet
  <2>2. <<>> \in Seq(A)
    OBVIOUS
  <2> QED  BY <2>1, <2>2
<1>2. ASSUME NEW t \in Seq(A), NEW a \in A, t \in X PROVE Append(t, a) \in X
  <2>1. Keep(t, S) \in Seq(A) /\ ToSet(Keep(t, S)) = ToSet(t) \cap S
    BY <1>2
  <2>2. Keep(Append(t, a), S) = IF a \in S THEN Append(Keep(t, S), a) ELSE Keep(t, S)
    BY KeepAppend
  <2>3. ToSet(Append(t, a)) = ToSet(t) \cup {a} /\ Append(t, a) \in Seq(A)
    BY AppendSet
  <2>4. Append(Keep(t, S), a) \in Seq(A) /\ ToSet(Append(Keep(t, S), a)) = ToSet(Keep(t, S)) \cup {a}
    BY <2>1, AppendSet
  <2>5. Keep(Append(t, a), S) \in Seq(A)
    BY <2>1, <2>2, <2>4
  <2>6. ToSet(Keep(Append(t, a), S)) = ToSet(Append(t, a)) \cap S
    BY <2>1, <2>2, <2>3, <2>4
  <2> QED  BY <2>3, <2>5, <2>6
<1> HIDE DEF X
<1>3. Seq(A) \subseteq X
  BY <1>1, <1>2, Appended
<1> QED  BY <1>3 DEF X

\* ...and twice over keeps the members of both sets.
LEMMA KeepTwice ==
    ASSUME NEW A, NEW s \in Seq(A), NEW S, NEW T
    PROVE  Keep(Keep(s, S), T) = Keep(s, S \cap T)
<1>0. PICK I : I = S \cap T
  OBVIOUS
<1> DEFINE X == {t \in Seq(A) : Keep(Keep(t, S), T) = Keep(t, I)}
<1>1. <<>> \in X
  <2>1. Keep(<<>>, S) = <<>> /\ Keep(<<>>, T) = <<>> /\ Keep(<<>>, I) = <<>>
    BY KeepEmpty
  <2> QED  BY <2>1
<1>2. ASSUME NEW t \in Seq(A), NEW a \in A, t \in X PROVE Append(t, a) \in X
  <2>1. PICK k : k = Keep(t, S) /\ k \in Seq(A) /\ Keep(k, T) = Keep(t, I)
    BY <1>2, KeepSeq
  <2>2. PICK u : u = Append(t, a)
    OBVIOUS
  <2>3. /\ Keep(u, S) = IF a \in S THEN Append(k, a) ELSE k
        /\ Keep(u, I) = IF a \in I THEN Append(Keep(t, I), a) ELSE Keep(t, I)
    BY <2>1, <2>2, KeepAppend
  <2>4. Keep(Append(k, a), T) = IF a \in T THEN Append(Keep(k, T), a) ELSE Keep(k, T)
    BY <2>1, KeepAppend
  <2>5. a \in I <=> a \in S /\ a \in T
    BY <1>0
  <2>6. Keep(Keep(u, S), T) = Keep(u, I)
    BY <2>1, <2>3, <2>4, <2>5
  <2>7. Append(t, a) \in Seq(A)
    OBVIOUS
  <2> QED  BY <2>2, <2>6, <2>7
<1> HIDE DEF X
<1>3. Seq(A) \subseteq X
  BY <1>1, <1>2, Appended
<1> QED  BY <1>0, <1>3 DEF X

\* Landings, of the rules f.
LandingsOf(f, s) == [i \in 1..Len(s) |-> <<s[i], f[s[i]].to>>]

LEMMA LandingsAppend ==
    ASSUME NEW f, NEW s \in Seq(Rules), NEW e \in Rules
    PROVE  LandingsOf(f, Append(s, e)) = Append(LandingsOf(f, s), <<e, f[e].to>>)
<1>9. PICK g : g = LandingsOf(f, s)
  OBVIOUS
<1>0. PICK n \in Nat : n = Len(s)
  OBVIOUS
<1>10. PICK B : B = {<<s[i], f[s[i]].to>> : i \in 1..n}
  OBVIOUS
<1>1. g \in [1..n -> B] /\ \A i \in 1..n : g[i] = <<s[i], f[s[i]].to>>
  BY <1>0, <1>9, <1>10 DEF LandingsOf
<1>2. Len(g) = n /\ g \in Seq(B)
  BY <1>1
<1>3. PICK t : t = Append(s, e)
  OBVIOUS
<1>4. Len(t) = n + 1 /\ t[n + 1] = e /\ \A i \in 1..n : t[i] = s[i]
  BY <1>0, <1>3
<1>5. PICK h : h = Append(g, <<e, f[e].to>>)
  OBVIOUS
<1>6. /\ h = [i \in 1..(n + 1) |-> h[i]] /\ h[n + 1] = <<e, f[e].to>>
      /\ \A i \in 1..n : h[i] = g[i]
  BY <1>2, <1>5
<1>7. \A i \in 1..(n + 1) : h[i] = <<t[i], f[t[i]].to>>
  <2>1. \A i \in 1..(n + 1) : i \in 1..n \/ i = n + 1
    OBVIOUS
  <2> QED  BY <1>1, <1>4, <1>6, <2>1
<1>8. LandingsOf(f, t) = h
  BY <1>4, <1>6, <1>7 DEF LandingsOf
<1> QED  BY <1>3, <1>5, <1>8, <1>9

LEMMA LandingsEmpty == ASSUME NEW f PROVE LandingsOf(f, <<>>) = <<>>
BY DEF LandingsOf

\* A rule and its landing, for each.
LEMMA LandingsSet ==
    ASSUME NEW f, NEW s \in Seq(Rules)
    PROVE  /\ LandingsOf(f, s) \in Seq({<<e, f[e].to>> : e \in Rules})
           /\ ToSet(LandingsOf(f, s)) = {<<e, f[e].to>> : e \in ToSet(s)}
<1>0. PICK P : P = {<<e, f[e].to>> : e \in Rules}
  OBVIOUS
<1>4. ASSUME NEW g \in Seq(P), NEW b \in P PROVE ToSet(Append(g, b)) = ToSet(g) \cup {b}
  BY AppendSet
<1> DEFINE X == {t \in Seq(Rules) : /\ LandingsOf(f, t) \in Seq(P)
                                    /\ ToSet(LandingsOf(f, t)) = {<<e, f[e].to>> : e \in ToSet(t)}}
<1>1. <<>> \in X
  <2>1. LandingsOf(f, <<>>) = <<>> /\ ToSet(<<>>) = {}
    BY LandingsEmpty, EmptySet
  <2>2. <<>> \in Seq(P) /\ <<>> \in Seq(Rules)
    OBVIOUS
  <2> QED  BY <2>1, <2>2
<1>2. ASSUME NEW t \in Seq(Rules), NEW a \in Rules, t \in X PROVE Append(t, a) \in X
  <2>1. /\ LandingsOf(f, Append(t, a)) = Append(LandingsOf(f, t), <<a, f[a].to>>)
        /\ LandingsOf(f, t) \in Seq(P) /\ ToSet(LandingsOf(f, t)) = {<<e, f[e].to>> : e \in ToSet(t)}
    BY <1>2, LandingsAppend
  <2>2. <<a, f[a].to>> \in P
    BY <1>0
  <2>3. /\ ToSet(Append(LandingsOf(f, t), <<a, f[a].to>>)) = ToSet(LandingsOf(f, t)) \cup {<<a, f[a].to>>}
        /\ Append(LandingsOf(f, t), <<a, f[a].to>>) \in Seq(P)
    <3>1. PICK g : g = LandingsOf(f, t) /\ g \in Seq(P)
      BY <2>1
    <3>2. PICK b : b = <<a, f[a].to>> /\ b \in P
      BY <2>2
    <3>3. ToSet(Append(g, b)) = ToSet(g) \cup {b}
      BY <1>4, <3>1, <3>2, Zenon
    <3>4. Append(g, b) \in Seq(P)
      BY <3>1, <3>2
    <3> QED  BY <3>1, <3>2, <3>3, <3>4
  <2>4. ToSet(Append(t, a)) = ToSet(t) \cup {a} /\ Append(t, a) \in Seq(Rules)
    BY AppendSet
  <2>5. ToSet(LandingsOf(f, Append(t, a))) = {<<e, f[e].to>> : e \in ToSet(Append(t, a))}
    BY <2>1, <2>3, <2>4
  <2> QED  BY <2>1, <2>3, <2>4, <2>5
<1> HIDE DEF X
<1>3. Seq(Rules) \subseteq X
  BY <1>1, <1>2, Appended
<1> QED  BY <1>0, <1>3 DEF X

\* The landings of one kind are those of the rules that land there.
LEMMA KeepLandings ==
    ASSUME NEW f, NEW s \in Seq(Rules), NEW Q, NEW W, \A e \in Rules : e \in W <=> <<e, f[e].to>> \in Q
    PROVE  Keep(LandingsOf(f, s), Q) = LandingsOf(f, Keep(s, W))
<1> DEFINE P == {<<e, f[e].to>> : e \in Rules}
<1> DEFINE X == {t \in Seq(Rules) : Keep(LandingsOf(f, t), Q) = LandingsOf(f, Keep(t, W))}
<1>1. <<>> \in X
  BY LandingsEmpty, KeepEmpty
<1>2. ASSUME NEW t \in Seq(Rules), NEW a \in Rules, t \in X PROVE Append(t, a) \in X
  <2>1. /\ LandingsOf(f, Append(t, a)) = Append(LandingsOf(f, t), <<a, f[a].to>>)
        /\ LandingsOf(f, t) \in Seq(P)
    BY LandingsAppend, LandingsSet
  <2>2. <<a, f[a].to>> \in P /\ (<<a, f[a].to>> \in Q <=> a \in W)
    OBVIOUS
  <2>3. Keep(LandingsOf(f, t), Q) = LandingsOf(f, Keep(t, W))
    BY <1>2
  <2> HIDE DEF P
  <2>4. Keep(Append(LandingsOf(f, t), <<a, f[a].to>>), Q)
          = IF <<a, f[a].to>> \in Q
            THEN Append(Keep(LandingsOf(f, t), Q), <<a, f[a].to>>)
            ELSE Keep(LandingsOf(f, t), Q)
    BY <2>1, <2>2, KeepAppend
  <2>5. Keep(Append(t, a), W) = IF a \in W THEN Append(Keep(t, W), a) ELSE Keep(t, W)
    BY KeepAppend
  <2>6. Keep(t, W) \in Seq(Rules)
    BY KeepSeq
  <2>7. LandingsOf(f, Append(Keep(t, W), a)) = Append(LandingsOf(f, Keep(t, W)), <<a, f[a].to>>)
    BY <2>6, LandingsAppend
  <2>8. Keep(LandingsOf(f, Append(t, a)), Q) = LandingsOf(f, Keep(Append(t, a), W))
    BY <2>1, <2>2, <2>3, <2>4, <2>5, <2>7
  <2> QED  BY <2>8
<1> HIDE DEF X
<1>3. Seq(Rules) \subseteq X
  BY <1>1, <1>2, Appended
<1> QED  BY <1>3 DEF X

\* A queue of a finite set has every member.
LEMMA QueuedAll ==
    ASSUME NEW S, IsFiniteSet(S), NEW s \in SetToSeqs(S)
    PROVE  s \in Seq(S) /\ ToSet(s) = S
<1>1. PICK D : D = 1..Cardinality(S)
  OBVIOUS
<1>2. s \in [D -> S] /\ \A i, j \in D : i # j => s[i] # s[j]
  BY <1>1 DEF SetToSeqs
<1>3. Cardinality(S) \in Nat
  BY FS_CardinalityType
<1>4. IsFiniteSet(D) /\ Cardinality(D) = Cardinality(S)
  BY <1>1, <1>3, FS_Interval
<1>5. s \in Injection(D, S)
  BY <1>2 DEF Injection, IsInjective
<1>6. s \in Surjection(D, S)
  BY <1>4, <1>5, FS_Injection
<1>7. s \in Seq(S)
  BY <1>1, <1>2, <1>3
<1>8. ToSet(s) = S
  BY <1>2, <1>6 DEF Surjection, ToSet
<1> QED  BY <1>7, <1>8

-----------------------------------------------------------------------------
(* Lines: the rows, the configs and the handlers in flight *)

Anywhere == Hosts \cup Exits \cup {NoHost}

\* Rows belong to nodes there are: the foreign keys, and what the handlers validate.
LinesOwned ==
    /\ hosts \subseteq Hosts /\ lineOn \subseteq relays /\ relays \subseteq Relays
    /\ \A r \in relays : r[1] \in hosts /\ r[2] \in hosts \cap Bound
RuleOwned(r, H) ==
    /\ r = [on |-> r.on, to |-> r.to, enabled |-> r.enabled] /\ r.enabled \in BOOLEAN
    /\ r = NoRule \/ (r.on \in H /\ r.to \in (H \cap Bound) \cup Exits \cup {NoHost})
RulesOwnedBy ==
    /\ rule = [e \in Rules |-> rule[e]] /\ order \in Seq(Rules)
    /\ \A e \in Rules : RuleOwned(rule[e], hosts)
DestOwned(d, H) ==
    /\ d = [nodes |-> d.nodes, users |-> d.users, rev |-> d.rev, exists |-> d.exists]
    /\ d.nodes \subseteq H /\ (d.exists \/ d.nodes = {})
DestsOwned ==
    /\ dest = [d \in Dests |-> dest[d]]
    /\ \A d \in Dests : DestOwned(dest[d], hosts)

ConfigHeld(c) ==
    /\ c = [lines |-> c.lines, landing |-> c.landing, egress |-> c.egress,
            egressIn |-> c.egressIn, blocks |-> c.blocks, exits |-> c.exits]
    /\ c.egress \in Seq(Rules \X Anywhere)
ConfigsHeld ==
    /\ routes = [n \in Hosts |-> routes[n]]
    /\ \A n \in Hosts : ConfigHeld(routes[n])

\* A handler with these fields.
Handler(o, i, R, S, p, s) == [op |-> o, id |-> i, read |-> R, set |-> S, prev |-> p, todo |-> s]

CallHeld(c) ==
    /\ c = Handler(c.op, c.id, c.read, c.set, c.prev, c.todo)
    /\ c.op \in {"idle", "apply", "retarget", "deletedest", "setnodes", "afternodes", "deletenode"}
    /\ c.op = "idle" => c = Quiet
    /\ c.op = "apply" => c.todo # <<>>
    /\ c.todo \in Seq(Hosts) /\ c.read \subseteq Hosts
    /\ c.op = "retarget" => c.id \in Rules /\ \E to \in Anywhere : c.set = {to}
    /\ c.op \in {"deletedest", "setnodes", "afternodes"} => c.id \in Dests
    /\ c.op = "deletenode" => c.id \in Hosts
CallsHeld ==
    /\ call = [q \in Calls |-> call[q]]
    /\ \A q \in Calls : CallHeld(call[q])

LinesHeld == LinesOwned /\ RulesOwnedBy /\ DestsOwned /\ ConfigsHeld /\ CallsHeld

\* The handler at q goes on as c.
Proceeds(q, c) == call' = [call EXCEPT ![q] = c]

\* What is left of a handler with the nodes s still to assemble.
Rest(s) == Handler(IF s = <<>> THEN "idle" ELSE "apply", NoHost, {}, {}, NoHost, s)

LEMMA QuietEdits ==
    ASSUME NEW o, NEW s
    PROVE  [Quiet EXCEPT !.op = o, !.todo = s] = Handler(o, NoHost, {}, {}, NoHost, s)
<1>1. PICK t : t = [Quiet EXCEPT !.op = o, !.todo = s]
  OBVIOUS
<1>2. t.op = o /\ t.id = NoHost /\ t.read = {} /\ t.set = {} /\ t.prev = NoHost /\ t.todo = s
  BY <1>1 DEF Quiet
<1>3. t = Handler(t.op, t.id, t.read, t.set, t.prev, t.todo)
  BY <1>1 DEF Handler, Quiet
<1> QED  BY <1>1, <1>2, <1>3

LEMMA HandlerParts ==
    ASSUME NEW o, NEW i, NEW R, NEW S, NEW p, NEW s
    PROVE  LET c == Handler(o, i, R, S, p, s) IN
           c.op = o /\ c.id = i /\ c.read = R /\ c.set = S /\ c.prev = p /\ c.todo = s
BY DEF Handler

LEMMA QuietParts ==
    /\ Quiet = Handler("idle", NoHost, {}, {}, NoHost, <<>>)
    /\ Quiet = Handler(Quiet.op, Quiet.id, Quiet.read, Quiet.set, Quiet.prev, Quiet.todo)
    /\ Quiet.op = "idle" /\ Quiet.id = NoHost /\ Quiet.read = {} /\ Quiet.set = {}
    /\ Quiet.prev = NoHost /\ Quiet.todo = <<>>
BY DEF Quiet, Handler

LEMMA ThenRest ==
    ASSUME NEW q, NEW s \in Seq(Hosts), Then(q, s)
    PROVE  Proceeds(q, Rest(s))
<1>1. CASE s = <<>>
  BY <1>1, QuietParts DEF Then, Proceeds, Rest
<1>2. CASE s # <<>>
  <2>1. [Quiet EXCEPT !.op = "apply", !.todo = s] = Rest(s)
    BY <1>2, QuietEdits, Zenon DEF Rest
  <2> QED  BY <1>2, <2>1 DEF Then, Proceeds
<1> QED  BY <1>1, <1>2

LEMMA RestHeld ==
    ASSUME NEW s \in Seq(Hosts)
    PROVE  /\ CallHeld(Rest(s)) /\ Rest(s).todo = s
           /\ Rest(s).op = IF s = <<>> THEN "idle" ELSE "apply"
<1>1. PICK c : c = Rest(s)
  OBVIOUS
<1>2. /\ c = Handler(c.op, c.id, c.read, c.set, c.prev, c.todo)
      /\ c.todo = s /\ c.read = {}
      /\ c.op = IF s = <<>> THEN "idle" ELSE "apply"
      /\ s = <<>> => c = Quiet
  BY <1>1, HandlerParts, QuietParts DEF Rest
<1>3. CallHeld(c)
  BY <1>2 DEF CallHeld
<1> QED  BY <1>1, <1>2, <1>3

LEMMA QuietHeld == CallHeld(Quiet) /\ Rest(<<>>) = Quiet
<1>1. <<>> \in Seq(Hosts)
  OBVIOUS
<1>2. Rest(<<>>) = Quiet
  BY QuietParts DEF Rest
<1> QED  BY <1>1, <1>2, RestHeld

\* The other handlers stay where they are.
LEMMA OneProceeds ==
    ASSUME CallsHeld, NEW q \in Calls, NEW c, Proceeds(q, c)
    PROVE  /\ \A p \in Calls : call'[p] = IF p = q THEN c ELSE call[p]
           /\ CallHeld(c) => CallsHeld'
<1>1. call = [p \in Calls |-> call[p]]
  BY DEF CallsHeld
<1>2. call' = [p \in Calls |-> IF p = q THEN c ELSE call[p]]
  BY <1>1 DEF Proceeds
<1>3. \A p \in Calls : call'[p] = IF p = q THEN c ELSE call[p]
  BY <1>2
<1>4. call' = [p \in Calls |-> call'[p]]
  BY <1>2
<1>5. ASSUME CallHeld(c) PROVE \A p \in Calls : CallHeld(call'[p])
  BY <1>3, <1>5 DEF CallsHeld
<1>6. ASSUME CallHeld(c) PROVE CallsHeld'
  BY <1>4, <1>5, <1>6 DEF CallsHeld, CallHeld
<1> QED  BY <1>3, <1>6

LEMMA QueueRest ==
    ASSUME NEW q, NEW S, S \subseteq Hosts, Queue(q, S)
    PROVE  \E s \in Seq(Hosts) : ToSet(s) = S /\ Then(q, s)
<1>1. IsFiniteSet(S)
  BY LinesAssumption, FS_Subset
<1>2. PICK s \in SetToSeqs(S) : Then(q, s)
  BY DEF Queue
<1>3. s \in Seq(S) /\ ToSet(s) = S
  BY <1>1, <1>2, QueuedAll
<1>4. s \in Seq(Hosts)
  BY <1>3
<1> QED  BY <1>2, <1>3, <1>4

\* What a handler hands on is a handler held.
LEMMA ThenHeld ==
    ASSUME CallsHeld, NEW q \in Calls, NEW s \in Seq(Hosts), Then(q, s)
    PROVE  CallsHeld'
<1>1. Proceeds(q, Rest(s)) /\ CallHeld(Rest(s))
  BY ThenRest, RestHeld
<1> QED  BY <1>1, OneProceeds

LEMMA NoRuleOwned == ASSUME NEW H PROVE RuleOwned(NoRule, H)
BY DEF RuleOwned, NoRule

LEMMA RestrictedAreHosts ==
    ASSUME LinesHeld, NEW d \in Dests
    PROVE  RestrictedNodeIDs(d) \subseteq Hosts
<1>1. dest[d].nodes \subseteq Hosts
  BY DEF LinesHeld, LinesOwned, DestsOwned, DestOwned
<1>2. \A r \in lineOn : r[1] \in Hosts
  BY DEF LinesHeld, LinesOwned, Relays
<1>3. ASSUME NEW e \in Rules, rule[e].enabled PROVE rule[e].on \in Hosts
  BY <1>3 DEF LinesHeld, RulesOwnedBy, RuleOwned, LinesOwned, NoRule
<1> QED  BY <1>1, <1>2, <1>3 DEF RestrictedNodeIDs

LEMMA PeersAreHosts == ASSUME NEW n PROVE peerNodesOf(n) \subseteq Hosts
BY DEF peerNodesOf

LEMMA EndsAreHosts ==
    ASSUME NEW r, r.on \in Hosts
    PROVE  /\ egressEnds(r) \in Seq(Hosts)
           /\ ToSet(egressEnds(r)) = {r.on} \cup ({r.to} \cap Hosts)
<1>1. CASE r.to \in Hosts
  <2>1. PICK a \in Hosts, b \in Hosts : a = r.on /\ b = r.to
    BY <1>1
  <2>2. egressEnds(r) = <<a, b>>
    BY <1>1, <2>1 DEF egressEnds
  <2>3. <<a, b>> \in Seq(Hosts) /\ ToSet(<<a, b>>) = {a, b}
    BY DEF ToSet
  <2> QED  BY <1>1, <2>1, <2>2, <2>3
<1>2. CASE r.to \notin Hosts
  <2>1. PICK a \in Hosts : a = r.on
    OBVIOUS
  <2>2. egressEnds(r) = <<a>>
    BY <1>2, <2>1 DEF egressEnds
  <2>3. <<a>> \in Seq(Hosts) /\ ToSet(<<a>>) = {a}
    BY DEF ToSet
  <2> QED  BY <1>2, <2>1, <2>2, <2>3
<1> QED  BY <1>1, <1>2

-----------------------------------------------------------------------------
(* Lines: what each handler changes, and the nodes it hands on *)

\* What a step leaves alone stays as it was held.
LEMMA PartsStay ==
    ASSUME LinesHeld
    PROVE  /\ UNCHANGED <<hosts, relays, lineOn>> => LinesOwned'
           /\ UNCHANGED <<hosts, rule, order>> => RulesOwnedBy'
           /\ UNCHANGED <<hosts, dest>> => DestsOwned'
           /\ UNCHANGED routes => ConfigsHeld'
           /\ UNCHANGED call => CallsHeld'
<1>1. UNCHANGED <<hosts, relays, lineOn>> => LinesOwned'
  BY DEF LinesHeld, LinesOwned
<1>2. UNCHANGED <<hosts, rule, order>> => RulesOwnedBy'
  BY DEF LinesHeld, RulesOwnedBy, RuleOwned
<1>3. UNCHANGED <<hosts, dest>> => DestsOwned'
  BY DEF LinesHeld, DestsOwned, DestOwned
<1>4. UNCHANGED routes => ConfigsHeld'
  BY DEF LinesHeld, ConfigsHeld, ConfigHeld
<1>5. UNCHANGED call => CallsHeld'
  BY DEF LinesHeld, CallsHeld, CallHeld
<1> QED  BY <1>1, <1>2, <1>3, <1>4, <1>5

\* Relay lines and who may use them: both ends of a line that comes or goes, the exit first,
\* and the entry of a line whose subscribers change.
LinesEdited(q, s) ==
    /\ call[q] = Quiet /\ s \in Seq(Hosts) /\ Proceeds(q, Rest(s))
    /\ UNCHANGED <<hosts, rule, order, dest, routes>>
    /\ \A r \in lineOn' \ lineOn : s = <<r[2], r[1]>>
    /\ \A r \in lineOn \ lineOn' : {r[1], r[2]} \subseteq ToSet(s)
    /\ \A r \in lineOn' : allowedOn(r)' = allowedOn(r) \/ r[1] \in ToSet(s)

\* External nodes: rules that land on one may go, and no node is handed on.
ExitsEdited ==
    /\ UNCHANGED <<hosts, relays, lineOn, dest, routes, call>>
    /\ \A e \in Rules : rule'[e] = rule[e] \/ (rule[e].to \in Exits /\ rule'[e] = NoRule)
    /\ \A T \in SUBSET {e \in Rules : rule[e].to \notin Exits} : Keep(order', T) = Keep(order, T)
    /\ \A r \in Relays : allowedOn(r)' = allowedOn(r)

PairOf(r) == <<r[2], r[1]>>

LEMMA PairHeld ==
    ASSUME NEW r \in Relays
    PROVE  /\ PairOf(r) \in Seq(Hosts) /\ ToSet(PairOf(r)) = {r[1], r[2]}
           /\ <<r[1]>> \in Seq(Hosts) /\ ToSet(<<r[1]>>) = {r[1]}
<1>1. PICK a \in Hosts, b \in Hosts : a = r[1] /\ b = r[2]
  BY DEF Relays
<1>2. <<b, a>> \in Seq(Hosts) /\ ToSet(<<b, a>>) = {a, b}
  BY DEF ToSet
<1>3. <<a>> \in Seq(Hosts) /\ ToSet(<<a>>) = {a}
  BY DEF ToSet
<1> QED  BY <1>1, <1>2, <1>3 DEF PairOf

LEMMA CreateRelayStep ==
    ASSUME LinesHeld, NEW q \in Calls, NEW r \in Relays, createRelay(q, r)
    PROVE  LinesHeld' /\ LinesEdited(q, PairOf(r))
<1>1. /\ call[q] = Quiet /\ r \notin relays /\ r[1] \in hosts /\ r[2] \in hosts \cap Bound
      /\ relays' = relays \cup {r} /\ lineOn' = lineOn \cup {r}
      /\ refused' = refused \cup (Holders \X {r})
      /\ UNCHANGED <<hosts, rule, order, dest, exit, routes>>
  BY DEF createRelay
<1>2. Then(q, PairOf(r))
  BY DEF createRelay, applyRelayEnds, PairOf
<1>3. LinesOwned'
  BY <1>1 DEF LinesHeld, LinesOwned
<1>4. CallsHeld' /\ Proceeds(q, Rest(PairOf(r)))
  BY <1>2, PairHeld, ThenHeld, ThenRest DEF LinesHeld
<1>5. \A t \in lineOn : allowedOn(t)' = allowedOn(t)
  BY <1>1 DEF allowedOn, LinesHeld, LinesOwned
<1>6. LinesEdited(q, PairOf(r))
  BY <1>1, <1>4, <1>5, PairHeld DEF LinesEdited, PairOf
<1> QED  BY <1>1, <1>3, <1>4, <1>6, PartsStay DEF LinesHeld

LEMMA UpdateRelayStep ==
    ASSUME LinesHeld, NEW q \in Calls, NEW r \in Relays, NEW on \in BOOLEAN, updateRelay(q, r, on)
    PROVE  LinesHeld' /\ LinesEdited(q, PairOf(r))
<1>1. /\ call[q] = Quiet /\ r \in relays
      /\ lineOn' = lineOn \cup {r} \/ lineOn' = lineOn \ {r}
      /\ UNCHANGED <<hosts, relays, rule, order, dest, exit, refused, routes>>
  BY DEF updateRelay
<1>2. Then(q, PairOf(r))
  BY DEF updateRelay, applyRelayEnds, PairOf
<1>3. LinesOwned'
  BY <1>1 DEF LinesHeld, LinesOwned
<1>4. CallsHeld' /\ Proceeds(q, Rest(PairOf(r)))
  BY <1>2, PairHeld, ThenHeld, ThenRest DEF LinesHeld
<1>5. \A t \in Relays : allowedOn(t)' = allowedOn(t)
  BY <1>1 DEF allowedOn
<1>6. LinesEdited(q, PairOf(r))
  BY <1>1, <1>3, <1>4, <1>5, PairHeld DEF LinesEdited, PairOf, LinesOwned
<1> QED  BY <1>1, <1>3, <1>4, <1>6, PartsStay DEF LinesHeld

LEMMA DeleteRelayStep ==
    ASSUME LinesHeld, NEW q \in Calls, NEW r \in Relays, deleteRelay(q, r)
    PROVE  LinesHeld' /\ LinesEdited(q, PairOf(r))
<1>1. /\ call[q] = Quiet /\ r \in relays
      /\ relays' = relays \ {r} /\ lineOn' = lineOn \ {r}
      /\ refused' = {t \in refused : t[2] # r}
      /\ UNCHANGED <<hosts, rule, order, dest, exit, routes>>
  BY DEF deleteRelay
<1>2. Then(q, PairOf(r))
  BY DEF deleteRelay, applyRelayEnds, PairOf
<1>3. LinesOwned'
  BY <1>1 DEF LinesHeld, LinesOwned
<1>4. CallsHeld' /\ Proceeds(q, Rest(PairOf(r)))
  BY <1>2, PairHeld, ThenHeld, ThenRest DEF LinesHeld
<1>5. \A t \in lineOn' : allowedOn(t)' = allowedOn(t)
  BY <1>1 DEF allowedOn
<1>6. LinesEdited(q, PairOf(r))
  BY <1>1, <1>4, <1>5, PairHeld DEF LinesEdited, PairOf
<1> QED  BY <1>1, <1>3, <1>4, <1>6, PartsStay DEF LinesHeld

LEMMA SetRelayUsersStep ==
    ASSUME LinesHeld, NEW q \in Calls, NEW r \in Relays, NEW S, setRelayUsers(q, r, S)
    PROVE  LinesHeld' /\ LinesEdited(q, <<r[1]>>)
<1>1. /\ call[q] = Quiet /\ r \in relays
      /\ refused' = {t \in refused : t[2] # r} \cup (S \X {r}) /\ Then(q, <<r[1]>>)
      /\ UNCHANGED <<hosts, relays, lineOn, rule, order, dest, exit, routes>>
  BY DEF setRelayUsers
<1>4. CallsHeld' /\ Proceeds(q, Rest(<<r[1]>>))
  BY <1>1, PairHeld, ThenHeld, ThenRest DEF LinesHeld
<1>5. \A t \in lineOn' : t # r => allowedOn(t)' = allowedOn(t)
  BY <1>1 DEF allowedOn
<1>6. LinesEdited(q, <<r[1]>>)
  BY <1>1, <1>4, <1>5, PairHeld DEF LinesEdited
<1> QED  BY <1>1, <1>4, <1>6, PartsStay DEF LinesHeld

LEMMA SetNodeAccessStep ==
    ASSUME LinesHeld, NEW q \in Calls, NEW H, NEW S, setNodeAccess(q, H, S)
    PROVE  LinesHeld' /\ \E s : LinesEdited(q, s)
<1>1. /\ call[q] = Quiet /\ Queue(q, relayEntryNodes)
      /\ UNCHANGED <<hosts, relays, lineOn, rule, order, dest, exit, routes>>
  BY DEF setNodeAccess
<1>2. relayEntryNodes \subseteq Hosts
  BY DEF relayEntryNodes, LinesHeld, LinesOwned, Relays
<1>3. PICK s \in Seq(Hosts) : ToSet(s) = relayEntryNodes /\ Then(q, s)
  BY <1>1, <1>2, QueueRest
<1>4. CallsHeld' /\ Proceeds(q, Rest(s))
  BY <1>3, ThenHeld, ThenRest DEF LinesHeld
<1>5. \A t \in lineOn' : t[1] \in ToSet(s)
  BY <1>1, <1>3 DEF relayEntryNodes
<1>6. LinesEdited(q, s)
  BY <1>1, <1>4, <1>5 DEF LinesEdited
<1> QED  BY <1>1, <1>4, <1>6, PartsStay DEF LinesHeld

LEMMA ExitsApart ==
    ASSUME NEW x \in Exits, NEW r \in Relays
    PROVE  r # x
BY LinesAssumption DEF Relays

LEMMA ExitStepEdits ==
    ASSUME LinesHeld, ExitStep
    PROVE  LinesHeld' /\ ExitsEdited
<1>1. PICK x \in Exits : \/ refreshAdds(x) \/ deleteExternal(x)
                         \/ \E n \in Hosts \cup {NoHost}, on \in BOOLEAN : setExternalProxy(x, n, on)
                         \/ \E S \in SUBSET Holders : setExternalProxyUsers(x, S)
  BY DEF ExitStep
<1>2. /\ UNCHANGED <<hosts, relays, lineOn, dest, routes, call>>
      /\ \A r \in Relays : allowedOn(r)' = allowedOn(r)
  <2>1. CASE refreshAdds(x)
    BY <2>1, ExitsApart DEF refreshAdds, allowedOn
  <2>2. CASE deleteExternal(x)
    BY <2>2, ExitsApart DEF deleteExternal, allowedOn
  <2>3. ASSUME NEW n, NEW on, setExternalProxy(x, n, on)
        PROVE  /\ UNCHANGED <<hosts, relays, lineOn, dest, routes, call>>
               /\ \A r \in Relays : allowedOn(r)' = allowedOn(r)
    BY <2>3 DEF setExternalProxy, allowedOn
  <2>4. ASSUME NEW S, setExternalProxyUsers(x, S)
        PROVE  /\ UNCHANGED <<hosts, relays, lineOn, dest, routes, call>>
               /\ \A r \in Relays : allowedOn(r)' = allowedOn(r)
    BY <2>4, ExitsApart DEF setExternalProxyUsers, allowedOn
  <2> QED  BY <1>1, <2>1, <2>2, <2>3, <2>4
<1>3. /\ RulesOwnedBy'
      /\ \A e \in Rules : rule'[e] = rule[e] \/ (rule[e].to \in Exits /\ rule'[e] = NoRule)
      /\ \A T \in SUBSET {e \in Rules : rule[e].to \notin Exits} : Keep(order', T) = Keep(order, T)
  <2>1. CASE UNCHANGED <<rule, order>>
    BY <1>2, <2>1, PartsStay
  <2>2. CASE deleteExternal(x)
    <3>1. /\ rule' = [e \in Rules |-> IF rule[e].to = x THEN NoRule ELSE rule[e]]
          /\ order' = Keep(order, {e \in Rules : rule[e].to # x})
      BY <2>2 DEF deleteExternal
    <3>2. order \in Seq(Rules) /\ \A e \in Rules : RuleOwned(rule[e], hosts)
      BY DEF LinesHeld, RulesOwnedBy
    <3>3. order' \in Seq(Rules)
      BY <3>1, <3>2, KeepSeq
    <3>4. \A e \in Rules : rule'[e] = IF rule[e].to = x THEN NoRule ELSE rule[e]
      BY <3>1
    <3>5. RulesOwnedBy'
      <4>1. rule' = [e \in Rules |-> rule'[e]]
        BY <3>1
      <4>2. \A e \in Rules : RuleOwned(rule'[e], hosts')
        BY <1>2, <3>2, <3>4, NoRuleOwned
      <4> QED  BY <3>3, <4>1, <4>2 DEF RulesOwnedBy, RuleOwned
    <3>6. ASSUME NEW T \in SUBSET {e \in Rules : rule[e].to \notin Exits}
          PROVE  Keep(order', T) = Keep(order, T)
      <4>1. PICK U : U = {e \in Rules : rule[e].to # x}
        OBVIOUS
      <4>2. Keep(Keep(order, U), T) = Keep(order, U \cap T)
        BY <3>2, KeepTwice
      <4>3. U \cap T = T
        BY <4>1
      <4> QED  BY <3>1, <4>1, <4>2, <4>3
    <3> QED  BY <3>4, <3>5, <3>6
  <2> QED
    BY <1>1, <2>1, <2>2 DEF refreshAdds, setExternalProxy, setExternalProxyUsers
<1> QED  BY <1>2, <1>3, PartsStay DEF LinesHeld, ExitsEdited

\* Egress rules: the node that carries a changed rule and the node it lands on, those it is
\* moved from included; and the rules of every other node in their order.
RulesEdited(q, s) ==
    /\ call[q] = Quiet \/ call[q].op = "retarget"
    /\ s \in Seq(Hosts) /\ Proceeds(q, Rest(s))
    /\ UNCHANGED <<hosts, relays, lineOn, refused, dest, routes>>
    /\ \A e \in Rules : rule'[e] # rule[e] \/ (call[q].op = "retarget" /\ call[q].id = e) =>
          /\ {rule[e].on, rule'[e].on, rule'[e].to} \cap Hosts \subseteq ToSet(s)
          /\ call[q] = Quiet \/ rule[e].to = call[q].prev => {rule[e].to} \cap Hosts \subseteq ToSet(s)
          /\ call[q] = Quiet \/ call[q].id = e
    /\ \A m \in Hosts \ ToSet(s) : \A T \in SUBSET EgressRulesOn(m) : Keep(order', T) = Keep(order, T)

\* No edit of a rule is refused half way.
Unrefused == RefusedEdits = FALSE

LEMMA NoHostApart == NoHost \notin Hosts /\ NoRule.on = NoHost /\ NoRule.to = NoHost
BY LinesAssumption DEF NoRule

LEMMA OneRuleOwned ==
    ASSUME LinesHeld, NEW e \in Rules, NEW r, RuleOwned(r, hosts),
           rule' = [rule EXCEPT ![e] = r], hosts' = hosts, order' \in Seq(Rules)
    PROVE  RulesOwnedBy' /\ rule'[e] = r /\ \A f \in Rules : f # e => rule'[f] = rule[f]
<1>1. rule = [f \in Rules |-> rule[f]] /\ \A f \in Rules : RuleOwned(rule[f], hosts)
  BY DEF LinesHeld, RulesOwnedBy
<1>2. rule' = [f \in Rules |-> IF f = e THEN r ELSE rule[f]]
  BY <1>1
<1>3. \A f \in Rules : rule'[f] = IF f = e THEN r ELSE rule[f]
  BY <1>2
<1>4. rule' = [f \in Rules |-> rule'[f]]
  BY <1>2
<1>5. \A f \in Rules : RuleOwned(rule'[f], hosts')
  BY <1>1, <1>3
<1> QED  BY <1>3, <1>4, <1>5 DEF RulesOwnedBy, RuleOwned

LEMMA TargetOwned ==
    ASSUME NEW n, NEW to, resolveEgressTarget(n, to)
    PROVE  to \in (hosts \cap Bound) \cup Exits \cup {NoHost}
BY DEF resolveEgressTarget

LEMMA CreateEgressStep ==
    ASSUME LinesHeld, NEW q \in Calls, NEW e \in Rules, NEW n \in Hosts, NEW to, createEgress(q, e, n, to)
    PROVE  LinesHeld' /\ \E s : RulesEdited(q, s)
<1>1. /\ call[q] = Quiet /\ rule[e] = NoRule /\ n \in hosts /\ resolveEgressTarget(n, to)
      /\ rule' = [rule EXCEPT ![e] = [on |-> n, to |-> to, enabled |-> TRUE]]
      /\ order' = Append(order, e)
      /\ Then(q, egressEnds([on |-> n, to |-> to]))
      /\ UNCHANGED <<hosts, relays, lineOn, dest, exit, refused, routes>>
  BY DEF createEgress, applyEgressEnds
<1>2. PICK r : r = [on |-> n, to |-> to, enabled |-> TRUE]
  OBVIOUS
<1>3. RuleOwned(r, hosts) /\ r.on = n /\ r.to = to
  BY <1>1, <1>2, TargetOwned DEF RuleOwned
<1>4. order \in Seq(Rules) /\ order' \in Seq(Rules)
  BY <1>1 DEF LinesHeld, RulesOwnedBy
<1>5. RulesOwnedBy' /\ rule'[e] = r /\ \A f \in Rules : f # e => rule'[f] = rule[f]
  BY <1>1, <1>2, <1>3, <1>4, OneRuleOwned
<1>6. PICK s : s = egressEnds([on |-> n, to |-> to])
  OBVIOUS
<1>7. s \in Seq(Hosts) /\ ToSet(s) = {n} \cup ({to} \cap Hosts)
  BY <1>6, EndsAreHosts
<1>8. CallsHeld' /\ Proceeds(q, Rest(s))
  BY <1>1, <1>6, <1>7, ThenHeld, ThenRest DEF LinesHeld
<1>9. ASSUME NEW m \in Hosts \ ToSet(s), NEW T \in SUBSET EgressRulesOn(m)
      PROVE  Keep(order', T) = Keep(order, T)
  <2>1. e \notin T
    BY <1>1, NoHostApart DEF EgressRulesOn
  <2> QED  BY <1>1, <1>4, <2>1, KeepAppend
<1>10. ASSUME NEW f \in Rules, rule'[f] # rule[f] \/ (call[q].op = "retarget" /\ call[q].id = f)
       PROVE  {rule[f].on, rule'[f].on, rule'[f].to, rule[f].to} \cap Hosts \subseteq ToSet(s)
  <2>1. f = e
    BY <1>1, <1>5, <1>10, QuietParts
  <2> QED  BY <1>1, <1>3, <1>5, <1>7, <2>1, NoHostApart
<1>11. RulesEdited(q, s)
  BY <1>1, <1>7, <1>8, <1>9, <1>10 DEF RulesEdited
<1> QED  BY <1>1, <1>5, <1>8, <1>11, PartsStay DEF LinesHeld

LEMMA DeleteEgressStep ==
    ASSUME LinesHeld, NEW q \in Calls, NEW e \in Rules, deleteEgress(q, e)
    PROVE  LinesHeld' /\ \E s : RulesEdited(q, s)
<1>1. /\ call[q] = Quiet /\ rule[e] # NoRule
      /\ rule' = [rule EXCEPT ![e] = NoRule]
      /\ order' = Keep(order, Rules \ {e})
      /\ Then(q, egressEnds(rule[e]))
      /\ UNCHANGED <<hosts, relays, lineOn, dest, exit, refused, routes>>
  BY DEF deleteEgress, applyEgressEnds
<1>2. rule[e].on \in Hosts
  BY <1>1 DEF LinesHeld, RulesOwnedBy, RuleOwned, LinesOwned
<1>3. order \in Seq(Rules)
  BY DEF LinesHeld, RulesOwnedBy
<1>4. order' \in Seq(Rules)
  BY <1>1, <1>3, KeepSeq
<1>5. RulesOwnedBy' /\ rule'[e] = NoRule /\ \A f \in Rules : f # e => rule'[f] = rule[f]
  BY <1>1, <1>4, OneRuleOwned, NoRuleOwned
<1>6. PICK s : s = egressEnds(rule[e])
  OBVIOUS
<1>7. s \in Seq(Hosts) /\ ToSet(s) = {rule[e].on} \cup ({rule[e].to} \cap Hosts)
  BY <1>2, <1>6, EndsAreHosts
<1>8. CallsHeld' /\ Proceeds(q, Rest(s))
  BY <1>1, <1>6, <1>7, ThenHeld, ThenRest DEF LinesHeld
<1>9. ASSUME NEW m \in Hosts \ ToSet(s), NEW T \in SUBSET EgressRulesOn(m)
      PROVE  Keep(order', T) = Keep(order, T)
  <2>1. (Rules \ {e}) \cap T = T
    BY <1>7 DEF EgressRulesOn
  <2>2. Keep(Keep(order, Rules \ {e}), T) = Keep(order, (Rules \ {e}) \cap T)
    BY <1>3, KeepTwice
  <2> QED  BY <1>1, <2>1, <2>2
<1>10. ASSUME NEW f \in Rules, rule'[f] # rule[f] \/ (call[q].op = "retarget" /\ call[q].id = f)
       PROVE  {rule[f].on, rule'[f].on, rule'[f].to, rule[f].to} \cap Hosts \subseteq ToSet(s)
  <2>1. f = e
    BY <1>1, <1>5, <1>10, QuietParts
  <2> QED  BY <1>5, <1>7, <2>1, NoHostApart
<1>11. RulesEdited(q, s)
  BY <1>1, <1>7, <1>8, <1>9, <1>10 DEF RulesEdited
<1> QED  BY <1>1, <1>5, <1>8, <1>11, PartsStay DEF LinesHeld

LEMMA ReorderEgressStep ==
    ASSUME LinesHeld, NEW q \in Calls, NEW n \in Hosts, NEW seq \in SetToSeqs(ToSet(order)),
           reorderEgress(q, n, seq)
    PROVE  LinesHeld' /\ RulesEdited(q, <<n>>)
<1>1. /\ call[q] = Quiet /\ order' = seq /\ Then(q, <<n>>)
      /\ \A m \in Hosts \ {n} : Keep(seq, EgressRulesOn(m)) = Keep(order, EgressRulesOn(m))
      /\ UNCHANGED <<hosts, relays, lineOn, rule, dest, exit, refused, routes>>
  BY DEF reorderEgress
<1>2. order \in Seq(Rules)
  BY DEF LinesHeld, RulesOwnedBy
<1>3. seq \in Seq(Rules)
  <2>1. ToSet(order) \subseteq Rules
    BY <1>2 DEF ToSet
  <2>2. IsFiniteSet(ToSet(order))
    BY <2>1, LinesAssumption, FS_Subset
  <2>3. seq \in Seq(ToSet(order))
    BY <2>2, QueuedAll
  <2> QED  BY <2>1, <2>3
<1>4. RulesOwnedBy'
  BY <1>1, <1>3 DEF LinesHeld, RulesOwnedBy, RuleOwned
<1>5. <<n>> \in Seq(Hosts) /\ ToSet(<<n>>) = {n}
  BY DEF ToSet
<1>6. CallsHeld' /\ Proceeds(q, Rest(<<n>>))
  BY <1>1, <1>5, ThenHeld, ThenRest DEF LinesHeld
<1>7. ASSUME NEW m \in Hosts \ ToSet(<<n>>), NEW T \in SUBSET EgressRulesOn(m)
      PROVE  Keep(order', T) = Keep(order, T)
  <2>1. PICK M : M = EgressRulesOn(m)
    OBVIOUS
  <2>2. M \cap T = T /\ Keep(seq, M) = Keep(order, M)
    BY <1>1, <1>5, <2>1
  <2>3. Keep(Keep(seq, M), T) = Keep(seq, M \cap T) /\ Keep(Keep(order, M), T) = Keep(order, M \cap T)
    BY <1>2, <1>3, KeepTwice
  <2> QED  BY <1>1, <2>2, <2>3
<1>8. \A f \in Rules : ~ (rule'[f] # rule[f] \/ (call[q].op = "retarget" /\ call[q].id = f))
  BY <1>1, QuietParts
<1>9. RulesEdited(q, <<n>>)
  BY <1>1, <1>5, <1>6, <1>7, <1>8 DEF RulesEdited
<1> QED  BY <1>1, <1>4, <1>6, <1>9, PartsStay DEF LinesHeld

LEMMA JoinedSet ==
    ASSUME NEW A, NEW s \in Seq(A), NEW t \in Seq(A)
    PROVE  s \o t \in Seq(A) /\ ToSet(s \o t) = ToSet(s) \cup ToSet(t)
<1>1. PICK u : u = s \o t
  OBVIOUS
<1>2. /\ u \in Seq(A) /\ DOMAIN u = 1..(Len(s) + Len(t)) /\ DOMAIN s = 1..Len(s) /\ DOMAIN t = 1..Len(t)
      /\ Len(s) \in Nat /\ Len(t) \in Nat
      /\ \A i \in 1..(Len(s) + Len(t)) : u[i] = IF i <= Len(s) THEN s[i] ELSE t[i - Len(s)]
  BY <1>1
<1>3. ASSUME NEW x, x \in ToSet(u) PROVE x \in ToSet(s) \cup ToSet(t)
  <2>1. PICK i \in 1..(Len(s) + Len(t)) : x = u[i]
    BY <1>2, <1>3 DEF ToSet
  <2>2. CASE i <= Len(s)
    <3>1. x = s[i] /\ i \in DOMAIN s
      BY <1>2, <2>1, <2>2
    <3> QED  BY <3>1 DEF ToSet
  <2>3. CASE ~ (i <= Len(s))
    <3>1. x = t[i - Len(s)] /\ i - Len(s) \in DOMAIN t
      BY <1>2, <2>1, <2>3
    <3> QED  BY <3>1 DEF ToSet
  <2> QED  BY <2>2, <2>3
<1>4. ASSUME NEW x, x \in ToSet(s) PROVE x \in ToSet(u)
  <2>1. PICK i \in 1..Len(s) : x = s[i]
    BY <1>2, <1>4 DEF ToSet
  <2>2. i \in DOMAIN u /\ u[i] = x
    BY <1>2, <2>1
  <2> QED  BY <2>2 DEF ToSet
<1>5. ASSUME NEW x, x \in ToSet(t) PROVE x \in ToSet(u)
  <2>1. PICK i \in 1..Len(t) : x = t[i]
    BY <1>2, <1>5 DEF ToSet
  <2>2. Len(s) + i \in 1..(Len(s) + Len(t)) /\ ~ (Len(s) + i <= Len(s)) /\ (Len(s) + i) - Len(s) = i
    BY <1>2
  <2>3. Len(s) + i \in DOMAIN u /\ u[Len(s) + i] = x
    BY <1>2, <2>1, <2>2
  <2> QED  BY <2>3 DEF ToSet
<1> QED  BY <1>1, <1>2, <1>3, <1>4, <1>5

LEMMA MoveLandingStep ==
    ASSUME LinesHeld, Unrefused, NEW q \in Calls, moveLanding(q)
    PROVE  LinesHeld' /\ \E s : RulesEdited(q, s)
<1>0. PICK c : c = call[q] /\ CallHeld(c)
  BY DEF LinesHeld, CallsHeld
<1>1. PICK e \in Rules, to \in Anywhere : c.op = "retarget" /\ e = c.id /\ c.set = {to}
  BY <1>0 DEF moveLanding, CallHeld
<1>2. (CHOOSE t \in c.set : TRUE) = to
  BY <1>1
<1>3. UNCHANGED <<hosts, relays, lineOn, order, dest, exit, refused, routes>>
  BY DEF moveLanding
<1>4. order \in Seq(Rules) /\ RuleOwned(rule[e], hosts) /\ hosts \subseteq Hosts
  BY DEF LinesHeld, RulesOwnedBy, LinesOwned
<1>5. CASE rule[e] = NoRule /\ UNCHANGED rule /\ Then(q, <<>>)
  <2>1. <<>> \in Seq(Hosts) /\ ToSet(<<>>) = {}
    BY EmptySet
  <2>2. CallsHeld' /\ Proceeds(q, Rest(<<>>))
    BY <1>5, <2>1, ThenHeld, ThenRest DEF LinesHeld
  <2>3. ASSUME NEW f \in Rules, rule'[f] # rule[f] \/ (call[q].op = "retarget" /\ call[q].id = f)
        PROVE  {rule[f].on, rule'[f].on, rule'[f].to, rule[f].to} \cap Hosts \subseteq ToSet(<<>>)
    BY <1>0, <1>1, <1>5, <2>3, NoHostApart
  <2>4. RulesEdited(q, <<>>)
    BY <1>0, <1>1, <1>3, <1>5, <2>1, <2>2, <2>3 DEF RulesEdited
  <2> QED  BY <1>3, <1>5, <2>2, <2>4, PartsStay DEF LinesHeld
<1>6. ASSUME rule[e] # NoRule, to = c.prev \/ resolveEgressTarget(rule[e].on, to),
             rule' = [rule EXCEPT ![e].to = IF to = c.prev THEN @ ELSE to],
             Then(q, egressEnds(rule'[e])
                        \o (IF c.prev \in Hosts /\ c.prev # rule'[e].to THEN <<c.prev>> ELSE <<>>))
      PROVE  LinesHeld' /\ \E s : RulesEdited(q, s)
  <2>1. PICK r : r = [on |-> rule[e].on, to |-> IF to = c.prev THEN rule[e].to ELSE to, enabled |-> rule[e].enabled]
    OBVIOUS
  <2>2. [rule[e] EXCEPT !.to = IF to = c.prev THEN rule[e].to ELSE to] = r
    BY <1>4, <2>1 DEF RuleOwned
  <2>3. rule' = [rule EXCEPT ![e] = r]
    BY <1>6, <2>2 DEF LinesHeld, RulesOwnedBy
  <2>4. RuleOwned(r, hosts) /\ r.on = rule[e].on
    BY <1>4, <1>6, <2>1, TargetOwned DEF RuleOwned
  <2>5. RulesOwnedBy' /\ rule'[e] = r /\ \A f \in Rules : f # e => rule'[f] = rule[f]
    BY <1>3, <1>4, <2>3, <2>4, OneRuleOwned
  <2>6. rule[e].on \in Hosts
    BY <1>4, <1>6 DEF RuleOwned
  <2>7. egressEnds(r) \in Seq(Hosts) /\ ToSet(egressEnds(r)) = {rule[e].on} \cup ({r.to} \cap Hosts)
    BY <2>4, <2>6, EndsAreHosts
  <2>8. PICK t : t = IF c.prev \in Hosts /\ c.prev # r.to THEN <<c.prev>> ELSE <<>>
    OBVIOUS
  <2>9. t \in Seq(Hosts) /\ ToSet(t) \cup ({r.to} \cap Hosts) = ({c.prev, r.to} \cap Hosts)
    <3>1. CASE c.prev \in Hosts /\ c.prev # r.to
      <4>1. PICK h \in Hosts : h = c.prev
        BY <3>1
      <4>2. <<h>> \in Seq(Hosts) /\ ToSet(<<h>>) = {h}
        BY DEF ToSet
      <4> QED  BY <2>8, <3>1, <4>1, <4>2
    <3>2. CASE ~ (c.prev \in Hosts /\ c.prev # r.to)
      BY <2>8, <3>2, EmptySet
    <3> QED  BY <3>1, <3>2
  <2>10. PICK s : s = egressEnds(r) \o t
    OBVIOUS
  <2>11. s \in Seq(Hosts) /\ ToSet(s) = {rule[e].on} \cup ({c.prev, r.to} \cap Hosts)
    BY <2>7, <2>9, <2>10, JoinedSet
  <2>12. CallsHeld' /\ Proceeds(q, Rest(s))
    BY <1>6, <2>5, <2>8, <2>10, <2>11, ThenHeld, ThenRest DEF LinesHeld
  <2>13. ASSUME NEW f \in Rules, rule'[f] # rule[f] \/ (call[q].op = "retarget" /\ call[q].id = f)
         PROVE  /\ {rule[f].on, rule'[f].on, rule'[f].to} \cap Hosts \subseteq ToSet(s)
                /\ call[q].id = f
                /\ rule[f].to = c.prev => {rule[f].to} \cap Hosts \subseteq ToSet(s)
    <3>1. f = e
      BY <1>0, <1>1, <2>5, <2>13
    <3> QED  BY <1>0, <1>1, <2>4, <2>5, <2>11, <3>1
  <2>14. RulesEdited(q, s)
    <3>1. call[q] # Quiet
      BY <1>0, <1>1, QuietParts
    <3>2. order' = order
      BY <1>3
    <3> QED  BY <1>0, <1>1, <1>3, <2>11, <2>12, <2>13, <3>1, <3>2 DEF RulesEdited
  <2> QED  BY <1>3, <2>5, <2>12, <2>14, PartsStay DEF LinesHeld
<1> QED
  BY <1>0, <1>1, <1>2, <1>5, <1>6 DEF moveLanding, Unrefused

\* The switch of a rule is written and its landing not yet: the handler goes on.
RuleSwitched(q, e) ==
    /\ call[q] = Quiet /\ e \in Rules /\ rule[e] # NoRule
    /\ \E c : /\ Proceeds(q, c) /\ CallHeld(c)
              /\ c.op = "retarget" /\ c.id = e /\ c.prev = rule[e].to
    /\ UNCHANGED <<hosts, relays, lineOn, refused, order, dest, routes>>
    /\ \A f \in Rules \ {e} : rule'[f] = rule[f]
    /\ rule'[e].on = rule[e].on /\ rule'[e].to = rule[e].to

LEMMA UpdateEgressStep ==
    ASSUME LinesHeld, NEW q \in Calls, NEW e \in Rules, NEW on \in BOOLEAN, NEW to \in Anywhere,
           updateEgress(q, e, on, to)
    PROVE  LinesHeld' /\ RuleSwitched(q, e)
<1>1. /\ rule[e] # NoRule /\ call[q] = Quiet
      /\ call' = [call EXCEPT ![q] = [Quiet EXCEPT !.op = "retarget", !.id = e, !.prev = rule[e].to, !.set = {to}]]
      /\ rule' = [rule EXCEPT ![e].enabled = on]
      /\ UNCHANGED <<hosts, relays, lineOn, order, dest, exit, refused, routes>>
  BY DEF updateEgress, Call
<1>2. PICK c : c = [Quiet EXCEPT !.op = "retarget", !.id = e, !.prev = rule[e].to, !.set = {to}]
  OBVIOUS
<1>3. Proceeds(q, c)
  BY <1>1, <1>2 DEF Proceeds
<1>4. /\ c.op = "retarget" /\ c.id = e /\ c.read = {} /\ c.set = {to} /\ c.prev = rule[e].to /\ c.todo = <<>>
      /\ c = Handler(c.op, c.id, c.read, c.set, c.prev, c.todo)
  BY <1>2 DEF Quiet, Handler
<1>5. CallHeld(c)
  BY <1>4 DEF CallHeld
<1>6. CallsHeld'
  BY <1>3, <1>5, OneProceeds DEF LinesHeld
<1>7. RuleOwned(rule[e], hosts) /\ order \in Seq(Rules)
  BY DEF LinesHeld, RulesOwnedBy
<1>8. PICK r : r = [on |-> rule[e].on, to |-> rule[e].to, enabled |-> on]
  OBVIOUS
<1>9. [rule[e] EXCEPT !.enabled = on] = r
  BY <1>7, <1>8 DEF RuleOwned
<1>10. rule' = [rule EXCEPT ![e] = r]
  BY <1>1, <1>9 DEF LinesHeld, RulesOwnedBy
<1>11. RuleOwned(r, hosts) /\ r.on = rule[e].on /\ r.to = rule[e].to
  BY <1>1, <1>7, <1>8 DEF RuleOwned
<1>12. RulesOwnedBy' /\ rule'[e] = r /\ \A f \in Rules : f # e => rule'[f] = rule[f]
  BY <1>1, <1>7, <1>10, <1>11, OneRuleOwned
<1>13. RuleSwitched(q, e)
  BY <1>1, <1>3, <1>4, <1>5, <1>11, <1>12 DEF RuleSwitched
<1> QED  BY <1>1, <1>6, <1>12, <1>13, PartsStay DEF LinesHeld

-----------------------------------------------------------------------------
(* Restricted destinations *)

\* The nodes that carry the rules of a destination scoped to N.
Carrying(N) ==
    N \cup {r[1] : r \in {l \in lineOn : l[2] \in N}}
      \cup {rule[e].on : e \in {f \in Rules : rule[f].enabled /\ rule[f].to \in N}}

\* A destination enforced nowhere.
DestOpened ==
    /\ UNCHANGED <<hosts, relays, lineOn, refused, rule, order, routes, call>>
    /\ \A c \in Dests : dest'[c] = dest[c] \/ (dest[c].nodes = {} /\ dest'[c].nodes = {})

\* A destination changed or deleted: the nodes that carry it, as far as they were read.
DestEdited(q, d, s) ==
    /\ d \in Dests /\ (call[q] = Quiet \/ (call[q].op = "deletedest" /\ call[q].id = d))
    /\ s \in Seq(Hosts) /\ Proceeds(q, Rest(s))
    /\ UNCHANGED <<hosts, relays, lineOn, refused, rule, order, routes>>
    /\ \A c \in Dests \ {d} : dest'[c] = dest[c]
    /\ Carrying(dest'[d].nodes) \subseteq ToSet(s)
    /\ call[q] = Quiet \/ RestrictedNodeIDs(d) \subseteq call[q].read => RestrictedNodeIDs(d) \subseteq ToSet(s)

\* A destination's scope moved, the handler still to read the nodes that now carry it.
DestScoped(q, d) ==
    /\ d \in Dests /\ call[q].op = "setnodes" /\ call[q].id = d
    /\ \E c : /\ Proceeds(q, c) /\ CallHeld(c)
              /\ c.op = "afternodes" /\ c.id = d /\ c.read = call[q].read
    /\ UNCHANGED <<hosts, relays, lineOn, refused, rule, order, routes>>
    /\ \A c \in Dests \ {d} : dest'[c] = dest[c]

\* The nodes before and after the move.
ScopeRead(q, d, s) ==
    /\ d \in Dests /\ call[q].op = "afternodes" /\ call[q].id = d
    /\ s \in Seq(Hosts) /\ Proceeds(q, Rest(s)) /\ UNCHANGED <<ltables, routes>>
    /\ ToSet(s) = call[q].read \cup RestrictedNodeIDs(d)

\* A handler that only reads, or ends without writing.
OnlyReads(q, c) ==
    /\ call[q] = Quiet \/ call[q].op = "setnodes"
    /\ Proceeds(q, c) /\ CallHeld(c) /\ UNCHANGED <<ltables, routes>>
    /\ \/ c = Quiet
       \/ c.op \in {"deletedest", "setnodes"} /\ c.read = RestrictedNodeIDs(c.id)
       \/ c.op = "deletenode" /\ c.read = peerNodesOf(c.id)

LEMMA RestrictedCarry == ASSUME NEW d PROVE RestrictedNodeIDs(d) = Carrying(dest[d].nodes)
BY DEF RestrictedNodeIDs, Carrying

LEMMA NothingCarried == Carrying({}) = {}
BY DEF Carrying

LEMMA OneDestOwned ==
    ASSUME LinesHeld, NEW d \in Dests, NEW r, DestOwned(r, hosts),
           dest' = [dest EXCEPT ![d] = r], hosts' = hosts
    PROVE  DestsOwned' /\ dest'[d] = r /\ \A c \in Dests : c # d => dest'[c] = dest[c]
<1>1. dest = [c \in Dests |-> dest[c]] /\ \A c \in Dests : DestOwned(dest[c], hosts)
  BY DEF LinesHeld, DestsOwned
<1>2. dest' = [c \in Dests |-> IF c = d THEN r ELSE dest[c]]
  BY <1>1
<1>3. \A c \in Dests : dest'[c] = IF c = d THEN r ELSE dest[c]
  BY <1>2
<1>4. dest' = [c \in Dests |-> dest'[c]]
  BY <1>2
<1>5. \A c \in Dests : DestOwned(dest'[c], hosts')
  BY <1>1, <1>3
<1> QED  BY <1>3, <1>4, <1>5 DEF DestsOwned, DestOwned

LEMMA CreateRestrictedStep ==
    ASSUME LinesHeld, NEW d \in Dests, createRestricted(d)
    PROVE  LinesHeld' /\ DestOpened
<1>1. /\ ~ dest[d].exists /\ dest' = [dest EXCEPT ![d] = [NoDest EXCEPT !.exists = TRUE]]
      /\ UNCHANGED <<hosts, relays, lineOn, rule, order, exit, refused, routes, call>>
  BY DEF createRestricted
<1>2. PICK r : r = [NoDest EXCEPT !.exists = TRUE]
  OBVIOUS
<1>3. DestOwned(r, hosts) /\ r.nodes = {}
  BY <1>2 DEF DestOwned, NoDest
<1>4. DestsOwned' /\ dest'[d] = r /\ \A c \in Dests : c # d => dest'[c] = dest[c]
  BY <1>1, <1>2, <1>3, OneDestOwned
<1>5. dest[d].nodes = {}
  BY <1>1 DEF LinesHeld, DestsOwned, DestOwned
<1> QED  BY <1>1, <1>3, <1>4, <1>5, PartsStay DEF LinesHeld, DestOpened

\* A destination edited in place.
LEMMA DestEditedStep ==
    ASSUME LinesHeld, NEW q \in Calls, NEW d \in Dests, call[q] = Quiet, NEW r,
           DestOwned(r, hosts), r.nodes = dest[d].nodes, dest' = [dest EXCEPT ![d] = r],
           Queue(q, RestrictedNodeIDs(d)),
           UNCHANGED <<hosts, relays, lineOn, rule, order, exit, refused, routes>>
    PROVE  LinesHeld' /\ \E s : DestEdited(q, d, s)
<1>1. DestsOwned' /\ dest'[d] = r /\ \A c \in Dests : c # d => dest'[c] = dest[c]
  BY OneDestOwned
<1>2. PICK s \in Seq(Hosts) : ToSet(s) = RestrictedNodeIDs(d) /\ Then(q, s)
  BY RestrictedAreHosts, QueueRest
<1>3. CallsHeld' /\ Proceeds(q, Rest(s))
  BY <1>2, ThenHeld, ThenRest DEF LinesHeld
<1>4. Carrying(dest'[d].nodes) \subseteq ToSet(s)
  BY <1>1, <1>2, RestrictedCarry
<1>5. DestEdited(q, d, s)
  BY <1>1, <1>2, <1>3, <1>4 DEF DestEdited
<1> QED  BY <1>1, <1>3, <1>5, PartsStay DEF LinesHeld

LEMMA UpdateRestrictedStep ==
    ASSUME LinesHeld, NEW q \in Calls, NEW d \in Dests, updateRestricted(q, d)
    PROVE  LinesHeld' /\ \E s : DestEdited(q, d, s)
<1>1. PICK z : z = 1 - dest[d].rev
  OBVIOUS
<1>2. /\ call[q] = Quiet /\ dest[d].exists /\ dest' = [dest EXCEPT ![d].rev = z] /\ Queue(q, RestrictedNodeIDs(d))
      /\ UNCHANGED <<hosts, relays, lineOn, rule, order, exit, refused, routes>>
  BY <1>1 DEF updateRestricted, LinesHeld, DestsOwned
<1>3. PICK r : r = [dest[d] EXCEPT !.rev = z]
  OBVIOUS
<1>4. DestOwned(r, hosts) /\ r.nodes = dest[d].nodes
  BY <1>2, <1>3 DEF LinesHeld, DestsOwned, DestOwned
<1>5. dest' = [dest EXCEPT ![d] = r]
  BY <1>2, <1>3 DEF LinesHeld, DestsOwned
<1> QED  BY <1>2, <1>4, <1>5, DestEditedStep

LEMMA SetRestrictedUsersStep ==
    ASSUME LinesHeld, NEW q \in Calls, NEW d \in Dests, NEW S, setRestrictedUsers(q, d, S)
    PROVE  LinesHeld' /\ \E s : DestEdited(q, d, s)
<1>2. /\ call[q] = Quiet /\ dest[d].exists /\ dest' = [dest EXCEPT ![d].users = S] /\ Queue(q, RestrictedNodeIDs(d))
      /\ UNCHANGED <<hosts, relays, lineOn, rule, order, exit, refused, routes>>
  BY DEF setRestrictedUsers
<1>3. PICK r : r = [dest[d] EXCEPT !.users = S]
  OBVIOUS
<1>4. DestOwned(r, hosts) /\ r.nodes = dest[d].nodes
  BY <1>2, <1>3 DEF LinesHeld, DestsOwned, DestOwned
<1>5. dest' = [dest EXCEPT ![d] = r]
  BY <1>2, <1>3 DEF LinesHeld, DestsOwned
<1> QED  BY <1>2, <1>4, <1>5, DestEditedStep

LEMMA BeforeRestrictedStep ==
    ASSUME LinesHeld, NEW q \in Calls, NEW d \in Dests, NEW S, NEW op \in {"deletedest", "setnodes"},
           beforeRestricted(q, d, op, S)
    PROVE  LinesHeld' /\ \E c : OnlyReads(q, c)
<1>1. /\ call[q] = Quiet /\ UNCHANGED <<ltables, routes>>
      /\ call' = [call EXCEPT ![q] = [Quiet EXCEPT !.op = op, !.id = d, !.set = S, !.read = RestrictedNodeIDs(d)]]
  BY DEF beforeRestricted, Call
<1>2. PICK c : c = [Quiet EXCEPT !.op = op, !.id = d, !.set = S, !.read = RestrictedNodeIDs(d)]
  OBVIOUS
<1>3. Proceeds(q, c)
  BY <1>1, <1>2 DEF Proceeds
<1>4. /\ c.op = op /\ c.id = d /\ c.read = RestrictedNodeIDs(d) /\ c.todo = <<>>
      /\ c = Handler(c.op, c.id, c.read, c.set, c.prev, c.todo)
  BY <1>2 DEF Quiet, Handler
<1>5. CallHeld(c)
  BY <1>4, RestrictedAreHosts DEF CallHeld
<1>6. CallsHeld'
  BY <1>3, <1>5, OneProceeds DEF LinesHeld
<1>7. OnlyReads(q, c)
  BY <1>1, <1>3, <1>4, <1>5 DEF OnlyReads
<1> QED  BY <1>1, <1>6, <1>7, PartsStay DEF LinesHeld, ltables

LEMMA DeleteRestrictedStep ==
    ASSUME LinesHeld, NEW q \in Calls, DeleteRestricted(q)
    PROVE  LinesHeld' /\ \E d, s : DestEdited(q, d, s)
<1>1. PICK d \in Dests : d = call[q].id /\ call[q].op = "deletedest" /\ call[q].read \subseteq Hosts
  BY DEF LinesHeld, CallsHeld, CallHeld, DeleteRestricted
<1>2. /\ dest' = [dest EXCEPT ![d] = NoDest]
      /\ UNCHANGED <<hosts, relays, lineOn, rule, order, exit, refused, routes>>
      /\ IF dest[d].exists THEN Queue(q, call[q].read) ELSE Then(q, <<>>)
  BY <1>1 DEF DeleteRestricted
<1>3. DestOwned(NoDest, hosts) /\ NoDest.nodes = {}
  BY DEF DestOwned, NoDest
<1>4. DestsOwned' /\ dest'[d] = NoDest /\ \A c \in Dests : c # d => dest'[c] = dest[c]
  BY <1>2, <1>3, OneDestOwned
<1>5. PICK s \in Seq(Hosts) : Then(q, s) /\ (dest[d].exists => ToSet(s) = call[q].read)
  <2>1. CASE dest[d].exists
    BY <1>1, <1>2, <2>1, QueueRest
  <2>2. CASE ~ dest[d].exists
    <3>1. <<>> \in Seq(Hosts)
      OBVIOUS
    <3> QED  BY <1>2, <2>2, <3>1
  <2> QED  BY <2>1, <2>2
<1>6. CallsHeld' /\ Proceeds(q, Rest(s))
  BY <1>5, ThenHeld, ThenRest DEF LinesHeld
<1>7. ~ dest[d].exists => RestrictedNodeIDs(d) = {}
  BY RestrictedCarry, NothingCarried DEF LinesHeld, DestsOwned, DestOwned
<1>8. call[q] # Quiet
  BY <1>1, QuietParts
<1>9. Carrying(dest'[d].nodes) = {}
  BY <1>3, <1>4, NothingCarried
<1>10. DestEdited(q, d, s)
  BY <1>1, <1>2, <1>4, <1>5, <1>6, <1>7, <1>8, <1>9 DEF DestEdited
<1> QED  BY <1>2, <1>4, <1>6, <1>10, PartsStay DEF LinesHeld

LEMMA SetRestrictedNodesStep ==
    ASSUME LinesHeld, NEW q \in Calls, SetRestrictedNodes(q)
    PROVE  LinesHeld' /\ ((\E d : DestScoped(q, d)) \/ \E c : OnlyReads(q, c))
<1>0. PICK b : b = call[q] /\ CallHeld(b)
  BY DEF LinesHeld, CallsHeld
<1>1. PICK d \in Dests : d = b.id /\ b.op = "setnodes"
  BY <1>0 DEF SetRestrictedNodes, CallHeld
<1>2. UNCHANGED <<hosts, relays, lineOn, rule, order, exit, refused, routes>>
  BY DEF SetRestrictedNodes
<1>3. CASE dest[d].exists /\ b.set \subseteq hosts
  <2>1. dest' = [dest EXCEPT ![d].nodes = b.set] /\ call' = [call EXCEPT ![q].op = "afternodes"]
    BY <1>0, <1>1, <1>3 DEF SetRestrictedNodes
  <2>2. PICK r : r = [dest[d] EXCEPT !.nodes = b.set]
    OBVIOUS
  <2>3. DestOwned(r, hosts)
    BY <1>3, <2>2 DEF LinesHeld, DestsOwned, DestOwned
  <2>4. dest' = [dest EXCEPT ![d] = r]
    BY <2>1, <2>2 DEF LinesHeld, DestsOwned
  <2>5. DestsOwned' /\ \A c \in Dests : c # d => dest'[c] = dest[c]
    BY <1>2, <2>3, <2>4, OneDestOwned
  <2>6. PICK c : c = [b EXCEPT !.op = "afternodes"]
    OBVIOUS
  <2>7. /\ c.op = "afternodes" /\ c.id = d /\ c.read = b.read /\ c.todo = b.todo
        /\ c = Handler(c.op, c.id, c.read, c.set, c.prev, c.todo)
    BY <1>0, <1>1, <2>6 DEF CallHeld, Handler
  <2>8. CallHeld(c)
    BY <1>0, <2>7 DEF CallHeld
  <2>9. Proceeds(q, c)
    BY <1>0, <2>1, <2>6 DEF Proceeds, LinesHeld, CallsHeld
  <2>10. CallsHeld'
    BY <2>8, <2>9, OneProceeds DEF LinesHeld
  <2>11. DestScoped(q, d)
    BY <1>0, <1>1, <1>2, <2>5, <2>7, <2>8, <2>9 DEF DestScoped
  <2> QED  BY <1>2, <2>5, <2>10, <2>11, PartsStay DEF LinesHeld
<1>4. CASE ~ (dest[d].exists /\ b.set \subseteq hosts)
  <2>1. UNCHANGED dest /\ Then(q, <<>>)
    BY <1>0, <1>1, <1>4 DEF SetRestrictedNodes
  <2>2. Proceeds(q, Quiet)
    BY <2>1 DEF Then, Proceeds
  <2>3. CallHeld(Quiet)
    BY QuietHeld
  <2>4. CallsHeld'
    BY <2>2, <2>3, OneProceeds DEF LinesHeld
  <2>5. OnlyReads(q, Quiet)
    BY <1>0, <1>1, <1>2, <2>1, <2>2, <2>3 DEF OnlyReads, ltables
  <2> QED  BY <1>2, <2>1, <2>4, <2>5, PartsStay DEF LinesHeld
<1> QED  BY <1>3, <1>4

LEMMA AfterRestrictedStep ==
    ASSUME LinesHeld, NEW q \in Calls, AfterRestrictedNodes(q)
    PROVE  LinesHeld' /\ \E d, s : ScopeRead(q, d, s)
<1>1. PICK d \in Dests : d = call[q].id /\ call[q].op = "afternodes" /\ call[q].read \subseteq Hosts
  BY DEF LinesHeld, CallsHeld, CallHeld, AfterRestrictedNodes
<1>2. Queue(q, call[q].read \cup RestrictedNodeIDs(d)) /\ UNCHANGED <<ltables, routes>>
  BY <1>1 DEF AfterRestrictedNodes
<1>3. PICK s \in Seq(Hosts) : Then(q, s) /\ ToSet(s) = call[q].read \cup RestrictedNodeIDs(d)
  BY <1>1, <1>2, RestrictedAreHosts, QueueRest
<1>4. CallsHeld' /\ Proceeds(q, Rest(s))
  BY <1>3, ThenHeld, ThenRest DEF LinesHeld
<1>5. ScopeRead(q, d, s)
  BY <1>1, <1>2, <1>3, <1>4 DEF ScopeRead
<1> QED  BY <1>2, <1>4, <1>5, PartsStay DEF LinesHeld, ltables

-----------------------------------------------------------------------------
(* Nodes: deleted, and assembled *)

\* A node goes, with its lines, its rules and its part in the scopes; the peers read are handed on.
NodeDropped(q, n, s) ==
    /\ n \in Hosts /\ call[q].op = "deletenode" /\ call[q].id = n
    /\ s \in Seq(Hosts) /\ Proceeds(q, Rest(s))
    /\ n \in hosts => ToSet(s) = call[q].read
    /\ hosts' = hosts \ {n} /\ relays' \subseteq relays
    /\ lineOn' = {r \in lineOn : n \notin {r[1], r[2]}}
    /\ \A r \in lineOn' : allowedOn(r)' = allowedOn(r)
    /\ \A e \in Rules : rule'[e] = IF n \in {rule[e].on, rule[e].to} THEN NoRule ELSE rule[e]
    /\ \A T \in SUBSET {e \in Rules : n \notin {rule[e].on, rule[e].to}} : Keep(order', T) = Keep(order, T)
    /\ \A d \in Dests : /\ dest'[d].nodes = dest[d].nodes \ {n}
                        /\ dest'[d].users = dest[d].users /\ dest'[d].rev = dest[d].rev
    /\ \A m \in Hosts \ {n} : routes'[m] = routes[m]

\* The first node of the list assembled from the tables, if it is still there.
Reassembled(q, n, s) ==
    /\ n \in Hosts /\ call[q].op = "apply" /\ call[q].todo # <<>>
    /\ n = Head(call[q].todo) /\ s = Tail(call[q].todo) /\ ToSet(call[q].todo) = {n} \cup ToSet(s)
    /\ s \in Seq(Hosts) /\ Proceeds(q, Rest(s)) /\ UNCHANGED ltables
    /\ \A m \in Hosts : routes'[m] = IF m = n /\ n \in hosts THEN AssembleNode(n) ELSE routes[m]

LEMMA DeleteNodeStep ==
    ASSUME LinesHeld, NEW q \in Calls, NEW n \in Hosts, deleteNode(q, n)
    PROVE  LinesHeld' /\ \E c : OnlyReads(q, c)
<1>1. /\ call[q] = Quiet /\ UNCHANGED <<ltables, routes>>
      /\ call' = [call EXCEPT ![q] = [Quiet EXCEPT !.op = "deletenode", !.id = n, !.read = peerNodesOf(n)]]
  BY DEF deleteNode, Call
<1>2. PICK c : c = [Quiet EXCEPT !.op = "deletenode", !.id = n, !.read = peerNodesOf(n)]
  OBVIOUS
<1>3. Proceeds(q, c)
  BY <1>1, <1>2 DEF Proceeds
<1>4. /\ c.op = "deletenode" /\ c.id = n /\ c.read = peerNodesOf(n) /\ c.todo = <<>>
      /\ c = Handler(c.op, c.id, c.read, c.set, c.prev, c.todo)
  BY <1>2 DEF Quiet, Handler
<1>5. CallHeld(c)
  BY <1>4, PeersAreHosts DEF CallHeld
<1>6. CallsHeld'
  BY <1>3, <1>5, OneProceeds DEF LinesHeld
<1>7. OnlyReads(q, c)
  BY <1>1, <1>3, <1>4, <1>5 DEF OnlyReads
<1> QED  BY <1>1, <1>6, <1>7, PartsStay DEF LinesHeld, ltables

LEMMA NodeDroppedStep ==
    ASSUME LinesHeld, NEW q \in Calls, DeleteNode(q)
    PROVE  LinesHeld' /\ \E n, s : NodeDropped(q, n, s)
<1>1. PICK n \in Hosts : n = call[q].id /\ call[q].op = "deletenode" /\ call[q].read \subseteq Hosts
  BY DEF LinesHeld, CallsHeld, CallHeld, DeleteNode
<1>2. PICK gone, cut : /\ gone = {r \in relays : n \in {r[1], r[2]}}
                       /\ cut = {e \in Rules : n \in {rule[e].on, rule[e].to}}
  OBVIOUS
<1>3. /\ IF n \in hosts THEN Queue(q, call[q].read) ELSE Then(q, <<>>)
      /\ hosts' = hosts \ {n}
      /\ relays' = relays \ gone /\ lineOn' = lineOn \ gone
      /\ refused' = {t \in refused : t[2] \notin gone}
      /\ rule' = [e \in Rules |-> IF e \in cut THEN NoRule ELSE rule[e]]
      /\ order' = Keep(order, Rules \ cut)
      /\ dest' = [d \in Dests |-> [dest[d] EXCEPT !.nodes = @ \ {n}]]
      /\ routes' = [routes EXCEPT ![n] = Blank]
  BY <1>1, <1>2 DEF DeleteNode
<1>4. PICK s \in Seq(Hosts) : Then(q, s) /\ (n \in hosts => ToSet(s) = call[q].read)
  <2>1. CASE n \in hosts
    BY <1>1, <1>3, <2>1, QueueRest
  <2>2. CASE n \notin hosts
    <3>1. <<>> \in Seq(Hosts)
      OBVIOUS
    <3> QED  BY <1>3, <2>2, <3>1
  <2> QED  BY <2>1, <2>2
<1>5. CallsHeld' /\ Proceeds(q, Rest(s))
  BY <1>4, ThenHeld, ThenRest DEF LinesHeld
<1>6. LinesOwned' /\ lineOn' = {r \in lineOn : n \notin {r[1], r[2]}}
  BY <1>2, <1>3 DEF LinesHeld, LinesOwned
<1>7. /\ order \in Seq(Rules) /\ order' \in Seq(Rules)
      /\ \A T \in SUBSET {e \in Rules : n \notin {rule[e].on, rule[e].to}} : Keep(order', T) = Keep(order, T)
  <2>1. order \in Seq(Rules)
    BY DEF LinesHeld, RulesOwnedBy
  <2>2. order' \in Seq(Rules)
    BY <1>3, <2>1, KeepSeq
  <2>3. ASSUME NEW T \in SUBSET {e \in Rules : n \notin {rule[e].on, rule[e].to}}
        PROVE  Keep(order', T) = Keep(order, T)
    <3>1. (Rules \ cut) \cap T = T
      BY <1>2
    <3>2. Keep(Keep(order, Rules \ cut), T) = Keep(order, (Rules \ cut) \cap T)
      BY <2>1, KeepTwice
    <3> QED  BY <1>3, <3>1, <3>2
  <2> QED  BY <2>1, <2>2, <2>3
<1>8. \A e \in Rules : rule'[e] = IF n \in {rule[e].on, rule[e].to} THEN NoRule ELSE rule[e]
  BY <1>2, <1>3
<1>9. RulesOwnedBy'
  <2>1. rule' = [e \in Rules |-> rule'[e]]
    BY <1>3
  <2>2. ASSUME NEW e \in Rules PROVE RuleOwned(rule'[e], hosts')
    <3>1. CASE n \in {rule[e].on, rule[e].to}
      BY <1>8, <3>1, NoRuleOwned
    <3>2. CASE n \notin {rule[e].on, rule[e].to}
      BY <1>3, <1>8, <3>2 DEF LinesHeld, RulesOwnedBy, RuleOwned
    <3> QED  BY <3>1, <3>2
  <2> QED  BY <1>7, <2>1, <2>2 DEF RulesOwnedBy, RuleOwned
<1>10. ASSUME NEW d \in Dests
       PROVE  /\ dest'[d].nodes = dest[d].nodes \ {n} /\ dest'[d].users = dest[d].users
              /\ dest'[d].rev = dest[d].rev /\ DestOwned(dest'[d], hosts')
  <2>1. PICK r : r = [dest[d] EXCEPT !.nodes = @ \ {n}]
    OBVIOUS
  <2>2. dest'[d] = r
    BY <1>3, <2>1
  <2>3. DestOwned(dest[d], hosts)
    BY DEF LinesHeld, DestsOwned
  <2>4. /\ r.nodes = dest[d].nodes \ {n} /\ r.users = dest[d].users /\ r.rev = dest[d].rev
        /\ r.exists = dest[d].exists
        /\ r = [nodes |-> r.nodes, users |-> r.users, rev |-> r.rev, exists |-> r.exists]
    BY <2>1, <2>3 DEF DestOwned
  <2>5. DestOwned(r, hosts')
    BY <1>3, <2>3, <2>4 DEF DestOwned
  <2> QED  BY <2>2, <2>4, <2>5
<1>11. DestsOwned'
  <2>1. dest' = [d \in Dests |-> dest'[d]]
    BY <1>3
  <2> QED  BY <1>10, <2>1 DEF DestsOwned, DestOwned
<1>12. ConfigsHeld' /\ \A m \in Hosts \ {n} : routes'[m] = routes[m]
  <2>1. ConfigHeld(Blank)
    BY DEF ConfigHeld, Blank
  <2>2. routes = [m \in Hosts |-> routes[m]] /\ \A m \in Hosts : ConfigHeld(routes[m])
    BY DEF LinesHeld, ConfigsHeld
  <2>3. routes' = [m \in Hosts |-> IF m = n THEN Blank ELSE routes[m]]
    BY <1>3, <2>2
  <2>4. \A m \in Hosts : routes'[m] = IF m = n THEN Blank ELSE routes[m]
    BY <2>3
  <2>5. \A m \in Hosts : ConfigHeld(routes'[m])
    BY <2>1, <2>2, <2>4
  <2>6. routes' = [m \in Hosts |-> routes'[m]]
    BY <2>3
  <2> QED  BY <2>4, <2>5, <2>6 DEF ConfigsHeld, ConfigHeld
<1>13. \A r \in lineOn' : allowedOn(r)' = allowedOn(r)
  BY <1>2, <1>3 DEF allowedOn
<1>14. relays' \subseteq relays
  BY <1>3
<1>15. NodeDropped(q, n, s)
  BY <1>1, <1>3, <1>4, <1>5, <1>6, <1>7, <1>8, <1>10, <1>12, <1>13, <1>14 DEF NodeDropped
<1> QED  BY <1>5, <1>6, <1>9, <1>11, <1>12, <1>15 DEF LinesHeld

\* What AssembleNode puts into a config.
LEMMA AssembleParts ==
    ASSUME NEW n
    PROVE  LET c == AssembleNode(n) IN
           /\ c.lines = (IF n \in Bound THEN relayLines(n) ELSE {})
           /\ c.landing = (IF n \in Bound THEN RelaysToExit(n) ELSE {})
           /\ c.egress = egressFor(n)
           /\ c.egressIn = (IF n \in Bound THEN EgressRulesLandingOn(n) ELSE {})
           /\ c.blocks = (IF n \in Bound THEN blocksFor(n) ELSE {})
           /\ c = [lines |-> c.lines, landing |-> c.landing, egress |-> c.egress,
                   egressIn |-> c.egressIn, blocks |-> c.blocks, exits |-> c.exits]
BY DEF AssembleNode, relayClientEntries, egressClientEntries

\* The enabled rules of a node.
Enabled(n) == {e \in EgressRulesOn(n) : rule[e].enabled}

LEMMA EgressIs ==
    ASSUME LinesHeld, NEW n
    PROVE  /\ egressFor(n) = LandingsOf(rule, Keep(order, Enabled(n)))
           /\ egressFor(n) \in Seq(Rules \X Anywhere)
           /\ ToSet(egressFor(n)) = {<<e, rule[e].to>> : e \in ToSet(order) \cap Enabled(n)}
<1>1. order \in Seq(Rules) /\ \A e \in Rules : rule[e].to \in Anywhere
  BY DEF LinesHeld, RulesOwnedBy, RuleOwned, LinesOwned, NoRule, Anywhere
<1>2. PICK k : k = Keep(order, Enabled(n))
  OBVIOUS
<1>3. k \in Seq(Rules) /\ ToSet(k) = ToSet(order) \cap Enabled(n)
  BY <1>1, <1>2, KeepSeq
<1>4. egressFor(n) = LandingsOf(rule, k)
  BY <1>2 DEF egressFor, Landings, LandingsOf, Enabled
<1>5. /\ LandingsOf(rule, k) \in Seq({<<e, rule[e].to>> : e \in Rules})
      /\ ToSet(LandingsOf(rule, k)) = {<<e, rule[e].to>> : e \in ToSet(k)}
  BY <1>3, LandingsSet
<1>6. {<<e, rule[e].to>> : e \in Rules} \subseteq Rules \X Anywhere
  BY <1>1
<1>7. LandingsOf(rule, k) \in Seq(Rules \X Anywhere)
  BY <1>5, <1>6
<1> QED  BY <1>2, <1>3, <1>4, <1>5, <1>7

LEMMA AssembledHeld == ASSUME LinesHeld, NEW n PROVE ConfigHeld(AssembleNode(n))
<1>1. PICK c : c = AssembleNode(n)
  OBVIOUS
<1>2. /\ c.egress = egressFor(n)
      /\ c = [lines |-> c.lines, landing |-> c.landing, egress |-> c.egress,
              egressIn |-> c.egressIn, blocks |-> c.blocks, exits |-> c.exits]
  BY <1>1, AssembleParts
<1>3. c.egress \in Seq(Rules \X Anywhere)
  BY <1>2, EgressIs
<1> QED  BY <1>1, <1>2, <1>3 DEF ConfigHeld

LEMMA HeadAndTail ==
    ASSUME NEW A, NEW s \in Seq(A), s # <<>>
    PROVE  Head(s) \in A /\ Tail(s) \in Seq(A) /\ ToSet(s) = {Head(s)} \cup ToSet(Tail(s))
<1>1. PICK t : t = Tail(s)
  OBVIOUS
<1>2. /\ Head(s) \in A /\ t \in Seq(A) /\ Head(s) = s[1] /\ Len(s) \in Nat /\ Len(s) >= 1
      /\ DOMAIN s = 1..Len(s) /\ DOMAIN t = 1..(Len(s) - 1) /\ \A i \in 1..(Len(s) - 1) : t[i] = s[i + 1]
  BY <1>1
<1>3. ASSUME NEW x, x \in ToSet(s) PROVE x \in {s[1]} \cup ToSet(t)
  <2>1. PICK i \in 1..Len(s) : x = s[i]
    BY <1>2, <1>3 DEF ToSet
  <2>2. CASE i # 1
    <3>1. i - 1 \in DOMAIN t /\ t[i - 1] = x
      BY <1>2, <2>1, <2>2
    <3> QED  BY <3>1 DEF ToSet
  <2> QED  BY <2>1, <2>2
<1>4. ASSUME NEW x, x \in ToSet(t) PROVE x \in ToSet(s)
  <2>1. PICK i \in 1..(Len(s) - 1) : x = t[i]
    BY <1>2, <1>4 DEF ToSet
  <2>2. i + 1 \in DOMAIN s /\ s[i + 1] = x
    BY <1>2, <2>1
  <2> QED  BY <2>2 DEF ToSet
<1>5. s[1] \in ToSet(s)
  <2>1. 1 \in DOMAIN s
    BY <1>2
  <2> QED  BY <2>1 DEF ToSet
<1> QED  BY <1>1, <1>2, <1>3, <1>4, <1>5

LEMMA ApplyNextStep ==
    ASSUME LinesHeld, NEW q \in Calls, ApplyNext(q)
    PROVE  LinesHeld' /\ \E n, s : Reassembled(q, n, s)
<1>1. PICK todo : todo = call[q].todo
  OBVIOUS
<1>2. call[q].op = "apply" /\ todo \in Seq(Hosts) /\ todo # <<>>
  BY <1>1 DEF ApplyNext, LinesHeld, CallsHeld, CallHeld
<1>3. PICK n, s : n = Head(todo) /\ s = Tail(todo)
  OBVIOUS
<1>4. n \in Hosts /\ s \in Seq(Hosts) /\ ToSet(todo) = {n} \cup ToSet(s)
  BY <1>2, <1>3, HeadAndTail
<1>5. /\ routes' = IF n \in hosts THEN [routes EXCEPT ![n] = AssembleNode(n)] ELSE routes
      /\ Then(q, s) /\ UNCHANGED ltables
  BY <1>1, <1>3 DEF ApplyNext
<1>6. CallsHeld' /\ Proceeds(q, Rest(s))
  BY <1>4, <1>5, ThenHeld, ThenRest DEF LinesHeld
<1>7. routes = [m \in Hosts |-> routes[m]] /\ \A m \in Hosts : ConfigHeld(routes[m])
  BY DEF LinesHeld, ConfigsHeld
<1>8. \A m \in Hosts : routes'[m] = IF m = n /\ n \in hosts THEN AssembleNode(n) ELSE routes[m]
  BY <1>5, <1>7
<1>9. ConfigsHeld'
  <2>1. routes' = [m \in Hosts |-> routes'[m]]
    BY <1>5, <1>7
  <2>2. \A m \in Hosts : ConfigHeld(routes'[m])
    BY <1>7, <1>8, AssembledHeld
  <2> QED  BY <2>1, <2>2 DEF ConfigsHeld, ConfigHeld
<1>10. Reassembled(q, n, s)
  BY <1>1, <1>2, <1>3, <1>4, <1>5, <1>6, <1>8 DEF Reassembled
<1> QED  BY <1>5, <1>6, <1>9, <1>10, PartsStay DEF LinesHeld, ltables

-----------------------------------------------------------------------------

\* Every step of a handler, as one of the changes above.
HandlerEdits(q) ==
    \/ \E s : LinesEdited(q, s)
    \/ \E s : RulesEdited(q, s)
    \/ \E e : RuleSwitched(q, e)
    \/ DestOpened
    \/ \E d, s : DestEdited(q, d, s)
    \/ \E d : DestScoped(q, d)
    \/ \E d, s : ScopeRead(q, d, s)
    \/ \E c : OnlyReads(q, c)
    \/ \E n, s : NodeDropped(q, n, s)
    \/ \E n, s : Reassembled(q, n, s)

LEMMA HandlerStepEdits ==
    ASSUME LinesHeld, Unrefused, NEW q \in Calls,
           RelayStep(q) \/ AccessEdit(q) \/ EgressStep(q) \/ DestStep(q) \/ NodeStep(q)
    PROVE  LinesHeld' /\ HandlerEdits(q)
<1>1. CASE RelayStep(q)
  BY <1>1, CreateRelayStep, UpdateRelayStep, DeleteRelayStep, SetRelayUsersStep DEF RelayStep, HandlerEdits
<1>2. CASE AccessEdit(q)
  BY <1>2, SetNodeAccessStep DEF AccessEdit, HandlerEdits
<1>3. CASE EgressStep(q)
  BY <1>3, CreateEgressStep, UpdateEgressStep, DeleteEgressStep, ReorderEgressStep, MoveLandingStep
     DEF EgressStep, HandlerEdits, Anywhere
<1>4. CASE DestStep(q)
  BY <1>4, CreateRestrictedStep, UpdateRestrictedStep, SetRestrictedUsersStep, BeforeRestrictedStep,
     DeleteRestrictedStep, SetRestrictedNodesStep, AfterRestrictedStep
     DEF DestStep, deleteRestricted, setRestrictedNodes, HandlerEdits
<1>5. CASE NodeStep(q)
  BY <1>5, DeleteNodeStep, NodeDroppedStep, ApplyNextStep DEF NodeStep, HandlerEdits
<1> QED  BY <1>1, <1>2, <1>3, <1>4, <1>5

LEMMA LinesHeldInit == ASSUME LinesInit PROVE LinesHeld
<1>1. LinesOwned
  BY DEF LinesInit, LinesOwned
<1>2. RulesOwnedBy
  BY NoRuleOwned DEF LinesInit, RulesOwnedBy
<1>3. DestsOwned
  BY DEF LinesInit, DestsOwned, DestOwned, NoDest
<1>4. ConfigHeld(Blank)
  BY DEF ConfigHeld, Blank
<1>5. ConfigsHeld
  BY <1>4 DEF LinesInit, ConfigsHeld
<1>6. CallsHeld
  BY QuietHeld DEF LinesInit, CallsHeld
<1> QED  BY <1>1, <1>2, <1>3, <1>5, <1>6 DEF LinesHeld

-----------------------------------------------------------------------------
(* Lines: however the handlers overlap *)

\* What a handler in flight is about to do.
Lists(c, n) == c.op = "apply" /\ n \in ToSet(c.todo)
Edits(c, e) == c.op = "retarget" /\ c.id = e
Scopes(c, d) == c.op = "afternodes" /\ c.id = d

Awaits(n) == \E q \in Calls : Lists(call[q], n)
Retargeting(e) == \E q \in Calls : Edits(call[q], e)
Rescoping(d) == \E q \in Calls : Scopes(call[q], d)

\* Where traffic entering at n goes, by rules nobody is editing.
Pushed(n) ==
    {m \in Hosts : \/ m = n \/ <<n, m>> \in lineOn
                   \/ \E e \in Rules : /\ rule[e].enabled /\ rule[e].on = n /\ rule[e].to = m
                                       /\ ~ Retargeting(e)}

\* What the tables ask of n is in its config...
HasLines(n) ==
    n \in Bound => /\ \A r \in lineOn : r[1] = n => \A h \in allowedOn(r) : <<h, r>> \in routes[n].lines
                   /\ \A r \in lineOn : r[2] = n => r \in routes[n].landing
HasEgress(n) ==
    /\ n \in Bound => \A e \in Rules : rule[e].enabled /\ rule[e].to = n /\ ~ Retargeting(e)
                                          => e \in routes[n].egressIn
    /\ \A e \in ToSet(order) : /\ rule[e].on = n /\ rule[e].enabled /\ rule[e].to \notin Exits
                               /\ ~ Retargeting(e)
                               => <<e, rule[e].to>> \in ToSet(routes[n].egress)
HasBlocks(n) ==
    n \in Bound => \A d \in Dests : \/ Rescoping(d) \/ dest[d].nodes \cap Pushed(n) = {}
                                    \/ \A h \in Holders \ dest[d].users : <<<<d, dest[d].rev>>, h>> \in routes[n].blocks

\* ...and what is in it that leads to a node there is, the tables ask for.
OnlyLines(n) == \A t \in routes[n].lines : t[2][1] = n /\ (t[2] \in lineOn \/ t[2][2] \notin hosts)
OnlyEgress(n) ==
    \A t \in ToSet(routes[n].egress) :
        t[2] \in hosts => /\ rule[t[1]].on = n /\ rule[t[1]].to = t[2]
                          /\ rule[t[1]].enabled \/ Retargeting(t[1])

Served(n) == HasLines(n) /\ HasEgress(n) /\ HasBlocks(n) /\ OnlyLines(n) /\ OnlyEgress(n)

\* A node is served, or somebody is going to assemble it.
AllServed == \A n \in hosts : Awaits(n) \/ Served(n)

\* A step after which the tables ask nothing more of n, and still what leads anywhere from it.
Undisturbed(n) ==
    /\ routes'[n] = routes[n] /\ hosts' \subseteq hosts
    /\ \A r \in lineOn' : r[1] = n => r \in lineOn /\ allowedOn(r)' \subseteq allowedOn(r)
    /\ \A r \in lineOn' : r[2] = n => r \in lineOn
    /\ \A r \in lineOn : r[1] = n => r \in lineOn' \/ r[2] \notin hosts'
    /\ \A e \in Rules : /\ n \in {rule'[e].on, rule'[e].to} /\ rule'[e].enabled
                        /\ rule'[e].to \notin Exits /\ ~ Retargeting(e)'
                        => /\ rule'[e] = rule[e] /\ ~ Retargeting(e)
                           /\ e \in ToSet(order') => e \in ToSet(order) \/ rule[e].on # n
    /\ \A e \in Rules : rule[e].on = n /\ rule[e].to \in hosts' /\ (rule[e].enabled \/ Retargeting(e))
                        => /\ rule'[e].on = n /\ rule'[e].to = rule[e].to
                           /\ rule'[e].enabled \/ Retargeting(e)'
    /\ \A d \in Dests : \/ Rescoping(d)' \/ dest'[d].nodes \cap Pushed(n)' = {}
                        \/ /\ ~ Rescoping(d) /\ dest'[d].nodes \subseteq dest[d].nodes
                           /\ dest'[d].users = dest[d].users /\ dest'[d].rev = dest[d].rev

LEMMA UndisturbedServed ==
    ASSUME LinesHeld, LinesHeld', NEW n \in hosts', Served(n), Undisturbed(n)
    PROVE  Served(n)'
<1>0. /\ routes'[n] = routes[n] /\ n \in hosts /\ n \in Hosts /\ n \notin Exits
      /\ \A m \in hosts' : m \notin Exits /\ m \in hosts
  BY LinesAssumption DEF Undisturbed, LinesHeld, LinesOwned
<1>1. HasLines(n)'
  BY <1>0 DEF Served, HasLines, Undisturbed
<1>2. HasEgress(n)'
  <2>1. ASSUME n \in Bound, NEW e \in Rules, rule'[e].enabled, rule'[e].to = n, ~ Retargeting(e)'
        PROVE  e \in routes'[n].egressIn
    BY <1>0, <2>1 DEF Served, HasEgress, Undisturbed
  <2>2. ASSUME NEW e \in ToSet(order'), rule'[e].on = n, rule'[e].enabled, rule'[e].to \notin Exits,
               ~ Retargeting(e)'
        PROVE  <<e, rule'[e].to>> \in ToSet(routes'[n].egress)
    <3>1. e \in Rules
      BY DEF LinesHeld, RulesOwnedBy, ToSet
    <3>2. rule'[e] = rule[e] /\ ~ Retargeting(e) /\ e \in ToSet(order)
      BY <2>2, <3>1 DEF Undisturbed
    <3> QED  BY <1>0, <2>2, <3>2 DEF Served, HasEgress
  <2> QED  BY <2>1, <2>2 DEF HasEgress
<1>3. HasBlocks(n)'
  <2>1. Pushed(n)' \subseteq Pushed(n)
    <3> SUFFICES ASSUME NEW m \in Pushed(n)' PROVE m \in Pushed(n)
      OBVIOUS
    <3>1. m \in Hosts /\ m \notin Exits
      BY LinesAssumption DEF Pushed
    <3>2. CASE m = n
      BY <3>1, <3>2 DEF Pushed
    <3>3. CASE <<n, m>> \in lineOn'
      <4>1. <<n, m>> \in lineOn
        BY <3>3 DEF Undisturbed
      <4> QED  BY <3>1, <4>1 DEF Pushed
    <3>4. ASSUME NEW e \in Rules, rule'[e].enabled, rule'[e].on = n, rule'[e].to = m, ~ Retargeting(e)'
          PROVE  m \in Pushed(n)
      <4>1. rule'[e] = rule[e] /\ ~ Retargeting(e)
        BY <3>1, <3>4 DEF Undisturbed
      <4> QED  BY <3>1, <3>4, <4>1 DEF Pushed
    <3> QED  BY <3>2, <3>3, <3>4 DEF Pushed
  <2>2. ASSUME n \in Bound, NEW d \in Dests, ~ Rescoping(d)', dest'[d].nodes \cap Pushed(n)' # {},
               NEW h \in Holders \ dest'[d].users
        PROVE  <<<<d, dest'[d].rev>>, h>> \in routes'[n].blocks
    <3>1. /\ ~ Rescoping(d) /\ dest'[d].nodes \subseteq dest[d].nodes
          /\ dest'[d].users = dest[d].users /\ dest'[d].rev = dest[d].rev
      BY <2>2 DEF Undisturbed
    <3>2. dest[d].nodes \cap Pushed(n) # {}
      BY <2>1, <2>2, <3>1
    <3> QED  BY <1>0, <2>2, <3>1, <3>2 DEF Served, HasBlocks
  <2> QED  BY <2>2 DEF HasBlocks
<1>4. OnlyLines(n)'
  BY <1>0 DEF Served, OnlyLines, Undisturbed
<1>5. OnlyEgress(n)'
  <2> SUFFICES ASSUME NEW t \in ToSet(routes'[n].egress), t[2] \in hosts'
               PROVE  /\ rule'[t[1]].on = n /\ rule'[t[1]].to = t[2]
                      /\ rule'[t[1]].enabled \/ Retargeting(t[1])'
    BY DEF OnlyEgress
  <2>1. t[1] \in Rules
    <3>1. routes[n].egress \in Seq(Rules \X Anywhere)
      BY <1>0 DEF LinesHeld, ConfigsHeld, ConfigHeld
    <3>2. t \in Rules \X Anywhere
      BY <1>0, <3>1 DEF ToSet
    <3> QED  BY <3>2
  <2>2. t[2] \in hosts /\ rule[t[1]].on = n /\ rule[t[1]].to = t[2] /\ (rule[t[1]].enabled \/ Retargeting(t[1]))
    BY <1>0 DEF Served, OnlyEgress
  <2> QED  BY <2>1, <2>2 DEF Undisturbed
<1> QED  BY <1>1, <1>2, <1>3, <1>4, <1>5 DEF Served

\* The lists, edits and scopes in flight after a handler goes on.
LEMMA CallsAfter ==
    ASSUME CallsHeld, NEW q \in Calls, NEW c, Proceeds(q, c)
    PROVE  /\ \A n : Awaits(n)' <=> Lists(c, n) \/ \E p \in Calls \ {q} : Lists(call[p], n)
           /\ \A e : Retargeting(e)' <=> Edits(c, e) \/ \E p \in Calls \ {q} : Edits(call[p], e)
           /\ \A d : Rescoping(d)' <=> Scopes(c, d) \/ \E p \in Calls \ {q} : Scopes(call[p], d)
<1>1. \A p \in Calls : call'[p] = IF p = q THEN c ELSE call[p]
  BY OneProceeds
<1>2. ASSUME NEW n PROVE Awaits(n)' <=> Lists(c, n) \/ \E p \in Calls \ {q} : Lists(call[p], n)
  <2>1. Awaits(n)' <=> \E p \in Calls : Lists(call'[p], n)
    BY DEF Awaits, Lists
  <2> QED  BY <1>1, <2>1
<1>3. ASSUME NEW e PROVE Retargeting(e)' <=> Edits(c, e) \/ \E p \in Calls \ {q} : Edits(call[p], e)
  <2>1. Retargeting(e)' <=> \E p \in Calls : Edits(call'[p], e)
    BY DEF Retargeting, Edits
  <2> QED  BY <1>1, <2>1
<1>4. ASSUME NEW d PROVE Rescoping(d)' <=> Scopes(c, d) \/ \E p \in Calls \ {q} : Scopes(call[p], d)
  <2>1. Rescoping(d)' <=> \E p \in Calls : Scopes(call'[p], d)
    BY DEF Rescoping, Scopes
  <2> QED  BY <1>1, <2>1
<1> QED  BY <1>2, <1>3, <1>4

\* A handler hands the nodes of s on.
LEMMA HandsOn ==
    ASSUME CallsHeld, NEW q \in Calls, NEW s \in Seq(Hosts), Proceeds(q, Rest(s)), call[q].op # "apply"
    PROVE  /\ \A n : Awaits(n)' <=> Awaits(n) \/ n \in ToSet(s)
           /\ \A e : Retargeting(e)' => Retargeting(e)
           /\ \A e : Retargeting(e) => Retargeting(e)' \/ Edits(call[q], e)
           /\ \A d : Rescoping(d)' => Rescoping(d)
           /\ \A d : Rescoping(d) => Rescoping(d)' \/ Scopes(call[q], d)
<1>1. PICK c : c = Rest(s)
  OBVIOUS
<1>2. c.op = (IF s = <<>> THEN "idle" ELSE "apply") /\ c.todo = s
  BY <1>1, RestHeld
<1>3. \A n : (Lists(c, n) <=> n \in ToSet(s)) /\ ~ Lists(call[q], n)
  BY <1>2, EmptySet DEF Lists
<1>4. (\A e : ~ Edits(c, e)) /\ \A d : ~ Scopes(c, d)
  BY <1>2 DEF Edits, Scopes
<1>5. Proceeds(q, c)
  BY <1>1
<1>6. ASSUME NEW n PROVE Awaits(n)' <=> Awaits(n) \/ n \in ToSet(s)
  <2>1. Awaits(n)' <=> Lists(c, n) \/ \E p \in Calls \ {q} : Lists(call[p], n)
    BY <1>5, CallsAfter
  <2>2. Awaits(n) <=> \E p \in Calls : Lists(call[p], n)
    BY DEF Awaits
  <2> QED  BY <1>3, <2>1, <2>2
<1>7. ASSUME NEW e
      PROVE  (Retargeting(e)' => Retargeting(e)) /\ (Retargeting(e) => Retargeting(e)' \/ Edits(call[q], e))
  <2>1. Retargeting(e)' <=> Edits(c, e) \/ \E p \in Calls \ {q} : Edits(call[p], e)
    BY <1>5, CallsAfter
  <2>2. Retargeting(e) <=> \E p \in Calls : Edits(call[p], e)
    BY DEF Retargeting
  <2> QED  BY <1>4, <2>1, <2>2
<1>8. ASSUME NEW d
      PROVE  (Rescoping(d)' => Rescoping(d)) /\ (Rescoping(d) => Rescoping(d)' \/ Scopes(call[q], d))
  <2>1. Rescoping(d)' <=> Scopes(c, d) \/ \E p \in Calls \ {q} : Scopes(call[p], d)
    BY <1>5, CallsAfter
  <2>2. Rescoping(d) <=> \E p \in Calls : Scopes(call[p], d)
    BY DEF Rescoping
  <2> QED  BY <1>4, <2>1, <2>2
<1> QED  BY <1>6, <1>7, <1>8

\* A handler goes on without a list.
LEMMA GoesFurther ==
    ASSUME CallsHeld, NEW q \in Calls, NEW c, Proceeds(q, c), c.op # "apply", call[q].op # "apply"
    PROVE  /\ \A n : Awaits(n)' <=> Awaits(n)
           /\ \A e : Retargeting(e)' => Retargeting(e) \/ Edits(c, e)
           /\ \A e : Retargeting(e) => Retargeting(e)' \/ Edits(call[q], e)
           /\ \A d : Rescoping(d)' => Rescoping(d) \/ Scopes(c, d)
           /\ \A d : Rescoping(d) => Rescoping(d)' \/ Scopes(call[q], d)
<1>3. \A n : ~ Lists(c, n) /\ ~ Lists(call[q], n)
  BY DEF Lists
<1>6. ASSUME NEW n PROVE Awaits(n)' <=> Awaits(n)
  <2>1. Awaits(n)' <=> Lists(c, n) \/ \E p \in Calls \ {q} : Lists(call[p], n)
    BY CallsAfter
  <2>2. Awaits(n) <=> \E p \in Calls : Lists(call[p], n)
    BY DEF Awaits
  <2> QED  BY <1>3, <2>1, <2>2
<1>7. ASSUME NEW e
      PROVE  (Retargeting(e)' => Retargeting(e) \/ Edits(c, e)) /\ (Retargeting(e) => Retargeting(e)' \/ Edits(call[q], e))
  <2>1. Retargeting(e)' <=> Edits(c, e) \/ \E p \in Calls \ {q} : Edits(call[p], e)
    BY CallsAfter
  <2>2. Retargeting(e) <=> \E p \in Calls : Edits(call[p], e)
    BY DEF Retargeting
  <2> QED  BY <2>1, <2>2
<1>8. ASSUME NEW d
      PROVE  (Rescoping(d)' => Rescoping(d) \/ Scopes(c, d)) /\ (Rescoping(d) => Rescoping(d)' \/ Scopes(call[q], d))
  <2>1. Rescoping(d)' <=> Scopes(c, d) \/ \E p \in Calls \ {q} : Scopes(call[p], d)
    BY CallsAfter
  <2>2. Rescoping(d) <=> \E p \in Calls : Scopes(call[p], d)
    BY DEF Rescoping
  <2> QED  BY <2>1, <2>2
<1> QED  BY <1>6, <1>7, <1>8

-----------------------------------------------------------------------------

\* A handler that edits nothing about rules and scopes in flight, handing s on.
LEMMA QuietHandsOn ==
    ASSUME CallsHeld, NEW q \in Calls, NEW s \in Seq(Hosts), Proceeds(q, Rest(s)),
           call[q].op \in {"idle", "deletedest", "deletenode", "setnodes"}
    PROVE  /\ \A n : Awaits(n)' <=> Awaits(n) \/ n \in ToSet(s)
           /\ \A e : Retargeting(e)' <=> Retargeting(e)
           /\ \A d : Rescoping(d)' <=> Rescoping(d)
<1>1. (\A e : ~ Edits(call[q], e)) /\ \A d : ~ Scopes(call[q], d)
  BY DEF Edits, Scopes
<1>2. call[q].op # "apply"
  OBVIOUS
<1> QED  BY <1>1, <1>2, HandsOn, Zenon

LEMMA LinesEditedServed ==
    ASSUME LinesHeld, LinesHeld', AllServed, NEW q \in Calls, NEW s, LinesEdited(q, s)
    PROVE  AllServed'
<1>1. /\ \A n : Awaits(n)' <=> Awaits(n) \/ n \in ToSet(s)
      /\ \A e : Retargeting(e)' <=> Retargeting(e)
      /\ \A d : Rescoping(d)' <=> Rescoping(d)
  BY QuietHandsOn, QuietParts DEF LinesEdited, LinesHeld
<1> SUFFICES ASSUME NEW n \in hosts', ~ Awaits(n)' PROVE Served(n)'
  BY DEF AllServed
<1>2. /\ n \in hosts /\ n \in Hosts /\ n \notin ToSet(s) /\ Served(n)
  BY <1>1 DEF AllServed, LinesEdited, LinesHeld, LinesOwned
<1>3. ASSUME NEW r \in lineOn' \ lineOn PROVE r[1] # n /\ r[2] # n
  <2>1. r \in Relays
    BY DEF LinesHeld, LinesOwned
  <2>2. s = PairOf(r)
    BY DEF LinesEdited, PairOf
  <2> QED  BY <1>2, <2>1, <2>2, PairHeld
<1>4. ASSUME NEW r \in lineOn', r[1] = n PROVE allowedOn(r)' = allowedOn(r)
  BY <1>2, <1>4 DEF LinesEdited
<1>5. ASSUME NEW r \in lineOn, r[1] = n PROVE r \in lineOn'
  BY <1>2, <1>5 DEF LinesEdited
<1>6. Undisturbed(n)
  BY <1>1, <1>3, <1>4, <1>5 DEF Undisturbed, LinesEdited
<1> QED  BY <1>2, <1>6, UndisturbedServed

\* A rule is in an order or not, for orders that agree on it.
LEMMA SameMember ==
    ASSUME NEW s \in Seq(Rules), NEW t \in Seq(Rules), NEW e \in Rules, Keep(s, {e}) = Keep(t, {e})
    PROVE  e \in ToSet(s) <=> e \in ToSet(t)
<1>1. ToSet(Keep(s, {e})) = ToSet(s) \cap {e} /\ ToSet(Keep(t, {e})) = ToSet(t) \cap {e}
  BY KeepSeq
<1> QED  BY <1>1

LEMMA RulesEditedServed ==
    ASSUME LinesHeld, LinesHeld', AllServed, NEW q \in Calls, NEW s, RulesEdited(q, s)
    PROVE  AllServed'
<1>0. call[q].op # "apply" /\ (\A d : ~ Scopes(call[q], d)) /\ s \in Seq(Hosts) /\ Proceeds(q, Rest(s))
  BY QuietParts DEF RulesEdited, Scopes
<1>1. /\ \A n : Awaits(n)' <=> Awaits(n) \/ n \in ToSet(s)
      /\ \A e : Retargeting(e)' => Retargeting(e)
      /\ \A e : Retargeting(e) => Retargeting(e)' \/ Edits(call[q], e)
      /\ \A d : Rescoping(d)' <=> Rescoping(d)
  BY <1>0, HandsOn DEF LinesHeld
<1> SUFFICES ASSUME NEW n \in hosts', ~ Awaits(n)' PROVE Served(n)'
  BY DEF AllServed
<1>2. /\ n \in hosts /\ n \in Hosts /\ n \notin ToSet(s) /\ Served(n)
  BY <1>1 DEF AllServed, RulesEdited, LinesHeld, LinesOwned
<1>3. ASSUME NEW e \in Rules, rule'[e] # rule[e] \/ Edits(call[q], e)
      PROVE  n # rule[e].on /\ n # rule'[e].on /\ n # rule'[e].to
  BY <1>2, <1>3 DEF RulesEdited, Edits
<1>4. ASSUME NEW e \in Rules, rule[e].on = n PROVE e \in ToSet(order') <=> e \in ToSet(order)
  <2>1. {e} \in SUBSET EgressRulesOn(n)
    BY <1>4 DEF EgressRulesOn
  <2>2. Keep(order', {e}) = Keep(order, {e})
    BY <1>2, <2>1 DEF RulesEdited
  <2> QED  BY <2>2, SameMember DEF LinesHeld, RulesOwnedBy
<1>5. UNCHANGED <<hosts, relays, lineOn, refused, dest, routes>>
  BY DEF RulesEdited
<1>6. \A r : allowedOn(r)' = allowedOn(r)
  BY <1>5 DEF allowedOn
<1>7. ASSUME NEW e \in Rules, n \in {rule'[e].on, rule'[e].to}, ~ Retargeting(e)'
      PROVE  /\ rule'[e] = rule[e] /\ ~ Retargeting(e)
             /\ e \in ToSet(order') => e \in ToSet(order) \/ rule[e].on # n
  BY <1>1, <1>3, <1>4, <1>7
<1>8. ASSUME NEW e \in Rules, rule[e].on = n, rule[e].enabled \/ Retargeting(e)
      PROVE  /\ rule'[e].on = n /\ rule'[e].to = rule[e].to
             /\ rule'[e].enabled \/ Retargeting(e)'
  BY <1>1, <1>3, <1>8
<1>9. Undisturbed(n)
  BY <1>1, <1>5, <1>6, <1>7, <1>8 DEF Undisturbed
<1> QED  BY <1>2, <1>9, UndisturbedServed

\* No handler moves.
LEMMA NoneMoves ==
    ASSUME UNCHANGED call
    PROVE  /\ \A n : Awaits(n)' <=> Awaits(n)
           /\ \A e : Retargeting(e)' <=> Retargeting(e)
           /\ \A d : Rescoping(d)' <=> Rescoping(d)
BY DEF Awaits, Retargeting, Rescoping, Lists, Edits, Scopes

LEMMA ExitsEditedServed ==
    ASSUME LinesHeld, LinesHeld', AllServed, ExitsEdited
    PROVE  AllServed'
<1>0. UNCHANGED <<hosts, relays, lineOn, dest, routes, call>>
  BY DEF ExitsEdited
<1>1. /\ \A n : Awaits(n)' <=> Awaits(n)
      /\ \A e : Retargeting(e)' <=> Retargeting(e)
      /\ \A d : Rescoping(d)' <=> Rescoping(d)
  BY <1>0, NoneMoves
<1> SUFFICES ASSUME NEW n \in hosts', ~ Awaits(n)' PROVE Served(n)'
  BY DEF AllServed
<1>2. /\ n \in hosts /\ n \in Hosts /\ Served(n)
  BY <1>0, <1>1 DEF AllServed, LinesHeld, LinesOwned
<1>3. ASSUME NEW e \in Rules, rule'[e].enabled PROVE rule'[e] = rule[e]
  BY <1>3 DEF ExitsEdited, NoRule
<1>4. ASSUME NEW e \in Rules, rule[e].to \notin Exits PROVE e \in ToSet(order') <=> e \in ToSet(order)
  <2>1. {e} \in SUBSET {f \in Rules : rule[f].to \notin Exits}
    BY <1>4
  <2>2. Keep(order', {e}) = Keep(order, {e})
    BY <2>1 DEF ExitsEdited
  <2> QED  BY <2>2, SameMember DEF LinesHeld, RulesOwnedBy
<1>5. ASSUME NEW e \in Rules, rule[e].to \in hosts PROVE rule'[e] = rule[e]
  BY <1>5, LinesAssumption DEF ExitsEdited, LinesHeld, LinesOwned
<1>6. \A r \in lineOn : allowedOn(r)' = allowedOn(r)
  BY DEF ExitsEdited, LinesHeld, LinesOwned
<1>7. ASSUME NEW e \in Rules, rule'[e].enabled, rule'[e].to \notin Exits
      PROVE  rule'[e] = rule[e] /\ (e \in ToSet(order') => e \in ToSet(order))
  BY <1>3, <1>4, <1>7
<1>8. Undisturbed(n)
  BY <1>0, <1>1, <1>5, <1>6, <1>7 DEF Undisturbed
<1> QED  BY <1>2, <1>8, UndisturbedServed

LEMMA RuleSwitchedServed ==
    ASSUME LinesHeld, LinesHeld', AllServed, NEW q \in Calls, NEW e, RuleSwitched(q, e)
    PROVE  AllServed'
<1>0. /\ UNCHANGED <<hosts, relays, lineOn, refused, order, dest, routes>> /\ call[q] = Quiet
      /\ e \in Rules /\ rule'[e].on = rule[e].on /\ rule'[e].to = rule[e].to
      /\ \A f \in Rules : f # e => rule'[f] = rule[f]
  BY DEF RuleSwitched
<1>1. PICK c : Proceeds(q, c) /\ c.op = "retarget" /\ c.id = e
  BY DEF RuleSwitched
<1>2. /\ (\A f : Edits(c, f) <=> f = e) /\ (\A d : ~ Scopes(c, d)) /\ c.op # "apply"
      /\ (\A f : ~ Edits(call[q], f)) /\ (\A d : ~ Scopes(call[q], d)) /\ call[q].op # "apply"
  BY <1>0, <1>1, QuietParts DEF Edits, Scopes
<1>3. /\ \A n : Awaits(n)' <=> Awaits(n)
      /\ \A f : Retargeting(f)' => Retargeting(f) \/ f = e
      /\ \A f : Retargeting(f) => Retargeting(f)'
      /\ \A d : Rescoping(d)' <=> Rescoping(d)
  BY <1>1, <1>2, GoesFurther DEF LinesHeld
<1>4. Retargeting(e)'
  BY <1>1, <1>2, CallsAfter DEF LinesHeld
<1> SUFFICES ASSUME NEW n \in hosts', ~ Awaits(n)' PROVE Served(n)'
  BY DEF AllServed
<1>5. /\ n \in hosts /\ Served(n)
  BY <1>0, <1>3 DEF AllServed
<1>6. \A r : allowedOn(r)' = allowedOn(r)
  BY <1>0 DEF allowedOn
<1>7. Undisturbed(n)
  BY <1>0, <1>3, <1>4, <1>6 DEF Undisturbed
<1> QED  BY <1>5, <1>7, UndisturbedServed

LEMMA DestOpenedServed ==
    ASSUME LinesHeld, LinesHeld', AllServed, DestOpened
    PROVE  AllServed'
<1>0. UNCHANGED <<hosts, relays, lineOn, refused, rule, order, routes, call>>
  BY DEF DestOpened
<1>1. /\ \A n : Awaits(n)' <=> Awaits(n)
      /\ \A e : Retargeting(e)' <=> Retargeting(e)
      /\ \A d : Rescoping(d)' <=> Rescoping(d)
  BY <1>0, NoneMoves
<1> SUFFICES ASSUME NEW n \in hosts', ~ Awaits(n)' PROVE Served(n)'
  BY DEF AllServed
<1>2. /\ n \in hosts /\ Served(n)
  BY <1>0, <1>1 DEF AllServed
<1>3. \A r : allowedOn(r)' = allowedOn(r)
  BY <1>0 DEF allowedOn
<1>4. \A d \in Dests : dest'[d] = dest[d] \/ dest'[d].nodes \cap Pushed(n)' = {}
  BY DEF DestOpened
<1>5. Undisturbed(n)
  BY <1>0, <1>1, <1>3, <1>4 DEF Undisturbed
<1> QED  BY <1>2, <1>5, UndisturbedServed

\* A node that does not carry a scope pushes nothing there.
LEMMA NotCarried ==
    ASSUME UNCHANGED <<lineOn, rule>>, NEW n, NEW N, n \notin Carrying(N)
    PROVE  N \cap Pushed(n)' = {}
<1> SUFFICES ASSUME NEW m \in N, m \in Pushed(n)' PROVE FALSE
  OBVIOUS
<1>1. m = n \/ <<n, m>> \in lineOn \/ \E e \in Rules : rule[e].enabled /\ rule[e].on = n /\ rule[e].to = m
  BY DEF Pushed
<1>2. ASSUME <<n, m>> \in lineOn PROVE n \in Carrying(N)
  <2>1. PICK r : r = <<n, m>>
    OBVIOUS
  <2>2. r \in lineOn /\ r[1] = n /\ r[2] \in N
    BY <1>2, <2>1
  <2> QED  BY <2>2 DEF Carrying
<1>3. ASSUME NEW e \in Rules, rule[e].enabled, rule[e].on = n, rule[e].to = m PROVE n \in Carrying(N)
  BY <1>3 DEF Carrying
<1>4. m = n => n \in Carrying(N)
  BY DEF Carrying
<1> QED  BY <1>1, <1>2, <1>3, <1>4

LEMMA DestEditedServed ==
    ASSUME LinesHeld, LinesHeld', AllServed, NEW q \in Calls, NEW d, NEW s, DestEdited(q, d, s)
    PROVE  AllServed'
<1>0. /\ UNCHANGED <<hosts, relays, lineOn, refused, rule, order, routes>>
      /\ s \in Seq(Hosts) /\ Proceeds(q, Rest(s)) /\ call[q].op \in {"idle", "deletedest"}
      /\ \A c \in Dests : c # d => dest'[c] = dest[c]
  BY QuietParts DEF DestEdited
<1>1. /\ \A n : Awaits(n)' <=> Awaits(n) \/ n \in ToSet(s)
      /\ \A e : Retargeting(e)' <=> Retargeting(e)
      /\ \A c : Rescoping(c)' <=> Rescoping(c)
  BY <1>0, QuietHandsOn DEF LinesHeld
<1> SUFFICES ASSUME NEW n \in hosts', ~ Awaits(n)' PROVE Served(n)'
  BY DEF AllServed
<1>2. /\ n \in hosts /\ n \notin ToSet(s) /\ Served(n)
  BY <1>0, <1>1 DEF AllServed
<1>3. \A r : allowedOn(r)' = allowedOn(r)
  BY <1>0 DEF allowedOn
<1>4. dest'[d].nodes \cap Pushed(n)' = {}
  <2>1. n \notin Carrying(dest'[d].nodes)
    BY <1>2 DEF DestEdited
  <2> QED  BY <1>0, <2>1, NotCarried
<1>5. Undisturbed(n)
  BY <1>0, <1>1, <1>3, <1>4 DEF Undisturbed
<1> QED  BY <1>2, <1>5, UndisturbedServed

LEMMA DestScopedServed ==
    ASSUME LinesHeld, LinesHeld', AllServed, NEW q \in Calls, NEW d, DestScoped(q, d)
    PROVE  AllServed'
<1>0. /\ UNCHANGED <<hosts, relays, lineOn, refused, rule, order, routes>> /\ call[q].op = "setnodes"
      /\ \A c \in Dests : c # d => dest'[c] = dest[c]
  BY DEF DestScoped
<1>1. PICK c : Proceeds(q, c) /\ c.op = "afternodes" /\ c.id = d
  BY DEF DestScoped
<1>2. /\ (\A e : ~ Edits(c, e)) /\ (\A b : Scopes(c, b) <=> b = d) /\ c.op # "apply"
      /\ (\A e : ~ Edits(call[q], e)) /\ (\A b : ~ Scopes(call[q], b)) /\ call[q].op # "apply"
  BY <1>0, <1>1 DEF Edits, Scopes
<1>3. /\ \A n : Awaits(n)' <=> Awaits(n)
      /\ \A e : Retargeting(e)' <=> Retargeting(e)
      /\ \A b : Rescoping(b)' => Rescoping(b) \/ b = d
      /\ \A b : Rescoping(b) => Rescoping(b)'
  BY <1>1, <1>2, GoesFurther DEF LinesHeld
<1>4. Rescoping(d)'
  BY <1>1, <1>2, CallsAfter DEF LinesHeld
<1> SUFFICES ASSUME NEW n \in hosts', ~ Awaits(n)' PROVE Served(n)'
  BY DEF AllServed
<1>5. /\ n \in hosts /\ Served(n)
  BY <1>0, <1>3 DEF AllServed
<1>6. \A r : allowedOn(r)' = allowedOn(r)
  BY <1>0 DEF allowedOn
<1>7. Undisturbed(n)
  BY <1>0, <1>3, <1>4, <1>6 DEF Undisturbed
<1> QED  BY <1>5, <1>7, UndisturbedServed

LEMMA ScopeReadServed ==
    ASSUME LinesHeld, LinesHeld', AllServed, NEW q \in Calls, NEW d, NEW s, ScopeRead(q, d, s)
    PROVE  AllServed'
<1>0. /\ UNCHANGED <<hosts, relays, lineOn, refused, rule, order, dest, routes>>
      /\ s \in Seq(Hosts) /\ Proceeds(q, Rest(s)) /\ call[q].op # "apply"
      /\ \A e : ~ Edits(call[q], e)
      /\ \A b : Scopes(call[q], b) => b = d
  BY DEF ScopeRead, ltables, Edits, Scopes
<1>1. /\ \A n : Awaits(n)' <=> Awaits(n) \/ n \in ToSet(s)
      /\ \A e : Retargeting(e)' <=> Retargeting(e)
      /\ \A c : Rescoping(c) => Rescoping(c)' \/ c = d
  BY <1>0, HandsOn DEF LinesHeld
<1> SUFFICES ASSUME NEW n \in hosts', ~ Awaits(n)' PROVE Served(n)'
  BY DEF AllServed
<1>2. /\ n \in hosts /\ n \notin ToSet(s) /\ Served(n)
  BY <1>0, <1>1 DEF AllServed
<1>3. \A r : allowedOn(r)' = allowedOn(r)
  BY <1>0 DEF allowedOn
<1>4. dest'[d].nodes \cap Pushed(n)' = {}
  <2>1. n \notin Carrying(dest[d].nodes)
    BY <1>2, RestrictedCarry DEF ScopeRead
  <2>2. dest'[d].nodes = dest[d].nodes
    BY <1>0
  <2> QED  BY <1>0, <2>1, <2>2, NotCarried
<1>5. Undisturbed(n)
  BY <1>0, <1>1, <1>3, <1>4 DEF Undisturbed
<1> QED  BY <1>2, <1>5, UndisturbedServed

LEMMA OnlyReadsServed ==
    ASSUME LinesHeld, LinesHeld', AllServed, NEW q \in Calls, NEW c, OnlyReads(q, c)
    PROVE  AllServed'
<1>0. /\ UNCHANGED <<hosts, relays, lineOn, refused, rule, order, dest, routes>> /\ Proceeds(q, c)
      /\ call[q].op \in {"idle", "setnodes"} /\ c.op \in {"idle", "deletedest", "setnodes", "deletenode"}
  BY QuietParts DEF OnlyReads, ltables
<1>1. /\ (\A e : ~ Edits(c, e)) /\ (\A b : ~ Scopes(c, b)) /\ c.op # "apply"
      /\ (\A e : ~ Edits(call[q], e)) /\ (\A b : ~ Scopes(call[q], b)) /\ call[q].op # "apply"
  BY <1>0 DEF Edits, Scopes
<1>2. /\ \A n : Awaits(n)' <=> Awaits(n)
      /\ \A e : Retargeting(e)' <=> Retargeting(e)
      /\ \A b : Rescoping(b)' <=> Rescoping(b)
  BY <1>0, <1>1, GoesFurther DEF LinesHeld
<1> SUFFICES ASSUME NEW n \in hosts', ~ Awaits(n)' PROVE Served(n)'
  BY DEF AllServed
<1>3. /\ n \in hosts /\ Served(n)
  BY <1>0, <1>2 DEF AllServed
<1>4. \A r : allowedOn(r)' = allowedOn(r)
  BY <1>0 DEF allowedOn
<1>5. Undisturbed(n)
  BY <1>0, <1>2, <1>4 DEF Undisturbed
<1> QED  BY <1>3, <1>5, UndisturbedServed

LEMMA NodeDroppedServed ==
    ASSUME LinesHeld, LinesHeld', AllServed, NEW q \in Calls, NEW m, NEW s, NodeDropped(q, m, s)
    PROVE  AllServed'
<1>0. /\ s \in Seq(Hosts) /\ Proceeds(q, Rest(s)) /\ call[q].op = "deletenode"
      /\ hosts' = hosts \ {m}
      /\ \A e \in Rules : rule'[e] = IF m \in {rule[e].on, rule[e].to} THEN NoRule ELSE rule[e]
  BY DEF NodeDropped
<1>1. /\ \A n : Awaits(n)' <=> Awaits(n) \/ n \in ToSet(s)
      /\ \A e : Retargeting(e)' <=> Retargeting(e)
      /\ \A c : Rescoping(c)' <=> Rescoping(c)
  BY <1>0, QuietHandsOn DEF LinesHeld
<1> SUFFICES ASSUME NEW n \in hosts', ~ Awaits(n)' PROVE Served(n)'
  BY DEF AllServed
<1>2. /\ n \in hosts /\ n # m /\ Served(n) /\ n \in Hosts
  BY <1>0, <1>1 DEF AllServed, LinesHeld, LinesOwned
<1>3. /\ \A r \in lineOn' : r \in lineOn /\ allowedOn(r)' = allowedOn(r)
      /\ \A r \in lineOn : r[1] = n => r \in lineOn' \/ r[2] \notin hosts'
      /\ routes'[n] = routes[n]
  BY <1>0, <1>2 DEF NodeDropped
<1>4. ASSUME NEW e \in Rules, rule'[e].enabled
      PROVE  rule'[e] = rule[e] /\ (e \in ToSet(order') => e \in ToSet(order))
  <2>1. m \notin {rule[e].on, rule[e].to} /\ rule'[e] = rule[e]
    BY <1>0, <1>4 DEF NoRule
  <2>2. {e} \in SUBSET {f \in Rules : m \notin {rule[f].on, rule[f].to}}
    BY <2>1
  <2>3. Keep(order', {e}) = Keep(order, {e})
    BY <2>2 DEF NodeDropped
  <2> QED  BY <2>1, <2>3, SameMember DEF LinesHeld, RulesOwnedBy
<1>5. ASSUME NEW e \in Rules, rule[e].on = n, rule[e].to \in hosts' PROVE rule'[e] = rule[e]
  BY <1>0, <1>2, <1>5
<1>6. \A d \in Dests : /\ dest'[d].nodes \subseteq dest[d].nodes
                       /\ dest'[d].users = dest[d].users /\ dest'[d].rev = dest[d].rev
  BY DEF NodeDropped
<1>7. Undisturbed(n)
  BY <1>0, <1>1, <1>3, <1>4, <1>5, <1>6 DEF Undisturbed
<1> QED  BY <1>2, <1>7, UndisturbedServed

\* A node just assembled carries what the tables ask of it, and nothing else.
LEMMA AssembledServed ==
    ASSUME LinesHeld, NEW n \in hosts, UNCHANGED ltables, routes'[n] = AssembleNode(n)
    PROVE  Served(n)'
<1> USE DEF ltables
<1>c. PICK c : /\ c = AssembleNode(n)
               /\ c.lines = (IF n \in Bound THEN relayLines(n) ELSE {})
               /\ c.landing = (IF n \in Bound THEN RelaysToExit(n) ELSE {})
               /\ c.egress = egressFor(n)
               /\ c.egressIn = (IF n \in Bound THEN EgressRulesLandingOn(n) ELSE {})
               /\ c.blocks = (IF n \in Bound THEN blocksFor(n) ELSE {})
  BY AssembleParts, Zenon
<1>0. /\ c = routes'[n]
      /\ c.lines = (IF n \in Bound THEN relayLines(n) ELSE {})
      /\ c.landing = (IF n \in Bound THEN RelaysToExit(n) ELSE {})
      /\ c.egress = egressFor(n)
      /\ c.egressIn = (IF n \in Bound THEN EgressRulesLandingOn(n) ELSE {})
      /\ c.blocks = (IF n \in Bound THEN blocksFor(n) ELSE {})
  BY <1>c, Zenon
<1>1. HasLines(n)'
  <2>1. ASSUME n \in Bound, NEW r \in lineOn, r[1] = n, NEW h \in allowedOn(r) PROVE <<h, r>> \in c.lines
    <3>1. r \in RelaysFromEntry(n)
      BY <2>1 DEF RelaysFromEntry
    <3>2. <<h, r>> \in allowedOn(r) \X {r}
      BY <2>1
    <3>3. <<h, r>> \in relayLines(n)
      BY <3>1, <3>2 DEF relayLines
    <3> QED  BY <1>0, <2>1, <3>3
  <2>2. ASSUME n \in Bound, NEW r \in lineOn, r[2] = n PROVE r \in c.landing
    BY <1>0, <2>2 DEF RelaysToExit
  <2>3. \A r : allowedOn(r)' = allowedOn(r)
    BY DEF allowedOn
  <2> QED  BY <1>0, <2>1, <2>2, <2>3 DEF HasLines
<1>2. ToSet(c.egress) = {<<e, rule[e].to>> : e \in ToSet(order) \cap Enabled(n)}
  BY <1>0, EgressIs
<1>3. ToSet(order) \subseteq Rules
  BY DEF LinesHeld, RulesOwnedBy, ToSet
<1>4. HasEgress(n)'
  <2>1. n \in Bound => \A e \in Rules : rule[e].enabled /\ rule[e].to = n => e \in c.egressIn
    BY <1>0 DEF EgressRulesLandingOn
  <2>2. \A e \in ToSet(order) : rule[e].on = n /\ rule[e].enabled => <<e, rule[e].to>> \in ToSet(c.egress)
    BY <1>2, <1>3 DEF Enabled, EgressRulesOn
  <2> QED  BY <1>0, <2>1, <2>2 DEF HasEgress
<1>5. HasBlocks(n)'
  <2> SUFFICES ASSUME n \in Bound, NEW d \in Dests, NEW m \in dest[d].nodes, m \in Pushed(n)',
                      NEW h \in Holders \ dest[d].users
               PROVE  <<<<d, dest[d].rev>>, h>> \in blocksFor(n)
    BY <1>0 DEF HasBlocks
  <2>1. m \in {n} \cup exitOf(n)
    <3>1. CASE m = n
      BY <3>1
    <3>2. CASE <<n, m>> \in lineOn
      <4>1. PICK r : r = <<n, m>>
        OBVIOUS
      <4>2. r \in RelaysFromEntry(n) /\ r[2] = m
        BY <3>2, <4>1 DEF RelaysFromEntry
      <4> QED  BY <4>2 DEF exitOf
    <3>3. ASSUME NEW e \in Rules, rule[e].enabled, rule[e].on = n, rule[e].to = m PROVE m \in exitOf(n)
      <4>1. m \in Hosts
        BY DEF Pushed
      <4> QED  BY <3>3, <4>1 DEF exitOf, EgressRulesOn
    <3> QED  BY <3>1, <3>2, <3>3 DEF Pushed
  <2> QED  BY <2>1 DEF blocksFor
<1>6. OnlyLines(n)'
  BY <1>0 DEF OnlyLines, relayLines, RelaysFromEntry
<1>7. OnlyEgress(n)'
  BY <1>0, <1>2 DEF OnlyEgress, Enabled, EgressRulesOn
<1> QED  BY <1>1, <1>4, <1>5, <1>6, <1>7 DEF Served

LEMMA ReassembledServed ==
    ASSUME LinesHeld, LinesHeld', AllServed, NEW q \in Calls, NEW m, NEW s, Reassembled(q, m, s)
    PROVE  AllServed'
<1>0. /\ UNCHANGED <<hosts, relays, lineOn, refused, rule, order, dest>> /\ UNCHANGED ltables
      /\ s \in Seq(Hosts) /\ Proceeds(q, Rest(s)) /\ ToSet(call[q].todo) = {m} \cup ToSet(s)
      /\ call[q].op = "apply"
  BY DEF Reassembled, ltables
<1>1. PICK c : c = Rest(s)
  OBVIOUS
<1>2. c.op = (IF s = <<>> THEN "idle" ELSE "apply") /\ c.todo = s
  BY <1>0, <1>1, RestHeld
<1>3. /\ \A n : Lists(c, n) <=> n \in ToSet(s)
      /\ \A n : Lists(call[q], n) <=> n = m \/ n \in ToSet(s)
      /\ \A e : ~ Edits(c, e) /\ ~ Edits(call[q], e)
      /\ \A d : ~ Scopes(c, d) /\ ~ Scopes(call[q], d)
  BY <1>0, <1>2, EmptySet DEF Lists, Edits, Scopes
<1>4. /\ \A n : Awaits(n)' <=> Lists(c, n) \/ \E p \in Calls \ {q} : Lists(call[p], n)
      /\ \A e : Retargeting(e)' <=> Edits(c, e) \/ \E p \in Calls \ {q} : Edits(call[p], e)
      /\ \A d : Rescoping(d)' <=> Scopes(c, d) \/ \E p \in Calls \ {q} : Scopes(call[p], d)
  BY <1>0, <1>1, CallsAfter DEF LinesHeld
<1>5. /\ \A n : Awaits(n) => Awaits(n)' \/ n = m
      /\ \A e : Retargeting(e)' <=> Retargeting(e)
      /\ \A d : Rescoping(d)' <=> Rescoping(d)
  BY <1>3, <1>4 DEF Awaits, Retargeting, Rescoping
<1> SUFFICES ASSUME NEW n \in hosts', ~ Awaits(n)' PROVE Served(n)'
  BY DEF AllServed
<1>6. n \in hosts /\ n \in Hosts
  BY <1>0 DEF LinesHeld, LinesOwned
<1>7. CASE n = m
  <2>1. routes'[n] = AssembleNode(n)
    BY <1>6, <1>7 DEF Reassembled
  <2> QED  BY <1>0, <1>6, <2>1, AssembledServed
<1>8. CASE n # m
  <2>1. Served(n)
    BY <1>5, <1>6, <1>8 DEF AllServed
  <2>2. routes'[n] = routes[n]
    BY <1>6, <1>8 DEF Reassembled
  <2>3. \A r : allowedOn(r)' = allowedOn(r)
    BY <1>0 DEF allowedOn
  <2>4. Undisturbed(n)
    BY <1>0, <1>5, <2>2, <2>3 DEF Undisturbed
  <2> QED  BY <2>1, <2>4, UndisturbedServed
<1> QED  BY <1>7, <1>8

-----------------------------------------------------------------------------

LEMMA AllServedStep ==
    ASSUME LinesHeld, LinesHeld', AllServed, NEW q \in Calls, HandlerEdits(q)
    PROVE  AllServed'
BY LinesEditedServed, RulesEditedServed, RuleSwitchedServed, DestOpenedServed, DestEditedServed,
   DestScopedServed, ScopeReadServed, OnlyReadsServed, NodeDroppedServed, ReassembledServed
   DEF HandlerEdits

LEMMA AllServedInit == ASSUME LinesInit PROVE AllServed
<1> SUFFICES ASSUME NEW n \in Hosts PROVE Served(n)
  BY DEF AllServed, LinesInit
<1>1. routes[n] = Blank /\ lineOn = {} /\ order = <<>>
  BY DEF LinesInit
<1>2. \A e \in Rules : ~ rule[e].enabled
  BY DEF LinesInit, NoRule
<1>3. \A d \in Dests : dest[d].nodes = {}
  BY DEF LinesInit, NoDest
<1>4. Blank.lines = {} /\ Blank.egress = <<>>
  BY DEF Blank
<1>5. HasLines(n) /\ HasEgress(n) /\ HasBlocks(n)
  BY <1>1, <1>2, <1>3, EmptySet DEF HasLines, HasEgress, HasBlocks
<1>6. OnlyLines(n) /\ OnlyEgress(n)
  BY <1>1, <1>4, EmptySet DEF OnlyLines, OnlyEgress
<1> QED  BY <1>5, <1>6 DEF Served

LEMMA StandsStill ==
    ASSUME LinesHeld, UNCHANGED rvars
    PROVE  LinesHeld' /\ (AllServed => AllServed')
<1>1. UNCHANGED <<hosts, relays, lineOn, rule, order, dest, exit, refused, routes, call>>
  BY DEF rvars, ltables
<1>2. LinesHeld'
  BY <1>1, PartsStay DEF LinesHeld
<1>3. DestOpened
  BY <1>1 DEF DestOpened
<1> QED  BY <1>2, <1>3, DestOpenedServed

LEMMA QuietServed ==
    ASSUME AllServed, AllQuiet, NEW n \in hosts
    PROVE  Served(n) /\ (\A e : ~ Retargeting(e)) /\ \A d : ~ Rescoping(d)
<1>1. \A q \in Calls : call[q].op = "idle"
  BY QuietParts DEF AllQuiet
<1>2. ~ Awaits(n) /\ (\A e : ~ Retargeting(e)) /\ \A d : ~ Rescoping(d)
  BY <1>1 DEF Awaits, Retargeting, Rescoping, Lists, Edits, Scopes
<1> QED  BY <1>2 DEF AllServed

LEMMA ServedBars ==
    ASSUME LinesHeld, AllServed
    PROVE  BarredAtEntry
<1> SUFFICES ASSUME AllQuiet, NEW n \in hosts \cap Bound, NEW d \in Dests, NEW h \in Holders \ dest[d].users,
                    NEW m \in dest[d].nodes,
                    m \in ({t[2][2] : t \in {l \in routes[n].lines : l[1] = h}}
                           \cup {t[2] : t \in ToSet(routes[n].egress)}) \cup {n}
             PROVE  <<<<d, dest[d].rev>>, h>> \in routes[n].blocks
  BY DEF BarredAtEntry
<1>1. Served(n) /\ (\A e : ~ Retargeting(e)) /\ ~ Rescoping(d)
  BY QuietServed
<1>2. m \in hosts /\ m \in Hosts /\ n \in Hosts
  BY DEF LinesHeld, LinesOwned, DestsOwned, DestOwned
<1>3. m \in Pushed(n)
  <2>1. CASE m = n
    BY <1>2, <2>1 DEF Pushed
  <2>2. ASSUME NEW t \in routes[n].lines, m = t[2][2] PROVE m \in Pushed(n)
    <3>1. PICK r : r = t[2]
      OBVIOUS
    <3>2. r[1] = n /\ r \in lineOn /\ r[2] = m
      BY <1>1, <1>2, <2>2, <3>1 DEF Served, OnlyLines
    <3>3. r \in Hosts \X Hosts
      BY <3>2 DEF LinesHeld, LinesOwned, Relays
    <3>4. r = <<n, m>>
      BY <3>2, <3>3
    <3> QED  BY <1>2, <3>2, <3>4 DEF Pushed
  <2>3. ASSUME NEW t \in ToSet(routes[n].egress), m = t[2] PROVE m \in Pushed(n)
    <3>1. t[1] \in Rules
      <4>1. routes[n].egress \in Seq(Rules \X Anywhere)
        BY <1>2 DEF LinesHeld, ConfigsHeld, ConfigHeld
      <4>2. t \in Rules \X Anywhere
        BY <2>3, <4>1 DEF ToSet
      <4> QED  BY <4>2
    <3>2. rule[t[1]].on = n /\ rule[t[1]].to = m /\ rule[t[1]].enabled
      BY <1>1, <1>2, <2>3 DEF Served, OnlyEgress
    <3> QED  BY <1>1, <1>2, <3>1, <3>2 DEF Pushed
  <2> QED  BY <2>1, <2>2, <2>3
<1> QED  BY <1>1, <1>3 DEF Served, HasBlocks

LEMMA ServedInstalls ==
    ASSUME LinesHeld, AllServed
    PROVE  LinesInstalled
<1> SUFFICES ASSUME AllQuiet, NEW n \in hosts
             PROVE  /\ AssembleNode(n).lines \subseteq routes[n].lines
                    /\ AssembleNode(n).landing \subseteq routes[n].landing
                    /\ AssembleNode(n).egressIn \subseteq routes[n].egressIn
                    /\ AssembleNode(n).blocks \subseteq routes[n].blocks
                    /\ ToSet(FleetEgress(AssembleNode(n).egress)) \subseteq ToSet(routes[n].egress)
  BY DEF LinesInstalled
<1>0. PICK c : /\ c = AssembleNode(n)
               /\ c.lines = (IF n \in Bound THEN relayLines(n) ELSE {})
               /\ c.landing = (IF n \in Bound THEN RelaysToExit(n) ELSE {})
               /\ c.egress = egressFor(n)
               /\ c.egressIn = (IF n \in Bound THEN EgressRulesLandingOn(n) ELSE {})
               /\ c.blocks = (IF n \in Bound THEN blocksFor(n) ELSE {})
  BY AssembleParts, Zenon
<1>1. HasLines(n) /\ HasEgress(n) /\ HasBlocks(n) /\ (\A e : ~ Retargeting(e)) /\ \A d : ~ Rescoping(d)
  BY QuietServed DEF Served
<1>2. c.lines \subseteq routes[n].lines /\ c.landing \subseteq routes[n].landing
  <2>1. n \in Bound => relayLines(n) \subseteq routes[n].lines
    BY <1>1 DEF HasLines, relayLines, RelaysFromEntry
  <2>2. n \in Bound => RelaysToExit(n) \subseteq routes[n].landing
    BY <1>1 DEF HasLines, RelaysToExit
  <2> QED  BY <1>0, <2>1, <2>2
<1>3. c.egressIn \subseteq routes[n].egressIn
  BY <1>0, <1>1 DEF HasEgress, EgressRulesLandingOn
<1>4. c.blocks \subseteq routes[n].blocks
  <2> SUFFICES ASSUME n \in Bound, NEW b \in blocksFor(n) PROVE b \in routes[n].blocks
    BY <1>0
  <2>0. PICK d \in Dests : /\ b \in {<<d, dest[d].rev>>} \X (Holders \ dest[d].users)
                            /\ dest[d].nodes \cap ({n} \cup exitOf(n)) # {}
    BY DEF blocksFor
  <2>1. PICK h \in Holders \ dest[d].users, m \in dest[d].nodes :
            b = <<<<d, dest[d].rev>>, h>> /\ m \in {n} \cup exitOf(n)
    BY <2>0
  <2>2. n \in Hosts /\ m \in Hosts
    BY DEF LinesHeld, LinesOwned, DestsOwned, DestOwned
  <2>3. m \in Pushed(n)
    <3>1. CASE m = n
      BY <2>2, <3>1 DEF Pushed
    <3>2. ASSUME NEW r \in lineOn, r[1] = n, r[2] = m PROVE m \in Pushed(n)
      <4>1. r \in Hosts \X Hosts
        BY DEF LinesHeld, LinesOwned, Relays
      <4>2. r = <<n, m>>
        BY <3>2, <4>1
      <4> QED  BY <2>2, <3>2, <4>2 DEF Pushed
    <3>3. ASSUME NEW e \in Rules, rule[e].on = n, rule[e].enabled, rule[e].to = m PROVE m \in Pushed(n)
      BY <1>1, <2>2, <3>3 DEF Pushed
    <3> QED  BY <2>1, <3>1, <3>2, <3>3 DEF exitOf, RelaysFromEntry, EgressRulesOn
  <2> QED  BY <1>1, <2>1, <2>3 DEF HasBlocks
<1>5. ToSet(FleetEgress(c.egress)) \subseteq ToSet(routes[n].egress)
  <2>1. egressFor(n) \in Seq(Rules \X Anywhere)
    BY EgressIs
  <2>2. ToSet(FleetEgress(egressFor(n))) = ToSet(egressFor(n)) \cap (Rules \X (Hosts \cup {NoHost}))
    BY <2>1, KeepSeq DEF FleetEgress
  <2> SUFFICES ASSUME NEW t \in ToSet(egressFor(n)), t \in Rules \X (Hosts \cup {NoHost})
               PROVE  t \in ToSet(routes[n].egress)
    BY <1>0, <2>2
  <2>3. PICK e \in ToSet(order) \cap Enabled(n) : t = <<e, rule[e].to>>
    BY EgressIs
  <2>4. rule[e].to \notin Exits /\ rule[e].on = n /\ rule[e].enabled
    BY <2>3, LinesAssumption DEF Enabled, EgressRulesOn
  <2> QED  BY <1>1, <2>3, <2>4 DEF HasEgress
<1> QED  BY <1>0, <1>2, <1>3, <1>4, <1>5

-----------------------------------------------------------------------------
(* Lines: while no two handlers have overlapped *)

\* The enabled rules of a node that land in the fleet or leave from it.
FleetRules(n) == {e \in Rules : rule[e].on = n /\ rule[e].enabled /\ rule[e].to \in Hosts \cup {NoHost}}

\* The config of n is what the tables ask for.
Carries(n) ==
    /\ routes[n].lines = (IF n \in Bound THEN relayLines(n) ELSE {})
    /\ routes[n].landing = (IF n \in Bound THEN RelaysToExit(n) ELSE {})
    /\ routes[n].egressIn = (IF n \in Bound THEN EgressRulesLandingOn(n) ELSE {})
    /\ routes[n].blocks = (IF n \in Bound THEN blocksFor(n) ELSE {})
    /\ FleetEgress(routes[n].egress) = LandingsOf(rule, Keep(order, FleetRules(n)))

\* The only handler in flight.
Alone(q) == \A p \in Calls \ {q} : call[p] = Quiet

\* The nodes a handler is going to assemble...
Pends(c, n) ==
    \/ Lists(c, n)
    \/ \E e \in Rules : Edits(c, e) /\ rule[e].to \notin Exits /\ n \in {rule[e].on, rule[e].to}
    \/ \E d \in Dests : Scopes(c, d) /\ n \in c.read \cup RestrictedNodeIDs(d)

\* ...and what it has read, which nobody has changed since.
Fresh(c) ==
    /\ c.op \in {"deletedest", "setnodes"} => RestrictedNodeIDs(c.id) \subseteq c.read
    /\ c.op = "deletenode" => peerNodesOf(c.id) \subseteq c.read
    /\ c.op = "retarget" => rule[c.id] = NoRule \/ rule[c.id].to = c.prev

OneAtATime ==
    ~ crossed =>
        /\ \A p, q \in Calls : p = q \/ call[p] = Quiet \/ call[q] = Quiet
        /\ \A q \in Calls : Fresh(call[q])
        /\ \A n \in hosts : Carries(n) \/ \E q \in Calls : Pends(call[q], n)

\* A step after which the tables ask the same of n.
Unmoved(n) ==
    /\ routes'[n] = routes[n]
    /\ RelaysFromEntry(n)' = RelaysFromEntry(n) /\ RelaysToExit(n)' = RelaysToExit(n)
    /\ \A r \in RelaysFromEntry(n) : allowedOn(r)' = allowedOn(r)
    /\ EgressRulesLandingOn(n)' = EgressRulesLandingOn(n)
    /\ FleetRules(n)' = FleetRules(n) /\ \A e \in FleetRules(n) : rule'[e].to = rule[e].to
    /\ Keep(order', FleetRules(n)) = Keep(order, FleetRules(n))
    /\ \A d \in Dests :
          LET E == {n} \cup exitOf(n) IN
          /\ dest'[d].nodes \cap E = dest[d].nodes \cap E
          /\ dest[d].nodes \cap E = {} \/ (dest'[d].users = dest[d].users /\ dest'[d].rev = dest[d].rev)

LEMMA SameLandings ==
    ASSUME NEW f, NEW g, NEW s \in Seq(Rules), NEW S, \A e \in S : f[e].to = g[e].to, NEW k, k = Keep(s, S)
    PROVE  LandingsOf(f, k) = LandingsOf(g, k)
<1>1. k = Keep(s, S)
  OBVIOUS
<1>2. k \in Seq(Rules) /\ ToSet(k) \subseteq S
  BY <1>1, KeepSeq
<1>3. \A i \in 1..Len(k) : k[i] \in S
  BY <1>2 DEF ToSet
<1>4. \A i \in 1..Len(k) : f[k[i]].to = g[k[i]].to
  BY <1>3
<1> QED  BY <1>1, <1>4 DEF LandingsOf

LEMMA ExitsOfFleet ==
    ASSUME NEW n, RelaysFromEntry(n)' = RelaysFromEntry(n), FleetRules(n)' = FleetRules(n),
           \A e \in FleetRules(n) : rule'[e].to = rule[e].to
    PROVE  exitOf(n)' = exitOf(n)
<1>1. exitOf(n) = {r[2] : r \in RelaysFromEntry(n)} \cup ({rule[e].to : e \in FleetRules(n)} \cap Hosts)
  BY LinesAssumption DEF exitOf, FleetRules, EgressRulesOn
<1>2. exitOf(n)' = {r[2] : r \in RelaysFromEntry(n)'} \cup ({rule'[e].to : e \in FleetRules(n)'} \cap Hosts)
  BY LinesAssumption DEF exitOf, FleetRules, EgressRulesOn
<1> QED  BY <1>1, <1>2

LEMMA UnmovedCarries ==
    ASSUME LinesHeld, LinesHeld', NEW n \in Hosts, Carries(n), Unmoved(n)
    PROVE  Carries(n)'
<1>1. relayLines(n)' = relayLines(n)
  BY DEF Unmoved, relayLines
<1>2. RelaysToExit(n)' = RelaysToExit(n) /\ EgressRulesLandingOn(n)' = EgressRulesLandingOn(n)
  BY DEF Unmoved
<1>3. exitOf(n)' = exitOf(n)
  BY ExitsOfFleet DEF Unmoved
<1>4. blocksFor(n)' = blocksFor(n)
  <2>1. ASSUME NEW d \in Dests
        PROVE  LET E == {n} \cup exitOf(n) IN
               /\ dest'[d].nodes \cap E # {} <=> dest[d].nodes \cap E # {}
               /\ dest[d].nodes \cap E # {} => dest'[d].users = dest[d].users /\ dest'[d].rev = dest[d].rev
    BY DEF Unmoved
  <2> QED  BY <1>3, <2>1 DEF blocksFor
<1>5. LandingsOf(rule', Keep(order', FleetRules(n)')) = LandingsOf(rule, Keep(order, FleetRules(n)))
  <2>1. LandingsOf(rule', Keep(order, FleetRules(n))) = LandingsOf(rule, Keep(order, FleetRules(n)))
    <3>1. PICK g : g = rule'
      OBVIOUS
    <3>2. order \in Seq(Rules) /\ \A e \in FleetRules(n) : g[e].to = rule[e].to
      BY <3>1 DEF Unmoved, LinesHeld, RulesOwnedBy
    <3>3. LandingsOf(g, Keep(order, FleetRules(n))) = LandingsOf(rule, Keep(order, FleetRules(n)))
      BY <3>2, SameLandings
    <3> QED  BY <3>1, <3>3
  <2> QED  BY <2>1 DEF Unmoved
<1>6. FleetEgress(routes[n].egress)' = FleetEgress(routes[n].egress)
  BY DEF Unmoved, FleetEgress, Keep
<1>7. routes'[n] = routes[n]
  BY DEF Unmoved
<1> QED  BY <1>1, <1>2, <1>4, <1>5, <1>6, <1>7 DEF Carries

\* What AssembleNode writes of the rules that stay in the fleet.
LEMMA FleetIs ==
    ASSUME LinesHeld, NEW n
    PROVE  FleetEgress(egressFor(n)) = LandingsOf(rule, Keep(order, FleetRules(n)))
<1>1. order \in Seq(Rules)
  BY DEF LinesHeld, RulesOwnedBy
<1>2. PICK k, Q, F : /\ k = Keep(order, Enabled(n)) /\ Q = Rules \X (Hosts \cup {NoHost})
                     /\ F = {e \in Rules : rule[e].to \in Hosts \cup {NoHost}}
  OBVIOUS
<1>3. k \in Seq(Rules) /\ egressFor(n) = LandingsOf(rule, k)
  BY <1>1, <1>2, KeepSeq, EgressIs
<1>4. Keep(LandingsOf(rule, k), Q) = LandingsOf(rule, Keep(k, F))
  <2>1. \A e \in Rules : e \in F <=> <<e, rule[e].to>> \in Q
    BY <1>2
  <2> QED  BY <1>3, <2>1, KeepLandings
<1>5. Keep(k, F) = Keep(order, Enabled(n) \cap F)
  BY <1>1, <1>2, KeepTwice
<1>6. Enabled(n) \cap F = FleetRules(n)
  BY <1>2 DEF Enabled, EgressRulesOn, FleetRules
<1> QED  BY <1>2, <1>3, <1>4, <1>5, <1>6 DEF FleetEgress

LEMMA AssembledCarries ==
    ASSUME LinesHeld, NEW n \in hosts, UNCHANGED ltables, routes'[n] = AssembleNode(n)
    PROVE  Carries(n)'
<1>1. UNCHANGED <<hosts, relays, lineOn, rule, order, dest, exit, refused>>
  BY DEF ltables
<1>2. PICK c : /\ c = AssembleNode(n)
               /\ c.lines = (IF n \in Bound THEN relayLines(n) ELSE {})
               /\ c.landing = (IF n \in Bound THEN RelaysToExit(n) ELSE {})
               /\ c.egress = egressFor(n)
               /\ c.egressIn = (IF n \in Bound THEN EgressRulesLandingOn(n) ELSE {})
               /\ c.blocks = (IF n \in Bound THEN blocksFor(n) ELSE {})
  BY AssembleParts, Zenon
<1>3. c = routes'[n]
  BY <1>2, Zenon
<1>4. RelaysFromEntry(n)' = RelaysFromEntry(n) /\ RelaysToExit(n)' = RelaysToExit(n)
  BY <1>1 DEF RelaysFromEntry, RelaysToExit
<1>5. \A r : allowedOn(r)' = allowedOn(r)
  BY <1>1 DEF allowedOn
<1>6. relayLines(n)' = relayLines(n)
  BY <1>4, <1>5 DEF relayLines
<1>7. EgressRulesLandingOn(n)' = EgressRulesLandingOn(n) /\ FleetRules(n)' = FleetRules(n)
  BY <1>1 DEF EgressRulesLandingOn, FleetRules
<1>8. exitOf(n)' = exitOf(n)
  BY <1>1, <1>4, <1>7, ExitsOfFleet
<1>9. blocksFor(n)' = blocksFor(n)
  BY <1>1, <1>8 DEF blocksFor
<1>10. FleetEgress(routes[n].egress)' = LandingsOf(rule, Keep(order, FleetRules(n)))
  <2>1. FleetEgress(routes[n].egress)' = FleetEgress(c.egress)
    BY <1>3 DEF FleetEgress, Keep
  <2> QED  BY <1>2, <2>1, FleetIs
<1>11. LandingsOf(rule, Keep(order, FleetRules(n)))' = LandingsOf(rule, Keep(order, FleetRules(n)))
  BY <1>1, <1>7 DEF LandingsOf, Keep
<1> QED  BY <1>2, <1>3, <1>4, <1>6, <1>7, <1>9, <1>10, <1>11 DEF Carries

\* What the handler at q leaves behind, when it is the only one.
Lonely(q) == Fresh(call[q]) /\ \A n \in hosts : Carries(n) \/ Pends(call[q], n)

LEMMA QuietPends ==
    ASSUME NEW c, c.op \notin {"apply", "retarget", "afternodes"}
    PROVE  \A n : ~ Pends(c, n)
BY DEF Pends, Lists, Edits, Scopes

\* A handler with a list ahead of it.
LEMMA RestPends ==
    ASSUME CallsHeld, NEW q \in Calls, NEW s \in Seq(Hosts), Proceeds(q, Rest(s))
    PROVE  Fresh(call[q])' /\ \A n : Pends(call[q], n)' <=> n \in ToSet(s)
<1>1. PICK c : c = Rest(s)
  OBVIOUS
<1>2. c.op = (IF s = <<>> THEN "idle" ELSE "apply") /\ c.todo = s
  BY <1>1, RestHeld
<1>3. call'[q] = c
  BY <1>1, OneProceeds
<1>4. Fresh(call[q])'
  BY <1>2, <1>3 DEF Fresh
<1>5. \A n : Lists(c, n) <=> n \in ToSet(s)
  BY <1>2, EmptySet DEF Lists
<1>6. (\A e : ~ Edits(c, e)) /\ \A d : ~ Scopes(c, d)
  BY <1>2 DEF Edits, Scopes
<1>7. ASSUME NEW n PROVE Pends(call[q], n)' <=> n \in ToSet(s)
  <2>1. Lists(call[q], n)' <=> n \in ToSet(s)
    BY <1>3, <1>5 DEF Lists
  <2>2. (\A e : ~ Edits(call[q], e)') /\ \A d : ~ Scopes(call[q], d)'
    BY <1>3, <1>6 DEF Edits, Scopes
  <2> QED  BY <2>1, <2>2 DEF Pends
<1> QED  BY <1>4, <1>7

\* A node outside what carries a scope does not reach it.
LEMMA NotReached ==
    ASSUME NEW n, NEW N, n \notin Carrying(N)
    PROVE  N \cap ({n} \cup exitOf(n)) = {}
BY DEF Carrying, exitOf, RelaysFromEntry, EgressRulesOn

LEMMA ScopesMove ==
    ASSUME NEW n, UNCHANGED <<lineOn, refused, rule, order>>, routes'[n] = routes[n],
           \A d \in Dests : \/ dest'[d] = dest[d]
                            \/ n \notin Carrying(dest[d].nodes) /\ n \notin Carrying(dest'[d].nodes)
    PROVE  Unmoved(n)
<1>1. RelaysFromEntry(n)' = RelaysFromEntry(n) /\ RelaysToExit(n)' = RelaysToExit(n)
  BY DEF RelaysFromEntry, RelaysToExit
<1>2. \A r : allowedOn(r)' = allowedOn(r)
  BY DEF allowedOn
<1>3. EgressRulesLandingOn(n)' = EgressRulesLandingOn(n) /\ FleetRules(n)' = FleetRules(n)
  BY DEF EgressRulesLandingOn, FleetRules
<1>4. ASSUME NEW d \in Dests
      PROVE  LET E == {n} \cup exitOf(n) IN
             \/ dest'[d] = dest[d]
             \/ dest'[d].nodes \cap E = {} /\ dest[d].nodes \cap E = {}
  BY NotReached
<1> QED  BY <1>1, <1>2, <1>3, <1>4 DEF Unmoved

LEMMA LinesEditedAlone ==
    ASSUME LinesHeld, LinesHeld', NEW q \in Calls, Lonely(q), NEW s, LinesEdited(q, s)
    PROVE  Lonely(q)'
<1>0. /\ UNCHANGED <<hosts, rule, order, dest, routes>> /\ call[q].op = "idle"
      /\ s \in Seq(Hosts) /\ Proceeds(q, Rest(s))
  BY QuietParts DEF LinesEdited
<1>1. Fresh(call[q])' /\ \A n : Pends(call[q], n)' <=> n \in ToSet(s)
  BY <1>0, RestPends DEF LinesHeld
<1> SUFFICES ASSUME NEW n \in hosts', n \notin ToSet(s) PROVE Carries(n)'
  BY <1>1 DEF Lonely
<1>2. n \in Hosts /\ Carries(n)
  BY <1>0, QuietPends DEF Lonely, LinesHeld, LinesOwned
<1>3. ASSUME NEW r \in lineOn' \ lineOn PROVE r[1] # n /\ r[2] # n
  <2>1. r \in Relays
    BY DEF LinesHeld, LinesOwned
  <2>2. s = PairOf(r)
    BY DEF LinesEdited, PairOf
  <2> QED  BY <2>1, <2>2, PairHeld
<1>4. ASSUME NEW r \in lineOn \ lineOn' PROVE r[1] # n /\ r[2] # n
  BY <1>4 DEF LinesEdited
<1>5. RelaysFromEntry(n)' = RelaysFromEntry(n) /\ RelaysToExit(n)' = RelaysToExit(n)
  BY <1>3, <1>4 DEF RelaysFromEntry, RelaysToExit
<1>6. \A r \in RelaysFromEntry(n) : allowedOn(r)' = allowedOn(r)
  BY <1>5 DEF LinesEdited, RelaysFromEntry
<1>7. EgressRulesLandingOn(n)' = EgressRulesLandingOn(n) /\ FleetRules(n)' = FleetRules(n)
  BY <1>0 DEF EgressRulesLandingOn, FleetRules
<1>8. Unmoved(n)
  BY <1>0, <1>5, <1>6, <1>7 DEF Unmoved
<1> QED  BY <1>2, <1>8, UnmovedCarries

LEMMA RulesEditedAlone ==
    ASSUME LinesHeld, LinesHeld', NEW q \in Calls, Lonely(q), NEW s, RulesEdited(q, s)
    PROVE  Lonely(q)'
<1>0. /\ UNCHANGED <<hosts, relays, lineOn, refused, dest, routes>>
      /\ s \in Seq(Hosts) /\ Proceeds(q, Rest(s))
      /\ call[q] = Quiet \/ call[q].op = "retarget"
  BY DEF RulesEdited
<1>1. Fresh(call[q])' /\ \A n : Pends(call[q], n)' <=> n \in ToSet(s)
  BY <1>0, RestPends DEF LinesHeld
<1> SUFFICES ASSUME NEW n \in hosts', n \notin ToSet(s) PROVE Carries(n)'
  BY <1>1 DEF Lonely
<1>2. n \in hosts /\ n \in Hosts
  BY <1>0 DEF LinesHeld, LinesOwned
<1>3. ASSUME NEW e \in Rules, rule'[e] # rule[e] \/ (call[q].op = "retarget" /\ call[q].id = e)
      PROVE  n \notin {rule[e].on, rule'[e].on, rule'[e].to, rule[e].to}
  <2>1. /\ {rule[e].on, rule'[e].on, rule'[e].to} \cap Hosts \subseteq ToSet(s)
        /\ call[q] = Quiet \/ rule[e].to = call[q].prev => {rule[e].to} \cap Hosts \subseteq ToSet(s)
        /\ call[q] = Quiet \/ call[q].id = e
    BY <1>3 DEF RulesEdited
  <2>2. CASE call[q] = Quiet \/ rule[e].to = call[q].prev
    BY <1>2, <2>1, <2>2
  <2>3. CASE ~ (call[q] = Quiet \/ rule[e].to = call[q].prev)
    <3>1. rule[e] = NoRule
      BY <1>0, <2>1, <2>3 DEF Lonely, Fresh
    <3> QED  BY <1>2, <2>1, <3>1, NoHostApart
  <2> QED  BY <2>2, <2>3
<1>4. Carries(n)
  <2>1. CASE call[q] = Quiet
    BY <1>2, <2>1, QuietParts, QuietPends DEF Lonely
  <2>2. CASE call[q].op = "retarget"
    <3>1. ~ Lists(call[q], n) /\ \A d : ~ Scopes(call[q], d)
      BY <2>2 DEF Lists, Scopes
    <3>2. \A e \in Rules : Edits(call[q], e) => n \notin {rule[e].on, rule[e].to}
      BY <1>3 DEF Edits
    <3>3. ~ Pends(call[q], n)
      BY <3>1, <3>2 DEF Pends
    <3> QED  BY <1>2, <3>3 DEF Lonely
  <2> QED  BY <1>0, <2>1, <2>2
<1>5. \A e \in Rules : rule'[e] = rule[e] \/ n \notin {rule[e].on, rule'[e].on, rule'[e].to, rule[e].to}
  BY <1>3
<1>6. RelaysFromEntry(n)' = RelaysFromEntry(n) /\ RelaysToExit(n)' = RelaysToExit(n)
  BY <1>0 DEF RelaysFromEntry, RelaysToExit
<1>7. \A r : allowedOn(r)' = allowedOn(r)
  BY <1>0 DEF allowedOn
<1>8. EgressRulesLandingOn(n)' = EgressRulesLandingOn(n)
  BY <1>5 DEF EgressRulesLandingOn
<1>9. FleetRules(n)' = FleetRules(n) /\ \A e \in FleetRules(n) : rule'[e].to = rule[e].to
  BY <1>5 DEF FleetRules
<1>10. Keep(order', FleetRules(n)) = Keep(order, FleetRules(n))
  <2>1. FleetRules(n) \in SUBSET EgressRulesOn(n)
    BY DEF FleetRules, EgressRulesOn
  <2> QED  BY <1>2, <2>1 DEF RulesEdited
<1>11. Unmoved(n)
  BY <1>0, <1>6, <1>7, <1>8, <1>9, <1>10 DEF Unmoved
<1> QED  BY <1>2, <1>4, <1>11, UnmovedCarries

LEMMA RuleSwitchedAlone ==
    ASSUME LinesHeld, LinesHeld', NEW q \in Calls, Lonely(q), NEW e, RuleSwitched(q, e)
    PROVE  Lonely(q)'
<1>0. /\ UNCHANGED <<hosts, relays, lineOn, refused, order, dest, routes>> /\ call[q].op = "idle"
      /\ e \in Rules /\ rule'[e].on = rule[e].on /\ rule'[e].to = rule[e].to
      /\ \A f \in Rules : f # e => rule'[f] = rule[f]
  BY QuietParts DEF RuleSwitched
<1>1. PICK c : Proceeds(q, c) /\ c.op = "retarget" /\ c.id = e /\ c.prev = rule[e].to
  BY DEF RuleSwitched
<1>2. call'[q] = c
  BY <1>1, OneProceeds DEF LinesHeld
<1>3. Fresh(call[q])'
  BY <1>0, <1>1, <1>2 DEF Fresh
<1> SUFFICES ASSUME NEW n \in hosts', ~ Pends(call[q], n)' PROVE Carries(n)'
  BY <1>3 DEF Lonely
<1>4. n \in Hosts /\ n \notin Exits /\ Carries(n)
  BY <1>0, QuietPends, LinesAssumption DEF Lonely, LinesHeld, LinesOwned
<1>5. rule[e].to \in Exits \/ n \notin {rule[e].on, rule[e].to}
  <2>1. Edits(call[q], e)'
    BY <1>1, <1>2 DEF Edits
  <2> QED  BY <1>0, <2>1 DEF Pends
<1>6. RelaysFromEntry(n)' = RelaysFromEntry(n) /\ RelaysToExit(n)' = RelaysToExit(n)
  BY <1>0 DEF RelaysFromEntry, RelaysToExit
<1>7. \A r : allowedOn(r)' = allowedOn(r)
  BY <1>0 DEF allowedOn
<1>8. EgressRulesLandingOn(n)' = EgressRulesLandingOn(n)
  BY <1>0, <1>4, <1>5 DEF EgressRulesLandingOn
<1>9. FleetRules(n)' = FleetRules(n) /\ \A f \in FleetRules(n) : rule'[f].to = rule[f].to
  BY <1>0, <1>5, LinesAssumption DEF FleetRules
<1>10. Unmoved(n)
  BY <1>0, <1>6, <1>7, <1>8, <1>9 DEF Unmoved
<1> QED  BY <1>4, <1>10, UnmovedCarries

\* What is read of the lines and rules stays, where they do.
LEMMA SameReads ==
    ASSUME UNCHANGED <<relays, lineOn, rule>>
    PROVE  /\ \A d : RestrictedNodeIDs(d)' = Carrying(dest'[d].nodes)
           /\ \A n : peerNodesOf(n)' = peerNodesOf(n)
BY DEF RestrictedNodeIDs, Carrying, peerNodesOf, EgressRulesOn, EgressRulesLandingOn

LEMMA DestOpenedAlone ==
    ASSUME LinesHeld, LinesHeld', NEW q \in Calls, Lonely(q), DestOpened
    PROVE  Lonely(q)'
<1>0. /\ UNCHANGED <<hosts, relays, lineOn, refused, rule, order, routes, call>>
      /\ \A d \in Dests : dest'[d] = dest[d] \/ (dest[d].nodes = {} /\ dest'[d].nodes = {})
  BY DEF DestOpened
<1>1. \A d \in Dests : RestrictedNodeIDs(d)' = RestrictedNodeIDs(d)
  <2>1. \A d \in Dests : Carrying(dest'[d].nodes) = Carrying(dest[d].nodes)
    BY <1>0
  <2> QED  BY <1>0, <2>1, SameReads, RestrictedCarry
<1>2. PICK c : c = call[q] /\ c = call'[q] /\ CallHeld(c)
  BY <1>0 DEF LinesHeld, CallsHeld
<1>3. Fresh(call[q])'
  BY <1>0, <1>1, <1>2, SameReads DEF Lonely, Fresh, CallHeld
<1>4. ASSUME NEW n, Pends(call[q], n) PROVE Pends(call[q], n)'
  BY <1>0, <1>1, <1>4 DEF Pends, Lists, Edits, Scopes
<1> SUFFICES ASSUME NEW n \in hosts', Carries(n) PROVE Carries(n)'
  BY <1>0, <1>3, <1>4 DEF Lonely
<1>5. n \in Hosts
  BY <1>0 DEF LinesHeld, LinesOwned
<1>6. Unmoved(n)
  BY <1>0, NothingCarried, ScopesMove
<1> QED  BY <1>5, <1>6, UnmovedCarries

LEMMA DestEditedAlone ==
    ASSUME LinesHeld, LinesHeld', NEW q \in Calls, Lonely(q), NEW d, NEW s, DestEdited(q, d, s)
    PROVE  Lonely(q)'
<1>0. /\ UNCHANGED <<hosts, relays, lineOn, refused, rule, order, routes>>
      /\ s \in Seq(Hosts) /\ Proceeds(q, Rest(s)) /\ call[q].op \in {"idle", "deletedest"}
      /\ \A c \in Dests : c # d => dest'[c] = dest[c]
      /\ Carrying(dest'[d].nodes) \subseteq ToSet(s)
  BY QuietParts DEF DestEdited
<1>1. Fresh(call[q])' /\ \A n : Pends(call[q], n)' <=> n \in ToSet(s)
  BY <1>0, RestPends DEF LinesHeld
<1> SUFFICES ASSUME NEW n \in hosts', n \notin ToSet(s) PROVE Carries(n)'
  BY <1>1 DEF Lonely
<1>2. n \in Hosts /\ Carries(n)
  BY <1>0, QuietPends DEF Lonely, LinesHeld, LinesOwned
<1>3. Carrying(dest[d].nodes) \subseteq ToSet(s)
  BY RestrictedCarry DEF DestEdited, Lonely, Fresh
<1>4. Unmoved(n)
  BY <1>0, <1>3, ScopesMove
<1> QED  BY <1>2, <1>4, UnmovedCarries

LEMMA DestScopedAlone ==
    ASSUME LinesHeld, LinesHeld', NEW q \in Calls, Lonely(q), NEW d, DestScoped(q, d)
    PROVE  Lonely(q)'
<1>0. /\ UNCHANGED <<hosts, relays, lineOn, refused, rule, order, routes>>
      /\ call[q].op = "setnodes" /\ call[q].id = d /\ d \in Dests
      /\ \A c \in Dests : c # d => dest'[c] = dest[c]
  BY DEF DestScoped
<1>1. PICK c : Proceeds(q, c) /\ c.op = "afternodes" /\ c.id = d /\ c.read = call[q].read
  BY DEF DestScoped
<1>2. call'[q] = c
  BY <1>1, OneProceeds DEF LinesHeld
<1>3. Fresh(call[q])'
  BY <1>1, <1>2 DEF Fresh
<1> SUFFICES ASSUME NEW n \in hosts', ~ Pends(call[q], n)' PROVE Carries(n)'
  BY <1>3 DEF Lonely
<1>4. n \in Hosts /\ Carries(n)
  BY <1>0, QuietPends DEF Lonely, LinesHeld, LinesOwned
<1>5. n \notin c.read /\ n \notin RestrictedNodeIDs(d)'
  <2>1. Scopes(call[q], d)'
    BY <1>1, <1>2 DEF Scopes
  <2> QED  BY <1>0, <1>2, <2>1 DEF Pends
<1>6. n \notin Carrying(dest[d].nodes)
  BY <1>0, <1>1, <1>5, RestrictedCarry DEF Lonely, Fresh
<1>7. n \notin Carrying(dest'[d].nodes)
  BY <1>0, <1>5, SameReads
<1>8. Unmoved(n)
  BY <1>0, <1>6, <1>7, ScopesMove
<1> QED  BY <1>4, <1>8, UnmovedCarries

LEMMA ScopeReadAlone ==
    ASSUME LinesHeld, LinesHeld', NEW q \in Calls, Lonely(q), NEW d, NEW s, ScopeRead(q, d, s)
    PROVE  Lonely(q)'
<1>0. /\ UNCHANGED <<hosts, relays, lineOn, refused, rule, order, dest, routes>>
      /\ s \in Seq(Hosts) /\ Proceeds(q, Rest(s)) /\ ToSet(s) = call[q].read \cup RestrictedNodeIDs(d)
      /\ call[q].op = "afternodes" /\ call[q].id = d
  BY DEF ScopeRead, ltables
<1>1. Fresh(call[q])' /\ \A n : Pends(call[q], n)' <=> n \in ToSet(s)
  BY <1>0, RestPends DEF LinesHeld
<1> SUFFICES ASSUME NEW n \in hosts', n \notin ToSet(s) PROVE Carries(n)'
  BY <1>1 DEF Lonely
<1>2. ~ Pends(call[q], n)
  BY <1>0 DEF Pends, Lists, Edits, Scopes
<1>3. n \in Hosts /\ Carries(n)
  BY <1>0, <1>2 DEF Lonely, LinesHeld, LinesOwned
<1>4. Unmoved(n)
  BY <1>0, ScopesMove
<1> QED  BY <1>3, <1>4, UnmovedCarries

LEMMA OnlyReadsAlone ==
    ASSUME LinesHeld, LinesHeld', NEW q \in Calls, Lonely(q), NEW c, OnlyReads(q, c)
    PROVE  Lonely(q)'
<1>0. /\ UNCHANGED <<hosts, relays, lineOn, refused, rule, order, dest, routes>> /\ Proceeds(q, c)
      /\ call[q].op \in {"idle", "setnodes"}
  BY QuietParts DEF OnlyReads, ltables
<1>1. call'[q] = c
  BY <1>0, OneProceeds DEF LinesHeld
<1>2. \A d : RestrictedNodeIDs(d)' = RestrictedNodeIDs(d)
  BY <1>0, SameReads, RestrictedCarry
<1>3. Fresh(call[q])'
  BY <1>0, <1>1, <1>2, SameReads, QuietParts DEF OnlyReads, Fresh
<1> SUFFICES ASSUME NEW n \in hosts' PROVE Carries(n)'
  BY <1>3 DEF Lonely
<1>4. n \in Hosts /\ Carries(n)
  BY <1>0, QuietPends DEF Lonely, LinesHeld, LinesOwned
<1>5. Unmoved(n)
  BY <1>0, ScopesMove
<1> QED  BY <1>4, <1>5, UnmovedCarries

LEMMA ReassembledAlone ==
    ASSUME LinesHeld, LinesHeld', NEW q \in Calls, Lonely(q), NEW m, NEW s, Reassembled(q, m, s)
    PROVE  Lonely(q)'
<1>0. /\ UNCHANGED <<hosts, relays, lineOn, refused, rule, order, dest>> /\ UNCHANGED ltables
      /\ s \in Seq(Hosts) /\ Proceeds(q, Rest(s)) /\ ToSet(call[q].todo) = {m} \cup ToSet(s)
      /\ call[q].op = "apply"
  BY DEF Reassembled, ltables
<1>1. Fresh(call[q])' /\ \A n : Pends(call[q], n)' <=> n \in ToSet(s)
  BY <1>0, RestPends DEF LinesHeld
<1> SUFFICES ASSUME NEW n \in hosts', n \notin ToSet(s) PROVE Carries(n)'
  BY <1>1 DEF Lonely
<1>2. n \in hosts /\ n \in Hosts
  BY <1>0 DEF LinesHeld, LinesOwned
<1>3. CASE n = m
  <2>1. routes'[n] = AssembleNode(n)
    BY <1>2, <1>3 DEF Reassembled
  <2> QED  BY <1>0, <1>2, <2>1, AssembledCarries
<1>4. CASE n # m
  <2>1. ~ Pends(call[q], n)
    BY <1>0, <1>4 DEF Pends, Lists, Edits, Scopes
  <2>2. Carries(n) /\ routes'[n] = routes[n]
    BY <1>2, <1>4, <2>1 DEF Lonely, Reassembled
  <2>3. Unmoved(n)
    BY <1>0, <2>2, ScopesMove
  <2> QED  BY <1>2, <2>2, <2>3, UnmovedCarries
<1> QED  BY <1>3, <1>4

LEMMA NodeDroppedAlone ==
    ASSUME LinesHeld, LinesHeld', NEW q \in Calls, Lonely(q), NEW m, NEW s, NodeDropped(q, m, s)
    PROVE  Lonely(q)'
<1>0. /\ s \in Seq(Hosts) /\ Proceeds(q, Rest(s)) /\ call[q].op = "deletenode" /\ call[q].id = m
      /\ hosts' = hosts \ {m} /\ (m \in hosts => ToSet(s) = call[q].read)
      /\ lineOn' = {r \in lineOn : m \notin {r[1], r[2]}}
      /\ \A e \in Rules : rule'[e] = IF m \in {rule[e].on, rule[e].to} THEN NoRule ELSE rule[e]
  BY DEF NodeDropped
<1>1. Fresh(call[q])' /\ \A n : Pends(call[q], n)' <=> n \in ToSet(s)
  BY <1>0, RestPends DEF LinesHeld
<1> SUFFICES ASSUME NEW n \in hosts', n \notin ToSet(s) PROVE Carries(n)'
  BY <1>1 DEF Lonely
<1>2. n \in hosts /\ n \in Hosts \ {m} /\ Carries(n)
  BY <1>0, QuietPends DEF Lonely, LinesHeld, LinesOwned
<1>3. /\ \A r \in lineOn : r[1] = n => r[2] # m
      /\ \A r \in lineOn : r[2] = n => r[1] # m
      /\ \A e \in Rules : rule[e].on = m => rule[e].to # n
      /\ \A e \in Rules : rule[e].enabled /\ rule[e].to = m => rule[e].on # n
  <2>1. CASE m \in hosts
    <3>1. n \notin peerNodesOf(m)
      BY <1>0, <2>1 DEF Lonely, Fresh
    <3>2. lineOn \subseteq relays
      BY DEF LinesHeld, LinesOwned
    <3> QED  BY <1>2, <3>1, <3>2 DEF peerNodesOf, EgressRulesOn, EgressRulesLandingOn
  <2>2. CASE m \notin hosts
    <3>1. \A r \in lineOn : r[1] \in hosts /\ r[2] \in hosts
      BY DEF LinesHeld, LinesOwned
    <3>2. ASSUME NEW e \in Rules PROVE rule[e] = NoRule \/ (rule[e].on \in hosts /\ rule[e].to \in hosts \cup Exits \cup {NoHost})
      BY DEF LinesHeld, RulesOwnedBy, RuleOwned
    <3>3. m \in Hosts
      BY DEF NodeDropped
    <3>4. \A e \in Rules : rule[e].on # m /\ rule[e].to # m
      BY <2>2, <3>2, <3>3, NoHostApart, LinesAssumption
    <3> QED  BY <2>2, <3>1, <3>4
  <2> QED  BY <2>1, <2>2
<1>4. RelaysFromEntry(n)' = RelaysFromEntry(n) /\ RelaysToExit(n)' = RelaysToExit(n)
  BY <1>0, <1>2, <1>3 DEF RelaysFromEntry, RelaysToExit
<1>5. \A r \in RelaysFromEntry(n) : allowedOn(r)' = allowedOn(r)
  BY <1>4 DEF NodeDropped, RelaysFromEntry
<1>6. \A e \in Rules : rule'[e] = rule[e] \/ (m \in {rule[e].on, rule[e].to} /\ rule'[e] = NoRule)
  BY <1>0
<1>7. NoRule.enabled = FALSE
  BY DEF NoRule
<1>8. EgressRulesLandingOn(n)' = EgressRulesLandingOn(n)
  BY <1>2, <1>3, <1>6, <1>7 DEF EgressRulesLandingOn
<1>9. FleetRules(n)' = FleetRules(n) /\ \A e \in FleetRules(n) : rule'[e].to = rule[e].to
  BY <1>2, <1>3, <1>6, <1>7 DEF FleetRules
<1>10. Keep(order', FleetRules(n)) = Keep(order, FleetRules(n))
  <2>1. FleetRules(n) \in SUBSET {e \in Rules : m \notin {rule[e].on, rule[e].to}}
    BY <1>2, <1>3 DEF FleetRules
  <2> QED  BY <2>1 DEF NodeDropped
<1>11. m \notin {n} \cup exitOf(n)
  BY <1>2, <1>3 DEF exitOf, RelaysFromEntry, EgressRulesOn
<1>12. ASSUME NEW d \in Dests
       PROVE  LET E == {n} \cup exitOf(n) IN
              /\ dest'[d].nodes \cap E = dest[d].nodes \cap E
              /\ dest'[d].users = dest[d].users /\ dest'[d].rev = dest[d].rev
  BY <1>11 DEF NodeDropped
<1>13. routes'[n] = routes[n]
  BY <1>2 DEF NodeDropped
<1>14. Unmoved(n)
  BY <1>4, <1>5, <1>8, <1>9, <1>10, <1>12, <1>13 DEF Unmoved
<1> QED  BY <1>2, <1>14, UnmovedCarries

LEMMA ExitsEditedAlone ==
    ASSUME LinesHeld, LinesHeld', ExitsEdited
    PROVE  /\ \A q \in Calls : Fresh(call[q]) => Fresh(call[q])'
           /\ \A q \in Calls : \A n : Pends(call[q], n) => Pends(call[q], n)'
           /\ \A n \in hosts : Carries(n) => Carries(n)'
<1>0. /\ UNCHANGED <<hosts, relays, lineOn, dest, routes, call>>
      /\ \A e \in Rules : rule'[e] = rule[e] \/ (rule[e].to \in Exits /\ rule'[e] = NoRule)
  BY DEF ExitsEdited
<1>1. \A e \in Rules : rule[e].to \in Hosts \cup {NoHost} => rule'[e] = rule[e]
  BY <1>0, LinesAssumption
<1>2. NoRule.enabled = FALSE /\ NoRule.on = NoHost /\ NoRule.to = NoHost
  BY DEF NoRule
<1>3. ASSUME NEW d \in Dests PROVE RestrictedNodeIDs(d)' = RestrictedNodeIDs(d)
  <2>1. dest[d].nodes \subseteq Hosts
    BY DEF LinesHeld, LinesOwned, DestsOwned, DestOwned
  <2>2. \A e \in Rules : (rule'[e].enabled /\ rule'[e].to \in dest[d].nodes)
                         <=> (rule[e].enabled /\ rule[e].to \in dest[d].nodes)
    BY <1>0, <1>1, <1>2, <2>1
  <2>3. \A e \in Rules : rule[e].to \in dest[d].nodes => rule'[e] = rule[e]
    BY <1>1, <2>1
  <2> QED  BY <1>0, <2>2, <2>3 DEF RestrictedNodeIDs
<1>4. ASSUME NEW n \in Hosts PROVE peerNodesOf(n)' \subseteq peerNodesOf(n)
  <2>1. \A e \in Rules : n \in {rule'[e].on, rule'[e].to} => rule'[e] = rule[e]
    BY <1>0, <1>2, LinesAssumption
  <2> QED  BY <1>0, <2>1 DEF peerNodesOf, EgressRulesOn, EgressRulesLandingOn
<1>5. ASSUME NEW q \in Calls, Fresh(call[q]) PROVE Fresh(call[q])'
  <2>1. PICK c : c = call[q] /\ c = call'[q] /\ CallHeld(c)
    BY <1>0 DEF LinesHeld, CallsHeld
  <2>2. c.op \in {"deletedest", "setnodes"} => RestrictedNodeIDs(c.id)' \subseteq c.read
    BY <1>3, <1>5, <2>1 DEF Fresh, CallHeld
  <2>3. c.op = "deletenode" => peerNodesOf(c.id)' \subseteq c.read
    BY <1>4, <1>5, <2>1 DEF Fresh, CallHeld
  <2>4. c.op = "retarget" => rule'[c.id] = NoRule \/ rule'[c.id].to = c.prev
    BY <1>0, <1>5, <2>1 DEF Fresh, CallHeld
  <2> QED  BY <2>1, <2>2, <2>3, <2>4 DEF Fresh
<1>6. ASSUME NEW q \in Calls, NEW n, Pends(call[q], n) PROVE Pends(call[q], n)'
  <2>1. call'[q] = call[q]
    BY <1>0
  <2>2. \A e \in Rules : rule[e].to \notin Exits => rule'[e] = rule[e]
    BY <1>0
  <2> QED  BY <1>3, <1>6, <2>1, <2>2 DEF Pends, Lists, Edits, Scopes
<1>7. ASSUME NEW n \in hosts, Carries(n) PROVE Carries(n)'
  <2>1. n \in Hosts
    BY DEF LinesHeld, LinesOwned
  <2>2. RelaysFromEntry(n)' = RelaysFromEntry(n) /\ RelaysToExit(n)' = RelaysToExit(n)
    BY <1>0 DEF RelaysFromEntry, RelaysToExit
  <2>3. \A r \in RelaysFromEntry(n) : allowedOn(r)' = allowedOn(r)
    BY DEF ExitsEdited, RelaysFromEntry, LinesHeld, LinesOwned
  <2>4. EgressRulesLandingOn(n)' = EgressRulesLandingOn(n)
    BY <1>0, <1>1, <1>2, <2>1 DEF EgressRulesLandingOn
  <2>5. FleetRules(n)' = FleetRules(n) /\ \A e \in FleetRules(n) : rule'[e].to = rule[e].to
    BY <1>0, <1>1, <1>2 DEF FleetRules
  <2>6. Keep(order', FleetRules(n)) = Keep(order, FleetRules(n))
    <3>1. FleetRules(n) \in SUBSET {e \in Rules : rule[e].to \notin Exits}
      BY LinesAssumption DEF FleetRules
    <3> QED  BY <3>1 DEF ExitsEdited
  <2>7. Unmoved(n)
    BY <1>0, <2>2, <2>3, <2>4, <2>5, <2>6 DEF Unmoved
  <2> QED  BY <1>7, <2>1, <2>7, UnmovedCarries
<1> QED  BY <1>5, <1>6, <1>7

LEMMA AloneStep ==
    ASSUME LinesHeld, LinesHeld', NEW q \in Calls, Lonely(q), HandlerEdits(q)
    PROVE  Lonely(q)'
BY LinesEditedAlone, RulesEditedAlone, RuleSwitchedAlone, DestOpenedAlone, DestEditedAlone,
   DestScopedAlone, ScopeReadAlone, OnlyReadsAlone, NodeDroppedAlone, ReassembledAlone
   DEF HandlerEdits

\* One handler moves at a time.
LEMMA OthersWait ==
    ASSUME LinesHeld, NEW q \in Calls, HandlerEdits(q)
    PROVE  \A p \in Calls \ {q} : call'[p] = call[p]
<1>1. UNCHANGED call \/ \E c : Proceeds(q, c)
  BY DEF HandlerEdits, LinesEdited, RulesEdited, RuleSwitched, DestOpened, DestEdited, DestScoped,
         ScopeRead, OnlyReads, NodeDropped, Reassembled
<1> QED  BY <1>1, OneProceeds DEF LinesHeld

\* Nothing of a handler that overlaps no other is lost on it.
LEMMA StillAlone ==
    ASSUME OneAtATime, NEW q \in Calls, Crossing(q), ~ crossed'
    PROVE  ~ crossed /\ Alone(q) /\ Lonely(q)
<1>1. ~ crossed /\ Alone(q)
  BY DEF Crossing, Alone
<1>2. \A p \in Calls \ {q} : \A n : ~ Pends(call[p], n)
  BY <1>1, QuietPends, QuietParts DEF Alone
<1>3. Lonely(q)
  BY <1>1, <1>2 DEF OneAtATime, Lonely
<1> QED  BY <1>1, <1>3

LEMMA OneAtATimeStep ==
    ASSUME LinesHeld, LinesHeld', OneAtATime, NEW q \in Calls, HandlerEdits(q), Crossing(q)
    PROVE  OneAtATime'
<1> SUFFICES ASSUME ~ crossed'
             PROVE  /\ \A p, b \in Calls : p = b \/ call'[p] = Quiet \/ call'[b] = Quiet
                    /\ \A p \in Calls : Fresh(call[p])'
                    /\ \A n \in hosts' : Carries(n)' \/ \E p \in Calls : Pends(call[p], n)'
  BY DEF OneAtATime
<1>1. Alone(q) /\ Lonely(q)
  BY StillAlone
<1>2. Lonely(q)'
  BY <1>1, AloneStep
<1>3. \A p \in Calls \ {q} : call'[p] = Quiet
  BY <1>1, OthersWait DEF Alone
<1>4. ASSUME NEW p \in Calls \ {q} PROVE Fresh(call[p])'
  <2>1. call'[p].op = "idle"
    BY <1>3, QuietParts
  <2> QED  BY <2>1 DEF Fresh
<1> QED  BY <1>2, <1>3, <1>4 DEF Lonely

LEMMA OneAtATimeExits ==
    ASSUME LinesHeld, LinesHeld', OneAtATime, ExitsEdited, UNCHANGED crossed
    PROVE  OneAtATime'
<1>1. UNCHANGED <<hosts, call>>
  BY DEF ExitsEdited
<1>2. /\ \A q \in Calls : Fresh(call[q]) => Fresh(call[q])'
      /\ \A q \in Calls : \A n : Pends(call[q], n) => Pends(call[q], n)'
      /\ \A n \in hosts : Carries(n) => Carries(n)'
  BY ExitsEditedAlone
<1> QED  BY <1>1, <1>2 DEF OneAtATime

\* Handlers that stand still leave everything as it is.
LEMMA OneAtATimeStill ==
    ASSUME LinesHeld, LinesHeld', OneAtATime, UNCHANGED rvars
    PROVE  OneAtATime'
<1>1. UNCHANGED <<hosts, relays, lineOn, rule, order, dest, exit, refused, routes, call, crossed>>
  BY DEF rvars, ltables
<1>2. ExitsEdited
  <2>1. \A r : allowedOn(r)' = allowedOn(r)
    BY <1>1 DEF allowedOn
  <2> QED  BY <1>1, <2>1 DEF ExitsEdited
<1> QED  BY <1>1, <1>2, OneAtATimeExits

LEMMA OneAtATimeInit == ASSUME LinesInit PROVE OneAtATime
<1>1. \A q \in Calls : call[q] = Quiet /\ call[q].op = "idle"
  BY QuietParts DEF LinesInit
<1>2. \A q \in Calls : Fresh(call[q])
  BY <1>1 DEF Fresh
<1>3. ASSUME NEW n \in hosts PROVE Carries(n)
  <2>1. routes[n] = Blank /\ lineOn = {} /\ order = <<>>
    BY DEF LinesInit
  <2>2. \A e \in Rules : ~ rule[e].enabled
    BY DEF LinesInit, NoRule
  <2>3. \A d \in Dests : dest[d].nodes = {}
    BY DEF LinesInit, NoDest
  <2>4. Blank.lines = {} /\ Blank.landing = {} /\ Blank.egressIn = {} /\ Blank.blocks = {} /\ Blank.egress = <<>>
    BY DEF Blank
  <2>5. relayLines(n) = {} /\ RelaysToExit(n) = {} /\ EgressRulesLandingOn(n) = {}
    BY <2>1, <2>2 DEF relayLines, RelaysFromEntry, RelaysToExit, EgressRulesLandingOn
  <2>6. blocksFor(n) = {}
    BY <2>3 DEF blocksFor
  <2>7. FleetEgress(Blank.egress) = <<>> /\ LandingsOf(rule, Keep(order, FleetRules(n))) = <<>>
    BY <2>1, <2>4, KeepEmpty, LandingsEmpty DEF FleetEgress
  <2> QED  BY <2>1, <2>4, <2>5, <2>6, <2>7 DEF Carries
<1> QED  BY <1>1, <1>2, <1>3 DEF OneAtATime

-----------------------------------------------------------------------------
(* Lines: the exit before the entry *)

\* A handler about to apply the exit of r, then its entry.
Dialling(c, r) == c.op = "apply" /\ c.todo = PairOf(r)

\* While nobody overlaps, a line is accepted at its exit or carried by no entry, and then a
\* handler is about to apply its exit first.
ExitFirst ==
    ~ crossed => \A r \in lineOn :
        \/ r \in routes[r[2]].landing
        \/ /\ \E q \in Calls : Dialling(call[q], r)
           /\ \A n \in hosts : \A t \in routes[n].lines : t[2] # r

LEMMA NobodyDials ==
    ASSUME ExitFirst, ~ crossed, NEW q \in Calls, Alone(q), call[q].op # "apply"
    PROVE  \A r \in lineOn : r \in routes[r[2]].landing
<1>1. \A p \in Calls : call[p].op # "apply"
  BY QuietParts DEF Alone
<1> QED  BY <1>1 DEF ExitFirst, Dialling

LEMMA LineEnds == ASSUME LinesHeld, NEW r \in lineOn PROVE r \in Relays /\ r[2] \in hosts \cap Bound /\ r[2] \in Hosts
BY DEF LinesHeld, LinesOwned, Relays

LEMMA ExitFirstStep ==
    ASSUME LinesHeld, LinesHeld', OneAtATime, ExitFirst, NEW q \in Calls, HandlerEdits(q), Crossing(q)
    PROVE  ExitFirst'
<1> SUFFICES ASSUME ~ crossed', NEW r \in lineOn'
             PROVE  \/ r \in routes'[r[2]].landing
                    \/ /\ \E p \in Calls : Dialling(call'[p], r)
                       /\ \A n \in hosts' : \A t \in routes'[n].lines : t[2] # r
  BY DEF ExitFirst, Dialling
<1>1. ~ crossed /\ Alone(q) /\ Lonely(q)
  BY StillAlone
<1>2. ASSUME UNCHANGED <<lineOn, routes>>, call[q].op # "apply" PROVE r \in routes'[r[2]].landing
  BY <1>1, <1>2, NobodyDials
<1>3. ASSUME NEW s, LinesEdited(q, s)
      PROVE  \/ r \in routes'[r[2]].landing
             \/ /\ \E p \in Calls : Dialling(call'[p], r)
                /\ \A n \in hosts' : \A t \in routes'[n].lines : t[2] # r
  <2>1. UNCHANGED <<hosts, routes>> /\ call[q].op = "idle" /\ s \in Seq(Hosts) /\ Proceeds(q, Rest(s))
    BY <1>3, QuietParts DEF LinesEdited
  <2>2. CASE r \in lineOn
    BY <1>1, <2>1, <2>2, NobodyDials
  <2>3. CASE r \notin lineOn
    <3>1. s = PairOf(r) /\ r \in Relays
      BY <1>3, <2>3 DEF LinesEdited, PairOf, LinesHeld, LinesOwned
    <3>2. s # <<>>
      BY <3>1 DEF PairOf
    <3>3. call'[q] = Rest(s)
      BY <2>1, OneProceeds DEF LinesHeld
    <3>4. Dialling(call'[q], r)
      BY <2>1, <3>1, <3>2, <3>3, RestHeld DEF Dialling
    <3>5. ASSUME NEW n \in hosts', NEW t \in routes'[n].lines PROVE t[2] # r
      <4>1. Carries(n)
        BY <1>1, <2>1, QuietPends DEF Lonely
      <4>2. t \in relayLines(n)
        BY <2>1, <4>1 DEF Carries
      <4>3. t[2] \in lineOn
        BY <4>2 DEF relayLines, RelaysFromEntry
      <4> QED  BY <2>3, <4>3
    <3> QED  BY <3>4, <3>5
  <2> QED  BY <2>2, <2>3
<1>4. ASSUME NEW m, NEW s, NodeDropped(q, m, s) PROVE r \in routes'[r[2]].landing
  <2>1. r \in lineOn /\ r[2] # m /\ call[q].op # "apply"
    BY <1>4 DEF NodeDropped
  <2>2. routes'[r[2]] = routes[r[2]]
    BY <1>4, <2>1, LineEnds DEF NodeDropped
  <2> QED  BY <1>1, <2>1, <2>2, NobodyDials
<1>5. ASSUME NEW m, NEW s, Reassembled(q, m, s) PROVE r \in routes'[r[2]].landing
  <2>1. r \in lineOn /\ call[q].op = "apply" /\ m = Head(call[q].todo)
    BY <1>5 DEF Reassembled, ltables
  <2>2. r[2] \in Hosts /\ r[2] \in hosts \cap Bound
    BY <2>1, LineEnds
  <2>3. CASE r[2] = m
    <3>1. routes'[r[2]] = AssembleNode(r[2])
      BY <1>5, <2>2, <2>3 DEF Reassembled
    <3>2. AssembleNode(r[2]).landing = (IF r[2] \in Bound THEN RelaysToExit(r[2]) ELSE {})
      BY AssembleParts
    <3>3. r \in RelaysToExit(r[2])
      BY <2>1 DEF RelaysToExit
    <3> QED  BY <2>2, <3>1, <3>2, <3>3
  <2>4. CASE r[2] # m
    <3>1. routes'[r[2]] = routes[r[2]]
      BY <1>5, <2>2, <2>4 DEF Reassembled
    <3>2. ASSUME NEW p \in Calls, Dialling(call[p], r) PROVE FALSE
      <4>1. p = q
        BY <1>1, <3>2, QuietParts DEF Alone, Dialling
      <4>2. m = r[2]
        BY <2>1, <3>2, <4>1 DEF Dialling, PairOf
      <4> QED  BY <2>4, <4>2
    <3> QED  BY <1>1, <2>1, <3>1, <3>2 DEF ExitFirst
  <2> QED  BY <2>3, <2>4
<1>6. CASE DestOpened
  <2>1. UNCHANGED <<hosts, lineOn, routes, call>>
    BY <1>6 DEF DestOpened
  <2> QED  BY <1>1, <2>1 DEF ExitFirst
<1>7. ASSUME NEW s, RulesEdited(q, s) PROVE r \in routes'[r[2]].landing
  BY <1>2, <1>7, QuietParts DEF RulesEdited
<1>8. ASSUME NEW e, RuleSwitched(q, e) PROVE r \in routes'[r[2]].landing
  BY <1>2, <1>8, QuietParts DEF RuleSwitched
<1>9. ASSUME NEW d, NEW s, DestEdited(q, d, s) PROVE r \in routes'[r[2]].landing
  BY <1>2, <1>9, QuietParts DEF DestEdited
<1>10. ASSUME NEW d, DestScoped(q, d) PROVE r \in routes'[r[2]].landing
  BY <1>2, <1>10 DEF DestScoped
<1>11. ASSUME NEW d, NEW s, ScopeRead(q, d, s) PROVE r \in routes'[r[2]].landing
  BY <1>2, <1>11 DEF ScopeRead, ltables
<1>12. ASSUME NEW c, OnlyReads(q, c) PROVE r \in routes'[r[2]].landing
  BY <1>2, <1>12, QuietParts DEF OnlyReads, ltables
<1> QED
  BY <1>3, <1>4, <1>5, <1>6, <1>7, <1>8, <1>9, <1>10, <1>11, <1>12 DEF HandlerEdits

LEMMA ExitFirstStays ==
    ASSUME ExitFirst, UNCHANGED <<hosts, lineOn, routes, call, crossed>>
    PROVE  ExitFirst'
BY DEF ExitFirst, Dialling

LEMMA FirstSends == ASSUME ExitFirst PROVE ExitBeforeEntry
BY DEF ExitFirst, ExitBeforeEntry

LEMMA AloneCurrent == ASSUME LinesHeld, OneAtATime PROVE LinesCurrent
<1> SUFFICES ASSUME AllQuiet, ~ crossed, NEW n \in hosts
             PROVE  /\ routes[n].lines = AssembleNode(n).lines /\ routes[n].landing = AssembleNode(n).landing
                    /\ routes[n].egressIn = AssembleNode(n).egressIn /\ routes[n].blocks = AssembleNode(n).blocks
                    /\ FleetEgress(routes[n].egress) = FleetEgress(AssembleNode(n).egress)
  BY DEF LinesCurrent
<1>1. \A q \in Calls : ~ Pends(call[q], n)
  BY QuietPends, QuietParts DEF AllQuiet
<1>2. Carries(n)
  BY <1>1 DEF OneAtATime
<1>3. PICK c : /\ c = AssembleNode(n)
               /\ c.lines = (IF n \in Bound THEN relayLines(n) ELSE {})
               /\ c.landing = (IF n \in Bound THEN RelaysToExit(n) ELSE {})
               /\ c.egress = egressFor(n)
               /\ c.egressIn = (IF n \in Bound THEN EgressRulesLandingOn(n) ELSE {})
               /\ c.blocks = (IF n \in Bound THEN blocksFor(n) ELSE {})
  BY AssembleParts, Zenon
<1>4. FleetEgress(routes[n].egress) = FleetEgress(c.egress)
  BY <1>2, <1>3, FleetIs DEF Carries
<1>5. /\ routes[n].lines = c.lines /\ routes[n].landing = c.landing
      /\ routes[n].egressIn = c.egressIn /\ routes[n].blocks = c.blocks
  BY <1>2, <1>3, Zenon DEF Carries
<1> QED  BY <1>3, <1>4, <1>5

-----------------------------------------------------------------------------

\* What the handlers of relay lines, egress rules, restricted destinations and nodes keep true.
LinesInv == LinesHeld /\ AllServed /\ OneAtATime /\ ExitFirst

\* Rows belong to nodes there are and handlers hold what their code reads (LinesHeld); a node's
\* config has what the tables ask of it, or a handler of api/relay.go, egress.go, restricted.go
\* or deleteNode is going to re-assemble it (AllServed); while no two of them overlap nothing
\* read is stale and every config is exact but for the nodes the handler still lists
\* (OneAtATime), and no entry carries a line before its exit accepts it (ExitFirst).
THEOREM LinesInvariant == ASSUME Unrefused PROVE LinesSpec => []LinesInv
<1>1. ASSUME LinesInit PROVE LinesInv
  <2>1. ExitFirst
    BY <1>1 DEF LinesInit, ExitFirst
  <2> QED  BY <1>1, <2>1, LinesHeldInit, AllServedInit, OneAtATimeInit DEF LinesInv
<1>2. ASSUME LinesInv, [LinesNext]_rvars PROVE LinesInv'
  <2>0. LinesHeld /\ AllServed /\ OneAtATime /\ ExitFirst
    BY <1>2 DEF LinesInv
  <2>1. ASSUME NEW q \in Calls, Crossing(q),
               RelayStep(q) \/ AccessEdit(q) \/ EgressStep(q) \/ DestStep(q) \/ NodeStep(q)
        PROVE  LinesInv'
    <3>1. LinesHeld' /\ HandlerEdits(q)
      BY <2>0, <2>1, HandlerStepEdits
    <3> QED  BY <2>0, <2>1, <3>1, AllServedStep, OneAtATimeStep, ExitFirstStep DEF LinesInv
  <2>2. CASE ExitStep /\ UNCHANGED crossed
    <3>1. LinesHeld' /\ ExitsEdited
      BY <2>0, <2>2, ExitStepEdits
    <3>2. UNCHANGED <<hosts, lineOn, routes, call, crossed>>
      BY <2>2, <3>1 DEF ExitsEdited
    <3> QED  BY <2>0, <2>2, <3>1, <3>2, ExitsEditedServed, OneAtATimeExits, ExitFirstStays DEF LinesInv
  <2>3. CASE UNCHANGED rvars
    <3>1. UNCHANGED <<hosts, lineOn, routes, call, crossed>>
      BY <2>3 DEF rvars, ltables
    <3>2. LinesHeld' /\ AllServed'
      BY <2>0, <2>3, StandsStill
    <3> QED  BY <2>0, <2>3, <3>1, <3>2, OneAtATimeStill, ExitFirstStays DEF LinesInv
  <2> QED  BY <1>2, <2>1, <2>2, <2>3 DEF LinesNext
<1> QED  BY <1>1, <1>2, PTL DEF LinesSpec

\* The configs follow the tables: whatever relay lines, egress rules and restricted destinations
\* ask of a node is in its newest config once no handler is in flight, however the handlers of
\* api/relay.go, egress.go, restricted.go and deleteNode overlapped; and, as long as no two have,
\* nothing else is, in the operator's order, and applyRelayEnds leaves no entry dialling an exit
\* that does not accept it.  Edits of an egress rule that are refused half way are excluded.
THEOREM ConfigsFollowTables == ASSUME Unrefused PROVE LinesSpec => []LinesFollowTables
<1>1. LinesInv => LinesFollowTables
  BY ServedInstalls, AloneCurrent, FirstSends DEF LinesInv, LinesFollowTables
<1> QED  BY <1>1, LinesInvariant, PTL

\* blocksFor and RestrictedNodeIDs together: a subscriber a destination bars is stopped by the
\* config of every node that pushes traffic there, the nodes at the far end of a line or of an
\* egress rule being unable to tell who is asking, however the handlers overlapped.
THEOREM BarredBeforeItLeaves == ASSUME Unrefused PROVE LinesSpec => []BarredAtEntry
<1>1. LinesInv => BarredAtEntry
  BY ServedBars DEF LinesInv
<1> QED  BY <1>1, LinesInvariant, PTL

=============================================================================
