----------------------------- MODULE Entitlement -----------------------------
(* What the panel promises about a subscriber's access, whatever tables it keeps it   *)
(* in: nothing is held that nobody gave, a decision about one subscriber, group or     *)
(* object changes nothing else, and leaving a group takes nothing away.                *)
CONSTANTS Users, Groups, Objects, Profiles, NoGroup, NoRules

VARIABLES
    subscribers,    \* the subscribers there are
    may,        \* may[u]: the objects (nodes, lines, external nodes) u may use
    holds,      \* holds[u]: the access configurations u holds
    carries,    \* carries[u]: the rule set of u's subscription
    memberOf,   \* memberOf[u]: u's group
    offers,     \* offers[g]: the objects and access configurations g decides its members get
    known,      \* the objects there are
    edits       \* the editors being saved: <<u, the group it was compared with, refused objects>>

evars == <<subscribers, may, holds, carries, memberOf, offers, known, edits>>

EInit ==
    /\ subscribers = {}
    /\ may = [u \in Users |-> {}]
    /\ holds = [u \in Users |-> {}]
    /\ carries = [u \in Users |-> NoRules]
    /\ memberOf = [u \in Users |-> NoGroup]
    /\ offers = [g \in Groups |-> [objects |-> {}, profiles |-> {}]]
    /\ known = {}
    /\ edits = {}

Members(g) == {u \in Users : memberOf[u] = g}

\* f changes for nobody but the subscribers in S.
OnlyFor(S, f, g) == \A u \in Users \ S : f[u] = g[u]

\* A new subscriber has nothing; one who is deleted takes everything along.
Subscribe(u) ==
    /\ subscribers' = subscribers \cup {u}
    /\ UNCHANGED <<may, holds, carries, memberOf, offers, known, edits>>

Unsubscribe(u) ==
    /\ subscribers' = subscribers \ {u}
    /\ may' = [may EXCEPT ![u] = {}]
    /\ holds' = [holds EXCEPT ![u] = {}]
    /\ carries' = [carries EXCEPT ![u] = NoRules]
    /\ memberOf' = [memberOf EXCEPT ![u] = NoGroup]
    /\ UNCHANGED <<offers, known, edits>>

\* A new object is for nobody, and a deleted one for nobody any more.
Register(o) ==
    /\ known' \in {known \cup {o}, known \ {o}}
    /\ \A u \in Users : may'[u] = may[u] \ {o}
    /\ \A g \in Groups : /\ offers'[g].objects = offers[g].objects \ {o}
                         /\ offers'[g].profiles = offers[g].profiles
    /\ UNCHANGED <<subscribers, holds, carries, memberOf, edits>>

\* Members leave their group, which may be dissolved: they keep everything it decided.
Leave(g, S) ==
    /\ g # NoGroup /\ S \subseteq Members(g) /\ S # {}
    /\ memberOf' = [u \in Users |-> IF u \in S THEN NoGroup ELSE memberOf[u]]
    /\ UNCHANGED <<subscribers, may, carries, known, edits>>
    /\ \A u \in S : holds[u] \subseteq holds'[u]
    /\ OnlyFor(S, holds, holds')
    /\ offers'[g] \in {offers[g], [objects |-> {}, profiles |-> {}]}
    /\ \A h \in Groups \ {g} : offers'[h] = offers[h]

\* A subscriber joins a group: it decides everything, and what they had is gone.
Join(u, g) ==
    /\ g # NoGroup
    /\ memberOf' = [memberOf EXCEPT ![u] = g]
    /\ may' = [may EXCEPT ![u] = offers[g].objects]
    /\ holds' = [holds EXCEPT ![u] = offers[g].profiles]
    /\ OnlyFor({u}, carries, carries')
    /\ UNCHANGED <<subscribers, offers, known, edits>>

\* A decision about one group reaches its members only.
DecideGroup(g) ==
    /\ \A h \in Groups \ {g} : offers'[h] = offers[h]
    /\ OnlyFor(Members(g), may, may')
    /\ OnlyFor(Members(g), holds, holds')
    /\ OnlyFor(Members(g), carries, carries')
    /\ UNCHANGED <<subscribers, memberOf, known, edits>>

\* A rule set is deleted: only the subscriptions that carried it change.
DropRules(r) ==
    /\ OnlyFor({u \in Users : carries[u] = r}, carries, carries')
    /\ UNCHANGED <<subscribers, may, holds, memberOf, offers, known, edits>>

\* A decision about one subscriber's access configurations or rules.
DecideUser(u) ==
    /\ OnlyFor({u}, holds, holds') /\ OnlyFor({u}, carries, carries')
    /\ UNCHANGED <<subscribers, may, memberOf, offers, known, edits>>

\* Who may use one object is decided: afterwards exactly they may.
DecideObject(o, refused) ==
    /\ \A u \in Users : may'[u] = IF u \in refused THEN may[u] \ {o} ELSE may[u] \cup {o}
    /\ UNCHANGED <<subscribers, holds, carries, memberOf, offers, known, edits>>

\* An access editor is sent: nothing changes yet.
Edit == UNCHANGED <<subscribers, may, holds, carries, memberOf, offers, known>> /\ edits' # edits

\* It is stored: afterwards the subscriber may use exactly what the editor showed, if they
\* are still in the group it was compared with, and nobody else is touched.
Save(u, g, refused) ==
    /\ memberOf[u] = g => may'[u] = known \ refused
    /\ OnlyFor({u}, may, may')
    /\ UNCHANGED <<subscribers, holds, carries, memberOf, offers, known>>

ENext ==
    \/ Edit
    \/ \E g \in Groups : \/ DecideGroup(g)
                         \/ \E S \in SUBSET Users : Leave(g, S)
                         \/ \E u \in Users : Join(u, g)
    \/ \E u \in Users : \/ Subscribe(u) \/ Unsubscribe(u)
                        \/ DecideUser(u) \/ DropRules(carries[u])
    \/ \E e \in edits : Save(e[1], e[2], e[3])
    \/ \E o \in Objects : \/ Register(o)
                          \/ \E S \in SUBSET Users : DecideObject(o, S)

ESpec == EInit /\ [][ENext]_evars
=============================================================================
