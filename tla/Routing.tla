------------------------------ MODULE Routing ------------------------------
(***************************************************************************)
(* Rule sets (ruleset/service.go, ruleset/render.go, ruleset/routing.go,   *)
(* store/ruleset.go, api/ruleset.go): presets fetched from upstream with   *)
(* the lists they name, the lists cached and the unreferenced ones pruned  *)
(* by the timer; the groups, rule providers and rules a preset becomes in  *)
(* a subscription; the list a client is given for a provider's name.       *)
(* A preset is its rules in order, each with a group and maybe a list, and *)
(* its groups: what each names and which proxies its pattern takes.        *)
(***************************************************************************)
EXTENDS Integers, FiniteSets, Sequences

CONSTANTS
    Sets,       \* rule sets
    Presets,    \* .ini files upstream may serve: [rules, groups]
    Lists,      \* rule list URLs
    BaseOf,     \* list -> the file name its provider is named after
    NoList,     \* an inline rule
    Policies,   \* what Clash provides itself: DIRECT, REJECT
    Regions,    \* proxies a subscription may carry
    Handlers,   \* API requests that refresh a set
    Overlap,    \* whether they run while the timer does
    Absent,     \* no such set
    Missing     \* a set never fetched

\* The timer's goroutine is none of the requests; a preset lists its groups and its rules.
ASSUME RoutingAssumption ==
    /\ "timer" \notin Handlers
    /\ \A x \in Presets :
          /\ Len(x.order) \in Nat /\ DOMAIN x.order = 1..Len(x.order)
          /\ DOMAIN x.groups = {x.order[i] : i \in DOMAIN x.order}
          /\ Len(x.rules) \in Nat /\ DOMAIN x.rules = 1..Len(x.rules)

VARIABLES
    ini,        \* set -> Absent, Missing (never fetched) or the preset stored
    cached,     \* rule_lists
    job,        \* refresher -> where its Refresh is
    all,        \* the timer's RefreshAll
    document    \* the routing half of the subscription last rendered

tvars == <<ini, cached, job, all, document>>

Refreshers == Handlers \cup {"timer"}
NoJob == [step |-> "none"]
NoRound == [step |-> "none", at |-> Missing, todo |-> {}, keep |-> {}, stale |-> {}]

RoutingInit ==
    /\ ini = [s \in Sets |-> Absent] /\ cached = {}
    /\ job = [p \in Refreshers |-> NoJob] /\ all = NoRound
    /\ document = NoJob

Exists(s) == ini[s] # Absent
Stored(s) == Exists(s) /\ ini[s] # Missing

\* Config.ListURLs, in order; each once.
ListURLs(x) == {x.rules[i].list : i \in DOMAIN x.rules} \ {NoList}
Referenced == UNION {ListURLs(ini[s]) : s \in {t \in Sets : Stored(t)}}

-----------------------------------------------------------------------------
(* Refresh, under its mutex *)

Locked == \E p \in Refreshers : job[p].step \in {"ini", "lists"}

\* The set is loaded once the mutex is held; without it there is nothing to do.
Lock(p) ==
    /\ job[p].step = "lock" /\ ~ Locked
    /\ job' = [job EXCEPT ![p] = IF Exists(job[p].set) THEN [@ EXCEPT !.step = "ini"] ELSE NoJob]
    /\ UNCHANGED <<ini, cached, all, document>>

\* Unreachable, or not a preset: recorded, and the previous .ini keeps rendering.
IniFails(p) ==
    /\ job[p].step = "ini" /\ job' = [job EXCEPT ![p] = NoJob]
    /\ UNCHANGED <<ini, cached, all, document>>

SaveRulesetFetch(p, x) ==
    /\ job[p].step = "ini"
    /\ ini' = IF Exists(job[p].set) THEN [ini EXCEPT ![job[p].set] = x] ELSE ini
    /\ job' = [job EXCEPT ![p] = [step |-> "lists", set |-> job[p].set, left |-> ListURLs(x)]]
    /\ UNCHANGED <<cached, all, document>>

\* A list that fails keeps its previous copy, if there is one.
refreshList(p, u, ok) ==
    /\ job[p].step = "lists" /\ u \in job[p].left
    /\ cached' = IF ok THEN cached \cup {u} ELSE cached
    /\ job' = [job EXCEPT ![p].left = @ \ {u}]
    /\ UNCHANGED <<ini, all, document>>

RefreshEnds(p) ==
    /\ job[p].step = "lists" /\ job[p].left = {}
    /\ job' = [job EXCEPT ![p] = NoJob]
    /\ UNCHANGED <<ini, cached, all, document>>

-----------------------------------------------------------------------------
(* RefreshAll *)

RefreshAll ==
    /\ all = NoRound /\ job["timer"] = NoJob
    /\ Overlap \/ \A h \in Handlers : job[h] = NoJob
    /\ all' = [NoRound EXCEPT !.step = "next", !.todo = {s \in Sets : Exists(s)}]
    /\ UNCHANGED <<ini, cached, job, document>>

NextSet(s) ==
    /\ all.step = "next" /\ s \in all.todo
    /\ all' = [all EXCEPT !.step = "back", !.todo = @ \ {s}, !.at = s]
    /\ job' = [job EXCEPT !["timer"] = [step |-> "lock", set |-> s]]
    /\ UNCHANGED <<ini, cached, document>>

\* Read back: the lists that matter are those of the .ini stored now.
listsOf(s) == IF Stored(s) THEN ListURLs(ini[s]) ELSE {}
keepLast(s) == listsOf(s)
keep(s) == all.keep \cup listsOf(s)

ReadBack ==
    /\ all.step = "back" /\ job["timer"] = NoJob
    /\ all' = [all EXCEPT !.step = "next", !.keep = keep(all.at)]
    /\ UNCHANGED <<ini, cached, job, document>>

PruneRuleLists ==
    /\ all.step = "next" /\ all.todo = {}
    /\ all' = [all EXCEPT !.step = "prune", !.stale = cached \ all.keep]
    /\ UNCHANGED <<ini, cached, job, document>>

\* One DELETE per stale list.
PruneOne(u) ==
    /\ all.step = "prune" /\ u \in all.stale
    /\ cached' = cached \ {u} /\ all' = [all EXCEPT !.stale = @ \ {u}]
    /\ UNCHANGED <<ini, job, document>>

RoundEnds ==
    /\ all.step = "prune" /\ all.stale = {}
    /\ all' = NoRound
    /\ UNCHANGED <<ini, cached, job, document>>

-----------------------------------------------------------------------------
(* The API.  Which .ini the URL of a set serves is upstream's business, so renaming a set or *)
(* pointing it elsewhere (updateRuleset) changes nothing the next refresh could not. *)

\* createRuleset on a new set, refreshRuleset on one there is: both end in Refresh.
createOrRefresh(h, s) ==
    /\ job[h] = NoJob /\ (Overlap \/ all = NoRound)
    /\ ini' = IF Exists(s) THEN ini ELSE [ini EXCEPT ![s] = Missing]
    /\ job' = [job EXCEPT ![h] = [step |-> "lock", set |-> s]]
    /\ UNCHANGED <<cached, all, document>>

deleteRuleset(s) ==
    /\ Exists(s) /\ ini' = [ini EXCEPT ![s] = Absent]
    /\ UNCHANGED <<cached, job, all, document>>

-----------------------------------------------------------------------------
(* Rendering *)

Groups(x) == DOMAIN x.groups
expand(x, g, names, alive) ==
    {l \in x.groups[g].literals : l \in Policies \cup alive} \cup (names \cap x.groups[g].takes)

\* A group left empty is dropped as it is met, one pass over them in order.
drop(x, names, alive, g) ==
    IF g \in alive /\ expand(x, g, names, alive) = {} THEN alive \ {g} ELSE alive
pass(x, names, alive) ==
    LET A[i \in 0..Len(x.order)] == IF i = 0 THEN alive ELSE drop(x, names, A[i - 1], x.order[i])
    IN  A[Len(x.order)]

resolveOnce(x, names) == pass(x, names, Groups(x))

\* Passes until one drops nothing; there are no more of them than groups.
resolveGroups(x, names) ==
    LET R[k \in 0..Len(x.order)] == IF k = 0 THEN Groups(x) ELSE pass(x, names, R[k - 1])
    IN  R[Len(x.order)]

\* The namer, over the rules at I, which all have a list: a list is named after its file, and
\* numbered among the lists met so far whose name that is.
met(x, I, base, i) ==
    {x.rules[j].list : j \in {k \in I : k <= i /\ BaseOf[x.rules[k].list] = base}}
nameOf(x, I, i) ==
    LET base == BaseOf[x.rules[i].list] IN <<base, Cardinality(met(x, I, base, i))>>

firstOf(x, I, i) == \A j \in I : j < i => x.rules[j].list # x.rules[i].list
Named(x, I) ==
    LET firsts == {i \in I : firstOf(x, I, i)}
    IN  [n \in {nameOf(x, I, i) : i \in firsts} |->
            x.rules[CHOOSE i \in firsts : nameOf(x, I, i) = n].list]

withList(x, I) == {i \in I : x.rules[i].list # NoList}

\* Render: rules whose policy was dropped are left out before lists are named.
keptRules(x, alive) == {i \in DOMAIN x.rules : x.rules[i].group \in alive \cup Policies}
Render(x, names) ==
    LET alive == resolveGroups(x, names)
    IN  [groups |-> [g \in alive |-> expand(x, g, names, alive)],
         policies |-> {x.rules[i].group : i \in keptRules(x, alive)},
         providers |-> Named(x, withList(x, keptRules(x, alive)))]

\* ListFor names the lists of every rule.
ListFor(x, name) ==
    LET named == Named(x, withList(x, DOMAIN x.rules))
    IN  IF name \in DOMAIN named THEN named[name] ELSE NoList

\* routingFor: a set never fetched leaves the routing half to the default groups.
routingFor(s, names) ==
    /\ Stored(s)
    /\ document' = [step |-> "rendered", preset |-> ini[s], names |-> names, out |-> Render(ini[s], names)]
    /\ UNCHANGED <<ini, cached, job, all>>

-----------------------------------------------------------------------------
RefreshStep ==
    \E p \in Refreshers :
        \/ Lock(p) \/ IniFails(p) \/ RefreshEnds(p)
        \/ \E x \in Presets : SaveRulesetFetch(p, x)
        \/ \E u \in Lists, ok \in BOOLEAN : refreshList(p, u, ok)

TimerStep ==
    \/ RefreshAll \/ ReadBack \/ PruneRuleLists \/ RoundEnds
    \/ \E s \in Sets : NextSet(s)
    \/ \E u \in Lists : PruneOne(u)

RulesetStep ==
    \E s \in Sets : \/ deleteRuleset(s)
                    \/ \E h \in Handlers : createOrRefresh(h, s)

RoutingNext ==
    \/ RefreshStep \/ TimerStep \/ RulesetStep
    \/ \E s \in Sets, names \in SUBSET Regions : routingFor(s, names)

RoutingSpec == RoutingInit /\ [][RoutingNext]_tvars

-----------------------------------------------------------------------------
\* "drops cached lists no live ruleset references any more" (PruneRuleLists): a list a stored
\* preset names is never taken out of the cache.  Handlers that refresh during the timer's
\* round break this (Overlap): the round decides what to keep set by set, before it prunes.
PruneKeepsReferenced == [][\A u \in cached \ cached' : u \notin Referenced]_tvars

\* "Clash refuses a configuration containing a proxy group with an empty proxies list ... a
\* member pointing at a group that no longer exists fails the same way" (Render): what is
\* rendered is the largest set of groups that support one another, and rules only name those.
GroupsLoad ==
    document.step = "rendered" =>
        LET x == document.preset
            supported(S) == \A g \in S : expand(x, g, document.names, S) # {}
        IN  /\ DOMAIN document.out.groups = UNION {S \in SUBSET Groups(x) : supported(S)}
            /\ \A g \in DOMAIN document.out.groups :
                  document.out.groups[g] \subseteq
                      Policies \cup document.names \cup DOMAIN document.out.groups
            /\ document.out.policies \subseteq Policies \cup DOMAIN document.out.groups

\* "Names are assigned in the same order Render assigns them, so the same input produces the
\* same mapping" (ListFor).  A client is always answered for a provider it was given, and with
\* the very list the document meant as long as no rule before it was dropped: Render names the
\* lists of the rules it keeps, ListFor those of every rule.
ProvidersAnswered ==
    document.step = "rendered" =>
        LET x == document.preset
            complete == {x.rules[i].group : i \in DOMAIN x.rules} \subseteq
                            Policies \cup DOMAIN document.out.groups
        IN  \A n \in DOMAIN document.out.providers :
                /\ ListFor(x, n) # NoList
                /\ complete => ListFor(x, n) = document.out.providers[n]

=============================================================================
