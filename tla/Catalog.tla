------------------------------ MODULE Catalog ------------------------------
(***************************************************************************)
(* Nodes of other providers (external/service.go, store/external.go,       *)
(* api/external.go): a source is fetched and its proxies matched to the    *)
(* rows they had before, so that what the operator decided about a row --  *)
(* who may use it, what it is dialled through -- outlives the refresh; and *)
(* the part of a subscription that carries them.                           *)
(* The store runs one statement at a time; handlers and the refresh, which *)
(* holds a mutex of its own, interleave between statements.  A proxy is    *)
(* its name and its endpoint; row ids are numbers and never used again.    *)
(***************************************************************************)
EXTENDS Integers, FiniteSets, Sequences

CONSTANTS
    Feeds,      \* sources
    Offers,     \* answers of a provider: sequences of proxies, [name, end]
    MaxRows,    \* rows ever inserted
    Readers,    \* subscribers
    Carriers,   \* nodes of the fleet
    Editors,    \* setExternalProxy calls in flight
    Direct      \* chained through nothing

\* An answer is a sequence, the requests in flight are finite, and no chain is not a row id.
ASSUME CatalogAssumption ==
    /\ \A offer \in Offers : Len(offer) \in Nat /\ DOMAIN offer = 1..Len(offer)
    /\ IsFiniteSet(Editors) /\ Direct \notin Nat

VARIABLES
    feed,       \* source -> "none", "off" or "on"
    proxy,      \* row id -> row, for the rows there are
    issued,     \* the last row id
    reader,     \* subscribers there are
    barred,     \* user_external_denies
    fleet,      \* nodes there are
    refresh,    \* the refresh that holds the mutex
    edit,       \* setExternalProxy calls
    page,       \* a subscription being rendered
    opened      \* <<subscriber, row>> an operator opened (history)

cvars == <<feed, proxy, issued, reader, barred, fleet, refresh, edit, page, opened>>

Rows == DOMAIN proxy
Resting == [step |-> "none"]

CatalogInit ==
    /\ feed = [f \in Feeds |-> "none"]
    /\ proxy = <<>> /\ issued = 0
    /\ reader = {} /\ barred = {} /\ fleet = Carriers
    /\ refresh = Resting /\ edit = [e \in Editors |-> Resting] /\ page = Resting
    /\ opened = {}

-----------------------------------------------------------------------------
(* Rows and what hangs off them *)

\* Foreign keys: a row's denials go with it, a chain through it is set to NULL.
Remaining(rows, gone) ==
    [p \in DOMAIN rows \ gone |->
        IF rows[p].chain \in gone THEN [rows[p] EXCEPT !.chain = Direct] ELSE rows[p]]

DeleteRows(gone) ==
    /\ proxy' = Remaining(proxy, gone)
    /\ barred' = {d \in barred : d[2] \notin gone}
    /\ opened' = {d \in opened : d[2] \notin gone}

-----------------------------------------------------------------------------
(* Sources *)

createExternal(f) ==
    /\ feed[f] = "none" /\ feed' = [feed EXCEPT ![f] = "on"]
    /\ UNCHANGED <<proxy, issued, reader, barred, fleet, refresh, edit, page, opened>>

updateExternal(f, state) ==
    /\ feed[f] # "none" /\ feed' = [feed EXCEPT ![f] = state]
    /\ UNCHANGED <<proxy, issued, reader, barred, fleet, refresh, edit, page, opened>>

DeleteExternalSub(f) ==
    /\ feed[f] # "none" /\ feed' = [feed EXCEPT ![f] = "none"]
    /\ DeleteRows({p \in Rows : proxy[p].feed = f})
    /\ UNCHANGED <<issued, reader, fleet, refresh, edit, page>>

-----------------------------------------------------------------------------
(* Refresh, one at a time *)

\* From createExternal, refreshExternal or the timer's RefreshAll; a source that was pasted is
\* parsed again, one with a URL fetched.
Refresh(f) ==
    /\ refresh = Resting /\ feed[f] # "none"
    /\ refresh' = [step |-> "fetch", feed |-> f]
    /\ UNCHANGED <<feed, proxy, issued, reader, barred, fleet, edit, page, opened>>

\* No answer, or nothing usable in it: recorded, and the rows stay as they are.
FetchFails ==
    /\ refresh.step = "fetch" /\ refresh' = Resting
    /\ UNCHANGED <<feed, proxy, issued, reader, barred, fleet, edit, page, opened>>

ExternalProxies(f) == [p \in {q \in Rows : proxy[q].feed = f} |-> proxy[p]]

\* A usable answer: ReplaceExternalProxies reads the rows before its transaction.
Fetched(offer) ==
    /\ refresh.step = "fetch"
    /\ refresh' = [step |-> "replace", feed |-> refresh.feed, offer |-> offer,
                   old |-> ExternalProxies(refresh.feed)]
    /\ UNCHANGED <<feed, proxy, issued, reader, barred, fleet, edit, page, opened>>

\* The maps byName and byEndpoint: of several rows under one key, the last.
Latest(old, S) == {p \in S : \A q \in S : old[q].ord <= old[p].ord}
matchNameOnly(old, o) == Latest(old, {p \in DOMAIN old : old[p].name = o.name})

match(old, o) ==
    LET byName == {p \in DOMAIN old : old[p].name = o.name}
        byEndpoint == {p \in DOMAIN old : old[p].end = o.end}
    IN  Latest(old, IF byName # {} THEN byName ELSE byEndpoint)

\* One fresh proxy: its previous row, unless another took that one, or a new one.
Take(acc, o, i) ==
    LET prev == match(refresh.old, o) \ acc.kept IN
    IF prev # {}
    THEN [acc EXCEPT !.kept = @ \cup prev,
                     !.rows = [p \in DOMAIN @ |->
                        IF p \in prev THEN [@[p] EXCEPT !.name = o.name, !.end = o.end, !.ord = i]
                        ELSE @[p]]]
    ELSE LET id == acc.next + 1 IN
         [kept |-> acc.kept \cup {id}, next |-> id,
          rows |-> [p \in DOMAIN acc.rows \cup {id} |->
              IF p # id THEN acc.rows[p]
              ELSE [feed |-> refresh.feed, name |-> o.name, end |-> o.end, ord |-> i,
                    chain |-> Direct, on |-> TRUE, exposed |-> FALSE]]]

Merged ==
    LET S[i \in 0..Len(refresh.offer)] ==
            IF i = 0 THEN [kept |-> {}, next |-> issued, rows |-> proxy]
            ELSE Take(S[i - 1], refresh.offer[i], i)
    IN  S[Len(refresh.offer)]

barsForNone(ids) == {}

\* A new row is denied to everyone who already subscribes.
barsFor(ids) == reader \X ids

\* The transaction.  An insert fails, and all of it with it, when the source is gone.
ReplaceExternalProxies ==
    LET m == Merged
        new == (issued + 1)..m.next
        gone == DOMAIN refresh.old \ m.kept
    IN
    /\ refresh.step = "replace" /\ m.next <= MaxRows
    /\ refresh' = Resting
    /\ IF feed[refresh.feed] = "none" /\ new # {}
       THEN UNCHANGED <<proxy, issued, barred, opened>>
       ELSE /\ proxy' = Remaining(m.rows, gone) /\ issued' = m.next
            /\ barred' = {d \in barred : d[2] \notin gone} \cup barsFor(new)
            /\ opened' = {d \in opened : d[2] \notin gone}
    /\ UNCHANGED <<feed, reader, fleet, edit, page>>

-----------------------------------------------------------------------------
(* Subscribers and nodes *)

CreateUser(u) ==
    /\ u \notin reader /\ reader' = reader \cup {u}
    /\ barred' = barred \cup ({u} \X Rows)
    /\ UNCHANGED <<feed, proxy, issued, fleet, refresh, edit, page, opened>>

DeleteUser(u) ==
    /\ u \in reader /\ reader' = reader \ {u}
    /\ barred' = {d \in barred : d[1] # u} /\ opened' = {d \in opened : d[1] # u}
    /\ UNCHANGED <<feed, proxy, issued, fleet, refresh, edit, page>>

SetExternalProxyAccess(p, S) ==
    /\ p \in Rows
    /\ barred' = {d \in barred : d[2] # p} \cup (S \X {p})
    /\ opened' = {d \in opened : d[2] # p} \cup ((reader \ S) \X {p})
    /\ UNCHANGED <<feed, proxy, issued, reader, fleet, refresh, edit, page>>

\* chain_node_id is set to NULL by the foreign key.
DeleteNode(n) ==
    /\ n \in fleet /\ fleet' = fleet \ {n}
    /\ proxy' = [p \in Rows |-> IF proxy[p].chain = n THEN [proxy[p] EXCEPT !.chain = Direct] ELSE proxy[p]]
    /\ UNCHANGED <<feed, issued, reader, barred, refresh, edit, page, opened>>

-----------------------------------------------------------------------------
(* setExternalProxy: the row is loaded, the exposure written, the chain walked, then written *)

\* A chain the request names must exist; one it does not name is the one just read.
setExternalProxy(e, p, chain, on, exposed) ==
    /\ edit[e] = Resting /\ p \in Rows
    /\ chain \in {Direct} \cup fleet \cup Rows
    /\ edit' = [edit EXCEPT ![e] = [step |-> "expose", row |-> p, chain |-> chain, on |-> on,
                                    exposed |-> exposed]]
    /\ UNCHANGED <<feed, proxy, issued, reader, barred, fleet, refresh, page, opened>>

SetExternalProxyExposed(e) ==
    LET c == edit[e] IN
    /\ c.step = "expose"
    /\ IF c.row \in Rows
       THEN /\ proxy' = [proxy EXCEPT ![c.row].exposed = c.exposed]
            /\ edit' = [edit EXCEPT ![e].step = "walk"]
       ELSE edit' = [edit EXCEPT ![e] = Resting] /\ UNCHANGED proxy
    /\ UNCHANGED <<feed, issued, reader, barred, fleet, refresh, page, opened>>

\* Where the walk from a row ends up after some steps.
walkFrom(p) ==
    LET W[k \in 0..Cardinality(Rows)] ==
            IF k = 0 THEN {p} ELSE W[k - 1] \cup {proxy[q].chain : q \in W[k - 1] \cap Rows}
    IN  W[Cardinality(Rows)]

\* checkExternalChain
loops(p, chain) == p \in walkFrom(chain)

checkExternalChain(e) ==
    /\ edit[e].step = "walk"
    /\ edit' = [edit EXCEPT ![e] = IF loops(edit[e].row, edit[e].chain) THEN Resting
                                   ELSE [edit[e] EXCEPT !.step = "write"]]
    /\ UNCHANGED <<feed, proxy, issued, reader, barred, fleet, refresh, page, opened>>

\* The update fails when the row or what it would name is gone.
SetExternalProxy(e) ==
    LET c == edit[e] IN
    /\ c.step = "write" /\ edit' = [edit EXCEPT ![e] = Resting]
    /\ IF c.row \in Rows /\ c.chain \in {Direct} \cup fleet \cup Rows
       THEN /\ proxy' = [proxy EXCEPT ![c.row].chain = c.chain, ![c.row].on = c.on]
       ELSE UNCHANGED proxy
    /\ UNCHANGED <<feed, issued, reader, barred, fleet, refresh, page, opened>>

-----------------------------------------------------------------------------
(* The subscription's part: Fragments, over the fleet's lines it already carries *)

EnabledExternalProxies == {p \in Rows : proxy[p].on /\ feed[proxy[p].feed] = "on"}
Relayed(r) == r.chain \in Carriers

\* The denials are read, and the fleet's lines rendered, before the proxies are.
externalFragments(u, names) ==
    /\ page.step \in {"none", "served"} /\ u \in reader /\ names \subseteq fleet
    /\ page' = [step |-> "read", for |-> u, names |-> names, denied |-> {p \in Rows : <<u, p>> \in barred}]
    /\ UNCHANGED <<feed, proxy, issued, reader, barred, fleet, refresh, edit, opened>>

ReadProxies ==
    LET kept == {p \in EnabledExternalProxies :
                    /\ p \notin page.denied
                    /\ Relayed(proxy[p]) => proxy[p].exposed}
    IN
    /\ page.step = "read"
    /\ page' = [step |-> "resolve", for |-> page.for, names |-> page.names,
                rows |-> [p \in kept |-> proxy[p]],
                carried |-> kept]
    /\ UNCHANGED <<feed, proxy, issued, reader, barred, fleet, refresh, edit, opened>>

\* A chain leads to something this document carries.
resolves(p) ==
    LET to == page.rows[p].chain IN to = Direct \/ to \in page.carried \/ to \in page.names

\* One turn of carried's loop; a map is walked in any order.
DropUnresolved(p) ==
    /\ page.step = "resolve" /\ p \in page.carried /\ ~ resolves(p)
    /\ page' = [page EXCEPT !.carried = @ \ {p}]
    /\ UNCHANGED <<feed, proxy, issued, reader, barred, fleet, refresh, edit, opened>>

Serve ==
    /\ page.step = "resolve" /\ \A p \in page.carried : resolves(p)
    /\ page' = [page EXCEPT !.step = "served"]
    /\ UNCHANGED <<feed, proxy, issued, reader, barred, fleet, refresh, edit, opened>>

-----------------------------------------------------------------------------
SourceStep ==
    \/ \E f \in Feeds : \/ Refresh(f) \/ DeleteExternalSub(f) \/ createExternal(f)
                        \/ \E s \in {"on", "off"} : updateExternal(f, s)
    \/ FetchFails \/ ReplaceExternalProxies
    \/ \E offer \in Offers : Fetched(offer)

PeopleStep ==
    \/ \E u \in Readers : CreateUser(u) \/ DeleteUser(u)
    \/ \E p \in Rows, S \in SUBSET reader : SetExternalProxyAccess(p, S)
    \/ \E n \in Carriers : DeleteNode(n)

EditStep(e) ==
    \/ \E p \in Rows, chain \in {Direct} \cup Carriers \cup Rows, on, exposed \in BOOLEAN :
          setExternalProxy(e, p, chain, on, exposed)
    \/ SetExternalProxyExposed(e) \/ checkExternalChain(e) \/ SetExternalProxy(e)

PageStep ==
    \/ \E u \in Readers, names \in SUBSET Carriers : externalFragments(u, names)
    \/ ReadProxies \/ Serve
    \/ page.step = "resolve" /\ \E p \in page.carried : DropUnresolved(p)

CatalogNext == SourceStep \/ PeopleStep \/ (\E e \in Editors : EditStep(e)) \/ PageStep
CatalogSpec == CatalogInit /\ [][CatalogNext]_cvars

-----------------------------------------------------------------------------
\* "a provider adding a node to their list is not the operator deciding to hand it out"
\* (ReplaceExternalProxies): whoever may use a row was given it by an operator, whatever
\* refreshes, renames, new subscribers and withdrawn sources came in between.
NothingHandedOut ==
    \A u \in reader, p \in Rows : <<u, p>> \notin barred => <<u, p>> \in opened

\* "matched to its previous row by name, and failing that by endpoint" (ReplaceExternalProxies):
\* a proxy that kept its name or its endpoint, and that no other proxy of the source could be
\* taken for, keeps its row and with it everything the operator decided.
KeepsItsRow ==
    LET related(o, r) == o.name = r.name \/ o.end = r.end
        fresh == refresh.offer
        only(i, p) == /\ related(fresh[i], refresh.old[p])
                      /\ \A j \in DOMAIN fresh : related(fresh[j], refresh.old[p]) => j = i
                      /\ \A q \in DOMAIN refresh.old : related(fresh[i], refresh.old[q]) => q = p
    IN  (refresh.step = "replace" /\ refresh' = Resting) =>
            \A i \in DOMAIN fresh, p \in DOMAIN refresh.old :
                (only(i, p) /\ p \in Rows) =>
                    /\ p \in DOMAIN proxy' /\ proxy'[p].end = fresh[i].end
                    /\ proxy'[p].on = proxy[p].on
                    /\ \A u \in reader : <<u, p>> \in barred' <=> <<u, p>> \in barred
RefreshKeepsDecisions == [][KeepsItsRow]_cvars

\* "a dialer-proxy naming something the document does not define makes the whole configuration
\* unloadable" and "iterating to a fixpoint settles that regardless of order" (carried): the
\* document served is the largest one in which every chain resolves.
DocumentResolves ==
    page.step = "served" =>
        page.carried = UNION {S \in SUBSET DOMAIN page.rows :
            \A p \in S : page.rows[p].chain \in S \cup page.names \cup {Direct}}

\* "A chain that loops has no rendering, so it must not be storable" (service_test.go), for
\* one editor at a time: walk and write are two statements.
ChainsEnd == Cardinality(Editors) = 1 => \A p \in Rows : p \notin walkFrom(proxy[p].chain)
=============================================================================
