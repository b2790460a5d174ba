--------------------------- MODULE DocumentProofs ---------------------------
(* Proofs about the documents a subscriber is given, for every set of sources, answers,    *)
(* subscribers, presets, templates and variables: the nodes of other providers, the rule   *)
(* lists and groups, and the subscriber's own access points.                               *)
EXTENDS Services, FiniteSetTheorems, WellFoundedInduction, TLAPS

-----------------------------------------------------------------------------
(* Nodes of other providers: a refresh folds Take over the answer, proxy by proxy *)

Below == {ss \in Nat \X Nat : ss[1] < ss[2]}

\* The order of the natural numbers, as a relation.
LEMMA BelowWellFounded == IsWellFoundedOn(Below, Nat)
BY NatLessThanWellFounded, Zenon DEF OpToRel, Below

\* Induction over the natural numbers, for a set rather than for an operator.
LEMMA SetInduction ==
    ASSUME NEW S, 0 \in S, \A n \in Nat : n \in S => n + 1 \in S
    PROVE  Nat \subseteq S
<1> DEFINE T == Nat \ S
<1> SUFFICES ASSUME T # {} PROVE FALSE
  OBVIOUS
<1>1. PICK x \in T : \A y \in T : ~ (<<y, x>> \in Below)
  <2>1. T \subseteq Nat
    OBVIOUS
  <2> HIDE DEF T
  <2> QED  BY <2>1, WFMin, BelowWellFounded
<1>2. \A y \in T : ~ (y < x)
  BY <1>1 DEF Below
<1>3. x - 1 \in Nat /\ x - 1 \in S
  BY <1>2
<1> QED  BY <1>3

\* Where the fold starts: no row taken, none issued.
Untouched == [kept |-> {}, next |-> issued, rows |-> proxy]
Folds(F, n) ==
    F = [i \in 0..n |-> IF i = 0 THEN Untouched ELSE Take(F[i - 1], refresh.offer[i], i)]

\* The fold over a finite answer exists...
LEMMA FoldExists == ASSUME NEW n \in Nat PROVE \E F : Folds(F, n)
<1> DEFINE S == {k \in Nat : \E F : Folds(F, k)}
<1>1. 0 \in S
  <2>1. Folds([i \in 0..0 |-> Untouched], 0)
    BY DEF Folds
  <2> QED  BY <2>1
<1>2. ASSUME NEW k \in Nat, k \in S PROVE k + 1 \in S
  <2>1. PICK F : Folds(F, k)
    BY <1>2
  <2> DEFINE G == [i \in 0..(k + 1) |-> IF i \in 0..k THEN F[i] ELSE Take(F[k], refresh.offer[k + 1], k + 1)]
  <2>2. \A i \in 0..k : F[i] = IF i = 0 THEN Untouched ELSE Take(F[i - 1], refresh.offer[i], i)
    BY <2>1 DEF Folds
  <2>3. ASSUME NEW i \in 0..(k + 1)
        PROVE  G[i] = IF i = 0 THEN Untouched ELSE Take(G[i - 1], refresh.offer[i], i)
    <3>1. CASE i \in 0..k
      <4>1. G[i] = F[i] /\ (i # 0 => G[i - 1] = F[i - 1])
        BY <3>1
      <4> QED  BY <2>2, <3>1, <4>1
    <3>2. CASE i = k + 1
      <4>1. G[i] = Take(F[k], refresh.offer[k + 1], k + 1) /\ G[i - 1] = F[k] /\ i # 0
        BY <3>2
      <4> QED  BY <3>2, <4>1
    <3> QED  BY <3>1, <3>2
  <2>4. Folds(G, k + 1)
    <3> HIDE DEF G
    <3>1. G = [i \in 0..(k + 1) |-> G[i]]
      BY DEF G
    <3> QED  BY <2>3, <3>1 DEF Folds
  <2> QED  BY <2>4
<1> HIDE DEF S
<1>3. Nat \subseteq S
  BY <1>1, <1>2, SetInduction
<1> QED  BY <1>3 DEF S

\* ...and is what Merged computes.
LEMMA MergedFolds ==
    ASSUME Len(refresh.offer) \in Nat
    PROVE  \E F : Folds(F, Len(refresh.offer)) /\ Merged = F[Len(refresh.offer)]
<1> DEFINE F == CHOOSE G : G = [i \in 0..Len(refresh.offer) |->
                    IF i = 0 THEN [kept |-> {}, next |-> issued, rows |-> proxy]
                    ELSE Take(G[i - 1], refresh.offer[i], i)]
<1>1. \E G : G = [i \in 0..Len(refresh.offer) |->
                    IF i = 0 THEN [kept |-> {}, next |-> issued, rows |-> proxy]
                    ELSE Take(G[i - 1], refresh.offer[i], i)]
  BY FoldExists, Zenon DEF Folds, Untouched
<1>2. F = [i \in 0..Len(refresh.offer) |->
                    IF i = 0 THEN [kept |-> {}, next |-> issued, rows |-> proxy]
                    ELSE Take(F[i - 1], refresh.offer[i], i)]
  BY <1>1, Zenon
<1>3. Folds(F, Len(refresh.offer))
  BY <1>2, Zenon DEF Folds, Untouched
<1>4. Merged = F[Len(refresh.offer)]
  BY Zenon DEF Merged
<1> QED  BY <1>3, <1>4, Zenon

\* A row of external_proxies.
RowKept(r) ==
    /\ r = [feed |-> r.feed, name |-> r.name, end |-> r.end, ord |-> r.ord, chain |-> r.chain,
            on |-> r.on, exposed |-> r.exposed]
    /\ r.ord \in Nat

\* Rows have ids that were issued and belong to a source there is.
RowsHeld ==
    /\ issued \in Nat /\ Rows \subseteq 1..issued
    /\ proxy = [p \in Rows |-> proxy[p]] /\ feed = [f \in Feeds |-> feed[f]]
    /\ \A p \in Rows : RowKept(proxy[p]) /\ proxy[p].feed \in Feeds /\ feed[proxy[p].feed] # "none"

\* What the refresh read: ids issued before, and of the rows still there, rows of its source.
RefreshHeld ==
    \/ refresh = Resting
    \/ refresh = [step |-> "fetch", feed |-> refresh.feed] /\ refresh.feed \in Feeds
    \/ /\ refresh = [step |-> "replace", feed |-> refresh.feed, offer |-> refresh.offer,
                     old |-> refresh.old]
       /\ refresh.feed \in Feeds /\ refresh.offer \in Offers
       /\ DOMAIN refresh.old \subseteq 1..issued
       /\ \A p \in DOMAIN refresh.old : RowKept(refresh.old[p])
       /\ \A p \in Rows \cap DOMAIN refresh.old : proxy[p].feed = refresh.feed

\* The inductive invariant of Catalog.
CatalogInv == RowsHeld /\ RefreshHeld /\ NothingHandedOut

\* The fold so far: the rows there were, under their feeds, and the new ones, in order of issue.
Folded(acc) ==
    /\ acc = [kept |-> acc.kept, next |-> acc.next, rows |-> acc.rows]
    /\ acc.next \in Nat /\ acc.next >= issued
    /\ acc.rows = [p \in DOMAIN acc.rows |-> acc.rows[p]]
    /\ DOMAIN acc.rows = Rows \cup ((issued + 1)..acc.next)
    /\ \A p \in DOMAIN acc.rows : RowKept(acc.rows[p])
    /\ \A p \in Rows : acc.rows[p].feed = proxy[p].feed /\ acc.rows[p].chain = proxy[p].chain
    /\ \A p \in (issued + 1)..acc.next : acc.rows[p].feed = refresh.feed /\ acc.rows[p].chain = Direct

\* What taking a proxy does: its previous rows P written over and kept, or a new row.
TookOne(acc, t, o, P) ==
    /\ P # {} => /\ t.kept = acc.kept \cup P /\ t.next = acc.next
                 /\ \A p \in DOMAIN acc.rows \cap P :
                       /\ t.rows[p].end = o.end /\ t.rows[p].on = acc.rows[p].on
    /\ P = {} => t.kept = acc.kept \cup {acc.next + 1} /\ t.next = acc.next + 1
    /\ \A p \in DOMAIN acc.rows \ P : t.rows[p] = acc.rows[p]

\* One proxy taken: its previous row, or a new one with the next id.
LEMMA TakeParts ==
    ASSUME RowsHeld, NEW acc, Folded(acc), NEW o, NEW i \in Nat
    PROVE  /\ TookOne(acc, Take(acc, o, i), o, match(refresh.old, o) \ acc.kept)
           /\ Folded(Take(acc, o, i))
<1>0. PICK P : P = match(refresh.old, o) \ acc.kept
  OBVIOUS
<1>1. PICK t : t = Take(acc, o, i)
  OBVIOUS
<1>2. CASE P # {}
  <2>1. PICK rows : rows = [p \in DOMAIN acc.rows |->
                        IF p \in P THEN [acc.rows[p] EXCEPT !.name = o.name, !.end = o.end, !.ord = i]
                        ELSE acc.rows[p]]
    OBVIOUS
  <2>2. t = [acc EXCEPT !.kept = acc.kept \cup P, !.rows = rows]
    BY <1>0, <1>1, <1>2, <2>1 DEF Take
  <2>3. t = [kept |-> acc.kept \cup P, next |-> acc.next, rows |-> rows]
    BY <2>2 DEF Folded
  <2>4. DOMAIN rows = DOMAIN acc.rows /\ rows = [p \in DOMAIN rows |-> rows[p]]
    BY <2>1
  <2>5. ASSUME NEW p \in DOMAIN acc.rows, p \in P
        PROVE  /\ rows[p].end = o.end /\ rows[p].on = acc.rows[p].on
               /\ RowKept(rows[p]) /\ rows[p].feed = acc.rows[p].feed
               /\ rows[p].chain = acc.rows[p].chain
    <3>1. PICK r : r = acc.rows[p] /\ RowKept(r)
      BY DEF Folded
    <3>2. rows[p] = [r EXCEPT !.name = o.name, !.end = o.end, !.ord = i]
      BY <2>1, <2>5, <3>1
    <3>3. rows[p] = [feed |-> r.feed, name |-> o.name, end |-> o.end, ord |-> i, chain |-> r.chain,
                     on |-> r.on, exposed |-> r.exposed]
      BY <3>1, <3>2 DEF RowKept
    <3> QED  BY <3>1, <3>3 DEF RowKept
  <2>6. \A p \in DOMAIN acc.rows \ P : rows[p] = acc.rows[p]
    BY <2>1
  <2>7. /\ t.kept = acc.kept \cup P /\ t.next = acc.next /\ t.rows = rows
        /\ t = [kept |-> t.kept, next |-> t.next, rows |-> t.rows]
    BY <2>3
  <2>8. \A p \in DOMAIN acc.rows : /\ RowKept(rows[p]) /\ rows[p].feed = acc.rows[p].feed
                                   /\ rows[p].chain = acc.rows[p].chain
    BY <2>5, <2>6 DEF Folded
  <2>9. Folded(t)
    BY <2>4, <2>7, <2>8 DEF Folded
  <2>10. TookOne(acc, t, o, P)
    BY <1>2, <2>5, <2>6, <2>7 DEF TookOne
  <2> QED  BY <1>0, <1>1, <2>9, <2>10
<1>3. CASE P = {}
  <2>1. PICK id : id = acc.next + 1
    OBVIOUS
  <2>2. PICK r : r = [feed |-> refresh.feed, name |-> o.name, end |-> o.end, ord |-> i,
                      chain |-> Direct, on |-> TRUE, exposed |-> FALSE]
    OBVIOUS
  <2>3. PICK rows : rows = [p \in DOMAIN acc.rows \cup {id} |-> IF p # id THEN acc.rows[p] ELSE r]
    OBVIOUS
  <2>4. t = [kept |-> acc.kept \cup {id}, next |-> id, rows |-> rows]
    BY <1>0, <1>1, <1>3, <2>1, <2>2, <2>3 DEF Take
  <2>5. /\ t.kept = acc.kept \cup {id} /\ t.next = id /\ t.rows = rows
        /\ t = [kept |-> t.kept, next |-> t.next, rows |-> t.rows]
    BY <2>4
  <2>6. RowKept(r) /\ r.feed = refresh.feed /\ r.chain = Direct
    BY <2>2 DEF RowKept
  <2>7. /\ id \in Nat /\ id >= issued /\ id \notin DOMAIN acc.rows /\ issued \in Nat
        /\ DOMAIN acc.rows \cup {id} = Rows \cup ((issued + 1)..id)
        /\ \A p \in (issued + 1)..id : p = id \/ p \in (issued + 1)..acc.next
        /\ \A p \in Rows : p # id
    BY <2>1 DEF Folded, RowsHeld
  <2>8. /\ DOMAIN rows = DOMAIN acc.rows \cup {id} /\ rows = [p \in DOMAIN rows |-> rows[p]]
        /\ rows[id] = r /\ \A p \in DOMAIN acc.rows : rows[p] = acc.rows[p]
    BY <2>3, <2>7
  <2>9. Folded(t)
    BY <2>5, <2>6, <2>7, <2>8 DEF Folded
  <2>10. TookOne(acc, t, o, P)
    BY <1>3, <2>1, <2>5, <2>8 DEF TookOne
  <2> QED  BY <1>0, <1>1, <2>9, <2>10
<1> QED  BY <1>2, <1>3

\* The whole fold.
LEMMA FoldKept ==
    ASSUME RowsHeld, NEW n \in Nat, NEW F, Folds(F, n)
    PROVE  \A k \in 0..n : Folded(F[k])
<1> DEFINE S == {k \in Nat : k <= n => Folded(F[k])}
<1>1. \A k \in 0..n : F[k] = IF k = 0 THEN Untouched ELSE Take(F[k - 1], refresh.offer[k], k)
  BY DEF Folds
<1>2. 0 \in S
  <2>1. F[0] = Untouched
    BY <1>1
  <2>2. /\ F[0] = [kept |-> F[0].kept, next |-> F[0].next, rows |-> F[0].rows]
        /\ F[0].next = issued /\ F[0].rows = proxy
    BY <2>1 DEF Untouched
  <2>3. (issued + 1)..issued = {}
    BY DEF RowsHeld
  <2> QED  BY <2>2, <2>3 DEF Folded, RowsHeld, Rows
<1>3. ASSUME NEW k \in Nat, k \in S PROVE k + 1 \in S
  <2> SUFFICES ASSUME k + 1 <= n PROVE Folded(F[k + 1])
    OBVIOUS
  <2>1. F[k + 1] = Take(F[k], refresh.offer[k + 1], k + 1) /\ Folded(F[k])
    BY <1>1, <1>3
  <2>2. k + 1 \in Nat
    OBVIOUS
  <2>3. Folded(Take(F[k], refresh.offer[k + 1], k + 1))
    BY <2>1, <2>2, TakeParts, Zenon
  <2> QED  BY <2>1, <2>3
<1> HIDE DEF S
<1>4. Nat \subseteq S
  BY <1>2, <1>3, SetInduction
<1> QED  BY <1>4 DEF S

\* What is left of the rows: as they were, a chain to a row that went cut.
LeftOf(r, rows, gone) ==
    /\ DOMAIN r = DOMAIN rows \ gone /\ r = [p \in DOMAIN r |-> r[p]]
    /\ \A p \in DOMAIN r : /\ RowKept(r[p]) /\ r[p].feed = rows[p].feed
                           /\ r[p].end = rows[p].end /\ r[p].on = rows[p].on
                           /\ r[p].chain \in {rows[p].chain, Direct}

\* Rows that go take their denials along and leave the others as they were.
LEMMA RemainingParts ==
    ASSUME NEW rows, NEW gone, \A p \in DOMAIN rows : RowKept(rows[p]),
           NEW r, r = Remaining(rows, gone)
    PROVE  LeftOf(r, rows, gone)
<1>1. r = Remaining(rows, gone)
  OBVIOUS
<1>2. DOMAIN r = DOMAIN rows \ gone /\ r = [p \in DOMAIN r |-> r[p]]
  BY <1>1 DEF Remaining
<1>3. ASSUME NEW p \in DOMAIN r
      PROVE  /\ RowKept(r[p]) /\ r[p].feed = rows[p].feed
             /\ r[p].end = rows[p].end /\ r[p].on = rows[p].on
             /\ r[p].chain \in {rows[p].chain, Direct}
  <2>1. PICK x : x = rows[p] /\ RowKept(x)
    BY <1>2
  <2>2. r[p] = x \/ r[p] = [x EXCEPT !.chain = Direct]
    BY <1>1, <1>2, <2>1 DEF Remaining
  <2>3. CASE r[p] = [x EXCEPT !.chain = Direct]
    <3>1. r[p] = [feed |-> x.feed, name |-> x.name, end |-> x.end, ord |-> x.ord, chain |-> Direct,
                  on |-> x.on, exposed |-> x.exposed]
      BY <2>1, <2>3 DEF RowKept
    <3> QED  BY <2>1, <3>1 DEF RowKept
  <2> QED  BY <2>1, <2>2, <2>3
<1> QED  BY <1>2, <1>3 DEF LeftOf

\* ReplaceExternalProxies: the transaction, or none of it when the source went meanwhile.
ReplacedBy(F, m, gone) ==
    /\ Folds(F, Len(refresh.offer)) /\ m = F[Len(refresh.offer)] /\ Folded(m)
    /\ Len(refresh.offer) \in Nat /\ refresh.step = "replace" /\ refresh.offer \in Offers
    /\ \A k \in 0..Len(refresh.offer) : Folded(F[k])
    /\ gone = DOMAIN refresh.old \ m.kept /\ refresh' = Resting
    /\ UNCHANGED <<feed, reader, fleet, edit, page>>
    /\ IF feed[refresh.feed] = "none" /\ (issued + 1)..m.next # {}
       THEN UNCHANGED <<proxy, issued, barred, opened>>
       ELSE /\ proxy' = Remaining(m.rows, gone) /\ issued' = m.next
            /\ barred' = {d \in barred : d[2] \notin gone} \cup (reader \X ((issued + 1)..m.next))
            /\ opened' = {d \in opened : d[2] \notin gone}

\* The transaction in terms of the fold.
LEMMA ReplaceParts ==
    ASSUME CatalogInv, ReplaceExternalProxies
    PROVE  \E F, m, gone : ReplacedBy(F, m, gone)
<1>1. refresh.step = "replace" /\ refresh.offer \in Offers /\ Len(refresh.offer) \in Nat
  BY CatalogAssumption DEF CatalogInv, RefreshHeld, ReplaceExternalProxies, Resting
<1>2. PICK F : Folds(F, Len(refresh.offer)) /\ Merged = F[Len(refresh.offer)]
  BY <1>1, MergedFolds
<1>3. \A k \in 0..Len(refresh.offer) : Folded(F[k])
  BY <1>1, <1>2, FoldKept DEF CatalogInv
<1>4. PICK m : m = Merged
  OBVIOUS
<1>5. m = F[Len(refresh.offer)] /\ Folded(m)
  BY <1>1, <1>2, <1>3, <1>4
<1>6. PICK gone : gone = DOMAIN refresh.old \ m.kept
  OBVIOUS
<1>7. /\ refresh' = Resting /\ UNCHANGED <<feed, reader, fleet, edit, page>>
      /\ IF feed[refresh.feed] = "none" /\ (issued + 1)..m.next # {}
         THEN UNCHANGED <<proxy, issued, barred, opened>>
         ELSE /\ proxy' = Remaining(m.rows, gone) /\ issued' = m.next
              /\ barred' = {d \in barred : d[2] \notin gone} \cup (reader \X ((issued + 1)..m.next))
              /\ opened' = {d \in opened : d[2] \notin gone}
  BY <1>4, <1>6 DEF ReplaceExternalProxies, barsFor
<1>8. ReplacedBy(F, m, gone)
  BY <1>1, <1>2, <1>3, <1>5, <1>6, <1>7 DEF ReplacedBy
<1> QED  BY <1>8

\* Whatever the answer holds, a row it adds is barred to everyone, and the rows it keeps are
\* as open as they were.
LEMMA ReplaceSafe == ASSUME CatalogInv, ReplaceExternalProxies PROVE CatalogInv'
<1>1. PICK F, m, gone : ReplacedBy(F, m, gone)
  BY ReplaceParts
<1>2. CASE UNCHANGED <<proxy, issued, barred, opened>>
  <2>1. UNCHANGED <<feed, reader>> /\ refresh' = Resting
    BY <1>1 DEF ReplacedBy
  <2> QED  BY <1>2, <2>1 DEF CatalogInv, RowsHeld, RefreshHeld, NothingHandedOut, Rows, RowKept
<1>3. CASE ~ (feed[refresh.feed] = "none" /\ (issued + 1)..m.next # {})
  <2>0. /\ proxy' = Remaining(m.rows, gone) /\ issued' = m.next
        /\ barred' = {d \in barred : d[2] \notin gone} \cup (reader \X ((issued + 1)..m.next))
        /\ opened' = {d \in opened : d[2] \notin gone}
        /\ UNCHANGED <<feed, reader>> /\ refresh' = Resting
    BY <1>1, <1>3 DEF ReplacedBy
  <2>1. Folded(m) /\ RowsHeld /\ NothingHandedOut /\ refresh.feed \in Feeds
    BY <1>1 DEF ReplacedBy, CatalogInv, RefreshHeld, Resting
  <2>2. /\ Rows' = (Rows \cup ((issued + 1)..m.next)) \ gone
        /\ proxy' = [p \in Rows' |-> proxy'[p]]
        /\ \A p \in Rows' : RowKept(proxy'[p]) /\ proxy'[p].feed = m.rows[p].feed
    <3>1. \A p \in DOMAIN m.rows : RowKept(m.rows[p])
      BY <2>1 DEF Folded
    <3>2. PICK r : r = Remaining(m.rows, gone)
      OBVIOUS
    <3>3. /\ DOMAIN r = DOMAIN m.rows \ gone /\ r = [p \in DOMAIN r |-> r[p]]
          /\ \A p \in DOMAIN r : RowKept(r[p]) /\ r[p].feed = m.rows[p].feed
      <4>1. LeftOf(r, m.rows, gone)
        BY <3>1, <3>2, RemainingParts
      <4> QED  BY <4>1 DEF LeftOf
    <3> QED  BY <2>0, <2>1, <3>2, <3>3 DEF Rows, Folded
  <2>3. ASSUME NEW p \in Rows' PROVE proxy'[p].feed \in Feeds /\ feed'[proxy'[p].feed] # "none"
    <3>1. CASE p \in Rows
      BY <2>0, <2>1, <2>2, <3>1 DEF Folded, RowsHeld
    <3>2. CASE p \in (issued + 1)..m.next
      BY <1>3, <2>0, <2>1, <2>2, <3>2 DEF Folded
    <3> QED  BY <2>2, <3>1, <3>2
  <2>4. issued' \in Nat /\ Rows' \subseteq 1..issued'
    BY <2>0, <2>1, <2>2 DEF Folded, RowsHeld
  <2>5. RowsHeld'
    <3>1. feed' = [f \in Feeds |-> feed'[f]]
      BY <2>0, <2>1 DEF RowsHeld
    <3> QED  BY <2>2, <2>3, <2>4, <3>1 DEF RowsHeld, RowKept
  <2>6. RefreshHeld'
    BY <2>0 DEF RefreshHeld
  <2>7. ASSUME NEW u \in reader', NEW p \in Rows', <<u, p>> \notin barred' PROVE <<u, p>> \in opened'
    <3>1. <<u, p>>[2] = p /\ p \notin gone /\ u \in reader
      BY <2>0, <2>2
    <3>2. CASE p \in (issued + 1)..m.next
      BY <2>0, <2>7, <3>1, <3>2
    <3>3. CASE p \in Rows
      <4>1. <<u, p>> \notin barred
        BY <2>0, <2>7, <3>1
      <4>2. <<u, p>> \in opened
        BY <2>1, <3>1, <3>3, <4>1 DEF NothingHandedOut
      <4> QED  BY <2>0, <3>1, <4>2
    <3> QED  BY <2>2, <3>2, <3>3
  <2>8. NothingHandedOut'
    BY <2>7 DEF NothingHandedOut
  <2> QED  BY <2>5, <2>6, <2>8 DEF CatalogInv
<1> QED  BY <1>1, <1>2, <1>3 DEF ReplacedBy

\* Sources come, go and are fetched; a source takes its rows along.
LEMMA SourcesSafe ==
    ASSUME CatalogInv,
           \/ \E f \in Feeds : \/ Refresh(f) \/ DeleteExternalSub(f) \/ createExternal(f)
                               \/ \E s \in {"on", "off"} : updateExternal(f, s)
           \/ FetchFails \/ \E offer \in Offers : Fetched(offer)
    PROVE  CatalogInv'
<1> USE DEF CatalogInv
<1>1. ASSUME NEW f \in Feeds, DeleteExternalSub(f) PROVE CatalogInv'
  <2>1. PICK gone : gone = {p \in Rows : proxy[p].feed = f}
    OBVIOUS
  <2>2. /\ proxy' = Remaining(proxy, gone) /\ barred' = {d \in barred : d[2] \notin gone}
        /\ opened' = {d \in opened : d[2] \notin gone}
        /\ feed' = [feed EXCEPT ![f] = "none"] /\ UNCHANGED <<issued, reader, refresh>>
    BY <1>1, <2>1 DEF DeleteExternalSub, DeleteRows
  <2>3. /\ Rows' = Rows \ gone /\ proxy' = [p \in Rows' |-> proxy'[p]]
        /\ \A p \in Rows' : RowKept(proxy'[p]) /\ proxy'[p].feed = proxy[p].feed
    <3>1. \A p \in DOMAIN proxy : RowKept(proxy[p])
      BY DEF RowsHeld, Rows
    <3>2. PICK r : r = Remaining(proxy, gone)
      OBVIOUS
    <3>3. /\ DOMAIN r = DOMAIN proxy \ gone /\ r = [p \in DOMAIN r |-> r[p]]
          /\ \A p \in DOMAIN r : RowKept(r[p]) /\ r[p].feed = proxy[p].feed
      <4>1. LeftOf(r, proxy, gone)
        BY <3>1, <3>2, RemainingParts
      <4> QED  BY <4>1 DEF LeftOf
    <3> QED  BY <2>2, <3>2, <3>3 DEF Rows
  <2>4. RowsHeld'
    <3>1. \A p \in Rows' : proxy'[p].feed \in Feeds /\ feed'[proxy'[p].feed] # "none"
      BY <2>1, <2>2, <2>3 DEF RowsHeld
    <3>2. feed' = [g \in Feeds |-> feed'[g]] /\ issued' \in Nat /\ Rows' \subseteq 1..issued'
      BY <2>2, <2>3 DEF RowsHeld
    <3> QED  BY <2>3, <3>1, <3>2 DEF RowsHeld, RowKept
  <2>5. RefreshHeld'
    BY <2>2, <2>3 DEF RefreshHeld, RowKept
  <2>6. NothingHandedOut'
    BY <2>2, <2>3 DEF NothingHandedOut
  <2> QED  BY <2>4, <2>5, <2>6
<1>2. ASSUME NEW f \in Feeds, createExternal(f) \/ \E s \in {"on", "off"} : updateExternal(f, s)
      PROVE  CatalogInv'
  <2>1. PICK s \in {"on", "off"} : feed' = [feed EXCEPT ![f] = s]
    BY <1>2 DEF createExternal, updateExternal
  <2>2. UNCHANGED <<proxy, issued, reader, barred, refresh, opened, Rows>>
    BY <1>2 DEF createExternal, updateExternal, Rows
  <2>3. RowsHeld'
    BY <2>1, <2>2 DEF RowsHeld, RowKept
  <2>4. RefreshHeld' /\ NothingHandedOut'
    BY <2>2 DEF RefreshHeld, NothingHandedOut, RowKept
  <2> QED  BY <2>3, <2>4
<1>3. ASSUME UNCHANGED <<feed, proxy, issued, reader, barred, opened>>, RefreshHeld' PROVE CatalogInv'
  BY <1>3 DEF RowsHeld, NothingHandedOut, Rows, RowKept
<1>4. ASSUME NEW f \in Feeds, Refresh(f) PROVE CatalogInv'
  BY <1>3, <1>4 DEF Refresh, RefreshHeld
<1>5. CASE FetchFails
  BY <1>3, <1>5 DEF FetchFails, RefreshHeld
<1>6. ASSUME NEW offer \in Offers, Fetched(offer) PROVE CatalogInv'
  <2>1. PICK f \in Feeds : f = refresh.feed
    BY <1>6 DEF Fetched, RefreshHeld, Resting
  <2>2. PICK old : old = ExternalProxies(f)
    OBVIOUS
  <2>3. refresh' = [step |-> "replace", feed |-> f, offer |-> offer, old |-> old]
    BY <1>6, <2>1, <2>2 DEF Fetched
  <2>4. /\ DOMAIN old \subseteq Rows
        /\ \A p \in DOMAIN old : old[p] = proxy[p] /\ proxy[p].feed = f
    BY <2>2 DEF ExternalProxies
  <2>5. UNCHANGED <<feed, proxy, issued, reader, barred, opened, Rows>>
    BY <1>6 DEF Fetched, Rows
  <2>6. RefreshHeld'
    BY <2>3, <2>4, <2>5 DEF RefreshHeld, RowsHeld, RowKept
  <2> QED  BY <1>3, <2>5, <2>6
<1> QED  BY <1>1, <1>2, <1>4, <1>5, <1>6

\* Subscribers, nodes and the operators' decisions: a new subscriber is barred everywhere, and
\* what an operator opens is remembered as opened.
LEMMA PeopleSafe == ASSUME CatalogInv, PeopleStep PROVE CatalogInv'
<1> USE DEF CatalogInv
<1>1. ASSUME UNCHANGED <<feed, proxy, issued, refresh>>, NothingHandedOut' PROVE CatalogInv'
  BY <1>1 DEF RowsHeld, RefreshHeld, Rows, RowKept
<1>2. ASSUME NEW u \in Readers, CreateUser(u) \/ DeleteUser(u) PROVE CatalogInv'
  <2>1. UNCHANGED <<feed, proxy, issued, refresh, Rows>>
    BY <1>2 DEF CreateUser, DeleteUser, Rows
  <2>2. CASE CreateUser(u)
    BY <1>1, <2>1, <2>2 DEF CreateUser, NothingHandedOut
  <2>3. CASE DeleteUser(u)
    BY <1>1, <2>1, <2>3 DEF DeleteUser, NothingHandedOut
  <2> QED  BY <1>2, <2>2, <2>3
<1>3. ASSUME NEW p \in Rows, NEW S \in SUBSET reader, SetExternalProxyAccess(p, S) PROVE CatalogInv'
  <2>1. UNCHANGED <<feed, proxy, issued, refresh, Rows, reader>>
    BY <1>3 DEF SetExternalProxyAccess, Rows
  <2>2. NothingHandedOut'
    BY <1>3, <2>1 DEF SetExternalProxyAccess, NothingHandedOut
  <2> QED  BY <1>1, <2>1, <2>2
<1>4. ASSUME NEW n \in Carriers, DeleteNode(n) PROVE CatalogInv'
  <2>1. /\ Rows' = Rows /\ proxy' = [p \in Rows |-> proxy'[p]]
        /\ UNCHANGED <<feed, issued, reader, barred, refresh, opened>>
    BY <1>4 DEF DeleteNode, Rows
  <2>2. ASSUME NEW p \in Rows PROVE RowKept(proxy'[p]) /\ proxy'[p].feed = proxy[p].feed
    <3>1. PICK x : x = proxy[p] /\ RowKept(x)
      BY DEF RowsHeld
    <3>2. proxy'[p] = x \/ proxy'[p] = [x EXCEPT !.chain = Direct]
      BY <1>4, <3>1 DEF DeleteNode
    <3>3. CASE proxy'[p] = [x EXCEPT !.chain = Direct]
      <4>1. proxy'[p] = [feed |-> x.feed, name |-> x.name, end |-> x.end, ord |-> x.ord,
                         chain |-> Direct, on |-> x.on, exposed |-> x.exposed]
        BY <3>1, <3>3 DEF RowKept
      <4> QED  BY <3>1, <4>1 DEF RowKept
    <3> QED  BY <3>1, <3>2, <3>3
  <2>3. RowsHeld'
    BY <2>1, <2>2 DEF RowsHeld, RowKept
  <2>4. RefreshHeld' /\ NothingHandedOut'
    BY <2>1, <2>2 DEF RefreshHeld, NothingHandedOut, RowKept
  <2> QED  BY <2>3, <2>4
<1> QED  BY <1>2, <1>3, <1>4 DEF PeopleStep

\* An edit changes a row the operator names, and nothing about who may use it.
LEMMA EditSafe == ASSUME CatalogInv, NEW e \in Editors, EditStep(e) PROVE CatalogInv'
<1> USE DEF CatalogInv
<1>1. UNCHANGED <<feed, issued, reader, barred, refresh, opened>>
  BY DEF EditStep, setExternalProxy, SetExternalProxyExposed, checkExternalChain, SetExternalProxy
<1>2. CASE UNCHANGED proxy
  BY <1>1, <1>2 DEF RowsHeld, RefreshHeld, NothingHandedOut, Rows, RowKept
<1>3. ASSUME NEW rw \in Rows, NEW x, RowKept(x), x.feed = proxy[rw].feed,
             proxy' = [proxy EXCEPT ![rw] = x]
      PROVE  CatalogInv'
  <2>1. Rows' = Rows /\ proxy' = [p \in Rows |-> proxy'[p]]
    BY <1>3 DEF Rows
  <2>2. \A p \in Rows : RowKept(proxy'[p]) /\ proxy'[p].feed = proxy[p].feed
    BY <1>3 DEF RowsHeld, Rows
  <2>3. RowsHeld'
    BY <1>1, <2>1, <2>2 DEF RowsHeld, RowKept
  <2>4. RefreshHeld' /\ NothingHandedOut'
    BY <1>1, <2>1, <2>2 DEF RefreshHeld, NothingHandedOut, RowKept
  <2> QED  BY <2>3, <2>4
<1>4. PICK c : c = edit[e]
  OBVIOUS
<1>5. ASSUME c.row \in Rows PROVE RowKept(proxy[c.row]) /\ proxy = [p \in Rows |-> proxy[p]]
  BY <1>5 DEF RowsHeld
<1>6. CASE SetExternalProxyExposed(e)
  <2>1. \/ c.row \in Rows /\ proxy' = [proxy EXCEPT ![c.row].exposed = c.exposed]
        \/ UNCHANGED proxy
    BY <1>4, <1>6 DEF SetExternalProxyExposed
  <2>2. CASE c.row \in Rows /\ proxy' = [proxy EXCEPT ![c.row].exposed = c.exposed]
    <3>1. PICK w : w = proxy[c.row] /\ RowKept(w)
      BY <1>5, <2>2
    <3>2. PICK x : x = [w EXCEPT !.exposed = c.exposed]
      OBVIOUS
    <3>3. x = [feed |-> w.feed, name |-> w.name, end |-> w.end, ord |-> w.ord, chain |-> w.chain,
               on |-> w.on, exposed |-> c.exposed]
      BY <3>1, <3>2 DEF RowKept
    <3>4. RowKept(x) /\ x.feed = proxy[c.row].feed
      BY <3>1, <3>3 DEF RowKept
    <3>5. proxy' = [proxy EXCEPT ![c.row] = x]
      BY <2>2, <3>1, <3>2
    <3> QED  BY <1>3, <2>2, <3>4, <3>5
  <2> QED  BY <1>2, <2>1, <2>2
<1>7. CASE SetExternalProxy(e)
  <2>1. \/ c.row \in Rows /\ proxy' = [proxy EXCEPT ![c.row].chain = c.chain, ![c.row].on = c.on]
        \/ UNCHANGED proxy
    BY <1>4, <1>7 DEF SetExternalProxy
  <2>2. CASE c.row \in Rows /\ proxy' = [proxy EXCEPT ![c.row].chain = c.chain, ![c.row].on = c.on]
    <3>1. PICK w : w = proxy[c.row] /\ RowKept(w)
      BY <1>5, <2>2
    <3>2. PICK x : x = [feed |-> w.feed, name |-> w.name, end |-> w.end, ord |-> w.ord,
                        chain |-> c.chain, on |-> c.on, exposed |-> w.exposed]
      OBVIOUS
    <3>3. [[w EXCEPT !.chain = c.chain] EXCEPT !.on = c.on] = x
      <4>1. [w EXCEPT !.chain = c.chain] =
                [feed |-> w.feed, name |-> w.name, end |-> w.end, ord |-> w.ord,
                 chain |-> c.chain, on |-> w.on, exposed |-> w.exposed]
        BY <3>1 DEF RowKept
      <4>2. [[feed |-> w.feed, name |-> w.name, end |-> w.end, ord |-> w.ord,
              chain |-> c.chain, on |-> w.on, exposed |-> w.exposed] EXCEPT !.on = c.on] = x
        BY <3>2
      <4> QED  BY <4>1, <4>2
    <3>4. RowKept(x) /\ x.feed = proxy[c.row].feed
      BY <3>1, <3>2 DEF RowKept
    <3>5. proxy' = [proxy EXCEPT ![c.row] = x]
      <4>1. PICK q : q = [proxy EXCEPT ![c.row].chain = c.chain]
        OBVIOUS
      <4>2. proxy' = [q EXCEPT ![c.row].on = c.on]
        BY <2>2, <4>1
      <4>3. DOMAIN q = Rows /\ q[c.row] = [w EXCEPT !.chain = c.chain]
        BY <1>5, <2>2, <3>1, <4>1
      <4>4. proxy' = [q EXCEPT ![c.row] = x]
        BY <3>3, <4>2, <4>3
      <4> QED  BY <1>5, <2>2, <4>1, <4>3, <4>4
    <3> QED  BY <1>3, <2>2, <3>4, <3>5
  <2> QED  BY <1>2, <2>1, <2>2
<1>8. CASE checkExternalChain(e)
  BY <1>2, <1>8 DEF checkExternalChain
<1>9. ASSUME NEW p \in Rows, NEW chain, NEW on, NEW exposed, setExternalProxy(e, p, chain, on, exposed)
      PROVE  CatalogInv'
  BY <1>2, <1>9 DEF setExternalProxy
<1> QED  BY <1>6, <1>7, <1>8, <1>9 DEF EditStep

\* The three parts together.
LEMMA CatalogStep == ASSUME CatalogInv, [CatalogNext]_cvars PROVE CatalogInv'
<1>1. CASE UNCHANGED <<feed, proxy, issued, reader, barred, refresh, opened>>
  BY <1>1 DEF CatalogInv, RowsHeld, RefreshHeld, NothingHandedOut, Rows, RowKept
<1>2. CASE SourceStep
  BY <1>2, ReplaceSafe, SourcesSafe DEF SourceStep
<1>3. CASE PeopleStep
  BY <1>3, PeopleSafe
<1>4. CASE \E e \in Editors : EditStep(e)
  BY <1>4, EditSafe
<1>5. CASE PageStep
  BY <1>1, <1>5 DEF PageStep, externalFragments, ReadProxies, Serve, DropUnresolved
<1>6. CASE UNCHANGED cvars
  BY <1>1, <1>6 DEF cvars
<1> QED  BY <1>2, <1>3, <1>4, <1>5, <1>6 DEF CatalogNext

\* Nothing is offered and nothing is opened at first.
LEMMA CatalogInitial == CatalogInit => CatalogInv
<1> SUFFICES ASSUME CatalogInit PROVE CatalogInv
  OBVIOUS
<1>1. Rows = {} /\ proxy = [p \in {} |-> proxy[p]]
  BY DEF CatalogInit, Rows
<1>2. RowsHeld
  BY <1>1 DEF CatalogInit, RowsHeld
<1> QED  BY <1>1, <1>2 DEF CatalogInit, CatalogInv, RefreshHeld, NothingHandedOut

\* Whoever may use a row of another provider was given it by an operator: a refresh bars the
\* rows it adds to every subscriber there is, an insert of a subscriber bars every row there
\* is, and row ids are never used again (ReplaceExternalProxies, CreateUser).
THEOREM HandedOutByOperators == CatalogSpec => []NothingHandedOut
<1>1. CatalogInit => CatalogInv
  BY CatalogInitial
<1>2. CatalogInv /\ [CatalogNext]_cvars => CatalogInv'
  BY CatalogStep
<1>3. CatalogInv => NothingHandedOut
  BY DEF CatalogInv
<1> QED  BY <1>1, <1>2, <1>3, PTL DEF CatalogSpec

-----------------------------------------------------------------------------
(* A refresh keeps what was decided about a proxy *)

\* The proxy at i and the row p are meant for each other, and for nothing else.
Related(o, r) == o.name = r.name \/ o.end = r.end
OnlyPair(i, p) ==
    /\ refresh.step = "replace" /\ refresh.offer \in Offers
    /\ i \in DOMAIN refresh.offer /\ p \in DOMAIN refresh.old /\ p \in Rows
    /\ Related(refresh.offer[i], refresh.old[p])
    /\ \A j \in DOMAIN refresh.offer : Related(refresh.offer[j], refresh.old[p]) => j = i
    /\ \A q \in DOMAIN refresh.old : Related(refresh.offer[i], refresh.old[q]) => q = p

\* Then the one is matched to the other, and nothing else is.
LEMMA MatchedOnce ==
    ASSUME CatalogInv, NEW i, NEW p, OnlyPair(i, p)
    PROVE  /\ match(refresh.old, refresh.offer[i]) = {p}
           /\ \A j \in DOMAIN refresh.offer : j # i => p \notin match(refresh.old, refresh.offer[j])
<1>1. PICK old : old = refresh.old
  OBVIOUS
<1>2. old[p].ord \in Nat /\ p \in DOMAIN old
  <2>1. p \in DOMAIN refresh.old /\ refresh.step = "replace"
    BY DEF OnlyPair
  <2>2. RowKept(refresh.old[p])
    BY <2>1 DEF CatalogInv, RefreshHeld, Resting
  <2> QED  BY <1>1, <2>1, <2>2 DEF RowKept
<1>3. Latest(old, {p}) = {p}
  BY <1>2 DEF Latest
<1>4. match(old, refresh.offer[i]) = {p}
  <2>1. PICK o : o = refresh.offer[i]
    OBVIOUS
  <2>2. PICK N, E : N = {q \in DOMAIN old : old[q].name = o.name} /\ E = {q \in DOMAIN old : old[q].end = o.end}
    OBVIOUS
  <2>3. Related(o, old[p]) /\ \A q \in DOMAIN old : Related(o, old[q]) => q = p
    BY <1>1, <2>1 DEF OnlyPair
  <2>4. (IF N # {} THEN N ELSE E) = {p}
    BY <1>2, <2>2, <2>3 DEF Related
  <2>5. match(old, o) = Latest(old, IF N # {} THEN N ELSE E)
    BY <2>2 DEF match
  <2> QED  BY <1>3, <2>1, <2>4, <2>5
<1>5. ASSUME NEW j \in DOMAIN refresh.offer, j # i PROVE p \notin match(old, refresh.offer[j])
  <2>1. PICK o : o = refresh.offer[j]
    OBVIOUS
  <2>2. ~ Related(o, old[p])
    BY <1>1, <1>5, <2>1 DEF OnlyPair
  <2>3. match(old, o) \subseteq {q \in DOMAIN old : Related(o, old[q])}
    BY DEF match, Latest, Related
  <2> QED  BY <2>1, <2>2, <2>3
<1> QED  BY <1>1, <1>4, <1>5

\* Where the fold is with that row: untouched before i, taken from i on.
TakenAt(acc, k, i, p) ==
    /\ k < i => p \notin acc.kept /\ acc.rows[p] = proxy[p]
    /\ k >= i => /\ p \in acc.kept /\ acc.rows[p].end = refresh.offer[i].end
                 /\ acc.rows[p].on = proxy[p].on

\* One more proxy.
LEMMA TakenOn ==
    ASSUME CatalogInv, NEW i \in Nat, NEW p, OnlyPair(i, p), NEW k \in Nat,
           k + 1 \in DOMAIN refresh.offer, NEW acc, Folded(acc), TakenAt(acc, k, i, p)
    PROVE  TakenAt(Take(acc, refresh.offer[k + 1], k + 1), k + 1, i, p)
<1>1. PICK o : o = refresh.offer[k + 1]
  OBVIOUS
<1>2. PICK P : P = match(refresh.old, o) \ acc.kept
  OBVIOUS
<1>3. PICK t : t = Take(acc, o, k + 1)
  OBVIOUS
<1>4. TookOne(acc, t, o, P)
  <2>1. k + 1 \in Nat /\ RowsHeld
    BY DEF CatalogInv
  <2> QED  BY <1>2, <1>3, <2>1, TakeParts, Zenon
<1>5. p \in DOMAIN acc.rows /\ p # acc.next + 1
  BY DEF OnlyPair, Folded, CatalogInv, RowsHeld
<1>6. CASE k + 1 = i
  <2>1. match(refresh.old, o) = {p} /\ p \notin acc.kept /\ acc.rows[p] = proxy[p]
    <3>1. match(refresh.old, refresh.offer[i]) = {p}
      BY MatchedOnce
    <3>2. k < i
      BY <1>6
    <3> QED  BY <1>1, <1>6, <3>1, <3>2 DEF TakenAt
  <2>2. P = {p}
    BY <1>2, <2>1
  <2>3. p \in t.kept /\ t.rows[p].end = o.end /\ t.rows[p].on = proxy[p].on
    BY <1>4, <1>5, <2>1, <2>2 DEF TookOne
  <2> QED  BY <1>1, <1>3, <1>6, <2>3 DEF TakenAt
<1>7. CASE k + 1 # i
  <2>1. p \notin match(refresh.old, o)
    BY <1>1, <1>7, MatchedOnce
  <2>2. p \notin P /\ t.rows[p] = acc.rows[p] /\ (p \in t.kept <=> p \in acc.kept)
    BY <1>2, <1>4, <1>5, <2>1 DEF TookOne
  <2>3. (k + 1 < i <=> k < i) /\ (k + 1 >= i <=> k >= i)
    BY <1>7
  <2>4. TakenAt(t, k + 1, i, p)
    BY <2>2, <2>3 DEF TakenAt
  <2> QED  BY <1>1, <1>3, <2>4
<1> QED  BY <1>6, <1>7

\* All of them.
LEMMA TakenByTheEnd ==
    ASSUME CatalogInv, NEW i \in Nat, NEW p, OnlyPair(i, p),
           NEW n \in Nat, DOMAIN refresh.offer = 1..n, NEW F, Folds(F, n), \A k \in 0..n : Folded(F[k])
    PROVE  TakenAt(F[n], n, i, p)
<1> DEFINE S == {k \in Nat : k <= n => TakenAt(F[k], k, i, p)}
<1>1. \A k \in 0..n : F[k] = IF k = 0 THEN Untouched ELSE Take(F[k - 1], refresh.offer[k], k)
  BY DEF Folds
<1>2. 0 \in S
  <2>1. F[0] = Untouched /\ i # 0
    BY <1>1 DEF OnlyPair
  <2> QED  BY <2>1 DEF TakenAt, Untouched
<1>3. ASSUME NEW k \in Nat, k \in S PROVE k + 1 \in S
  <2> SUFFICES ASSUME k + 1 <= n PROVE TakenAt(F[k + 1], k + 1, i, p)
    OBVIOUS
  <2>1. /\ F[k + 1] = Take(F[k], refresh.offer[k + 1], k + 1) /\ Folded(F[k])
        /\ TakenAt(F[k], k, i, p) /\ k + 1 \in DOMAIN refresh.offer
    BY <1>1, <1>3
  <2>2. TakenAt(Take(F[k], refresh.offer[k + 1], k + 1), k + 1, i, p)
    BY <2>1, TakenOn, Zenon
  <2> QED  BY <2>1, <2>2
<1> HIDE DEF S
<1>4. Nat \subseteq S
  BY <1>2, <1>3, SetInduction
<1> QED  BY <1>4 DEF S

\* The transaction leaves that row its decisions.
LEMMA ReplaceKeeps ==
    ASSUME CatalogInv, ReplaceExternalProxies, NEW i, NEW p, OnlyPair(i, p)
    PROVE  /\ p \in DOMAIN proxy' /\ proxy'[p].end = refresh.offer[i].end
           /\ proxy'[p].on = proxy[p].on
           /\ \A u \in reader : <<u, p>> \in barred' <=> <<u, p>> \in barred
<1>1. PICK F, m, gone : ReplacedBy(F, m, gone)
  BY ReplaceParts
<1>2. PICK n \in Nat : n = Len(refresh.offer) /\ DOMAIN refresh.offer = 1..n
  BY CatalogAssumption DEF OnlyPair
<1>3. TakenAt(m, n, i, p) /\ i \in 1..n
  <2>1. i \in Nat /\ i \in 1..n
    BY <1>2 DEF OnlyPair
  <2>2. Folds(F, n) /\ (\A k \in 0..n : Folded(F[k])) /\ m = F[n]
    BY <1>1, <1>2 DEF ReplacedBy
  <2> QED  BY <1>2, <2>1, <2>2, TakenByTheEnd
<1>4. p \in m.kept /\ m.rows[p].end = refresh.offer[i].end /\ m.rows[p].on = proxy[p].on
  BY <1>2, <1>3 DEF TakenAt
<1>5. p \notin gone /\ p \in Rows /\ p \in DOMAIN m.rows
  BY <1>1, <1>4 DEF ReplacedBy, OnlyPair, Folded
<1>6. feed[refresh.feed] # "none"
  <2>1. p \in Rows \cap DOMAIN refresh.old /\ refresh.step = "replace"
    BY DEF OnlyPair
  <2>2. proxy[p].feed = refresh.feed
    BY <2>1 DEF CatalogInv, RefreshHeld, Resting
  <2> QED  BY <2>1, <2>2 DEF CatalogInv, RowsHeld
<1>7. /\ proxy' = Remaining(m.rows, gone)
      /\ barred' = {d \in barred : d[2] \notin gone} \cup (reader \X ((issued + 1)..m.next))
  BY <1>1, <1>6 DEF ReplacedBy
<1>8. PICK r : r = Remaining(m.rows, gone)
  OBVIOUS
<1>9. LeftOf(r, m.rows, gone)
  <2>1. \A q \in DOMAIN m.rows : RowKept(m.rows[q])
    BY <1>1 DEF ReplacedBy, Folded
  <2> QED  BY <1>8, <2>1, RemainingParts
<1>10. p \in DOMAIN r /\ r[p].end = m.rows[p].end /\ r[p].on = m.rows[p].on
  BY <1>5, <1>9 DEF LeftOf
<1>11. p \notin (issued + 1)..m.next
  BY <1>1, <1>5 DEF ReplacedBy, Folded, CatalogInv, RowsHeld
<1>12. ASSUME NEW u \in reader PROVE <<u, p>> \in barred' <=> <<u, p>> \in barred
  BY <1>5, <1>7, <1>11
<1> QED  BY <1>4, <1>7, <1>8, <1>10, <1>12

\* A proxy that kept its name or its endpoint, and that no other proxy of the source could be
\* taken for, keeps its row through a refresh: its switch and who may use it, whatever was
\* edited or deleted between the reading of the rows and the transaction
\* (ReplaceExternalProxies).
THEOREM DecisionsKept == CatalogSpec => RefreshKeepsDecisions
<1>1. CatalogInit => CatalogInv
  BY CatalogInitial
<1>2. CatalogInv /\ [CatalogNext]_cvars => CatalogInv'
  BY CatalogStep
<1>3. CatalogInv /\ [CatalogNext]_cvars => [KeepsItsRow]_cvars
  <2> SUFFICES ASSUME CatalogInv, CatalogNext, refresh.step = "replace", refresh' = Resting
               PROVE  KeepsItsRow
    BY DEF KeepsItsRow
  <2>1. ReplaceExternalProxies
    <3>1. refresh' # refresh
      BY DEF Resting
    <3>2. refresh # Resting
      BY DEF Resting
    <3>3. SourceStep
      BY <3>1 DEF CatalogNext, PeopleStep, CreateUser, DeleteUser, SetExternalProxyAccess, DeleteNode,
             EditStep, setExternalProxy, SetExternalProxyExposed, checkExternalChain, SetExternalProxy,
             PageStep, externalFragments, ReadProxies, Serve, DropUnresolved
    <3> QED  BY <3>1, <3>2, <3>3 DEF SourceStep, Refresh, DeleteExternalSub, createExternal,
                updateExternal, FetchFails, Fetched
  <2>2. refresh.offer \in Offers
    BY DEF CatalogInv, RefreshHeld, Resting
  <2>3. ASSUME NEW i \in DOMAIN refresh.offer, NEW p \in DOMAIN refresh.old, p \in Rows,
               Related(refresh.offer[i], refresh.old[p]),
               \A j \in DOMAIN refresh.offer : Related(refresh.offer[j], refresh.old[p]) => j = i,
               \A q \in DOMAIN refresh.old : Related(refresh.offer[i], refresh.old[q]) => q = p
        PROVE  /\ p \in DOMAIN proxy' /\ proxy'[p].end = refresh.offer[i].end
               /\ proxy'[p].on = proxy[p].on
               /\ \A u \in reader : <<u, p>> \in barred' <=> <<u, p>> \in barred
    <3>1. OnlyPair(i, p)
      BY <2>2, <2>3 DEF OnlyPair
    <3> QED  BY <2>1, <3>1, ReplaceKeeps
  <2> QED  BY <2>3, Zenon DEF KeepsItsRow, Related
<1> QED  BY <1>1, <1>2, <1>3, PTL DEF CatalogSpec, RefreshKeepsDecisions

-----------------------------------------------------------------------------
(* The part of a document that carries other providers' nodes *)

\* Rows whose chains end among themselves, at a node of the document or nowhere.
HoldsUp(S) == \A p \in S : page.rows[p].chain \in S \cup page.names \cup {Direct}

\* While unresolved rows are dropped, no set of rows that holds itself up is touched.
PageHeld ==
    page.step \in {"resolve", "served"} =>
        /\ page = [step |-> page.step, for |-> page.for, names |-> page.names, rows |-> page.rows,
                   carried |-> page.carried]
        /\ page.carried \subseteq DOMAIN page.rows
        /\ \A S \in SUBSET DOMAIN page.rows : HoldsUp(S) => S \subseteq page.carried
        /\ page.step = "served" => HoldsUp(page.carried)

\* One step of a rendering.
LEMMA PageSafe == ASSUME PageHeld, PageStep PROVE PageHeld'
<1>1. ASSUME NEW u \in Readers, NEW names \in SUBSET Carriers, externalFragments(u, names)
      PROVE  PageHeld'
  BY <1>1 DEF externalFragments, PageHeld
<1>2. CASE ReadProxies
  <2>1. PICK kept : page' = [step |-> "resolve", for |-> page.for, names |-> page.names,
                             rows |-> [p \in kept |-> proxy[p]], carried |-> kept]
    BY <1>2 DEF ReadProxies
  <2>2. PICK r : r = [p \in kept |-> proxy[p]]
    OBVIOUS
  <2>3. DOMAIN r = kept
    BY <2>2
  <2>4. page' = [step |-> "resolve", for |-> page.for, names |-> page.names, rows |-> r, carried |-> kept]
    BY <2>1, <2>2
  <2> QED  BY <2>3, <2>4 DEF PageHeld
<1>3. CASE Serve
  <2>1. /\ page.step = "resolve" /\ (\A p \in page.carried : resolves(p))
        /\ page' = [page EXCEPT !.step = "served"]
    BY <1>3 DEF Serve
  <2>2. page' = [step |-> "served", for |-> page.for, names |-> page.names, rows |-> page.rows,
                 carried |-> page.carried]
    BY <2>1 DEF PageHeld
  <2>3. HoldsUp(page.carried)
    BY <2>1 DEF resolves, HoldsUp
  <2> QED  BY <2>1, <2>2, <2>3 DEF PageHeld, HoldsUp
<1>4. ASSUME NEW p \in page.carried, DropUnresolved(p) PROVE PageHeld'
  <2>1. /\ page.step = "resolve" /\ ~ resolves(p)
        /\ page' = [page EXCEPT !.carried = page.carried \ {p}]
    BY <1>4 DEF DropUnresolved
  <2>2. page' = [step |-> "resolve", for |-> page.for, names |-> page.names, rows |-> page.rows,
                 carried |-> page.carried \ {p}]
    BY <2>1 DEF PageHeld
  <2>3. ASSUME NEW S \in SUBSET DOMAIN page.rows, HoldsUp(S) PROVE S \subseteq page.carried \ {p}
    <3>1. S \subseteq page.carried
      BY <2>1, <2>3 DEF PageHeld
    <3>2. p \notin S
      BY <2>1, <2>3, <3>1 DEF resolves, HoldsUp
    <3> QED  BY <3>1, <3>2
  <2>4. page.carried \ {p} \subseteq DOMAIN page.rows
    BY <2>1 DEF PageHeld
  <2> QED  BY <2>2, <2>3, <2>4 DEF PageHeld, HoldsUp
<1> QED  BY <1>1, <1>2, <1>3, <1>4 DEF PageStep

\* What is served is the largest set of rows that holds itself up.
LEMMA PageResolves == PageHeld => DocumentResolves
<1> SUFFICES ASSUME PageHeld, page.step = "served"
             PROVE  page.carried = UNION {S \in SUBSET DOMAIN page.rows :
                        \A p \in S : page.rows[p].chain \in S \cup page.names \cup {Direct}}
  BY DEF DocumentResolves
<1>1. page.carried \in {S \in SUBSET DOMAIN page.rows : HoldsUp(S)}
  BY DEF PageHeld
<1>2. \A S \in {T \in SUBSET DOMAIN page.rows : HoldsUp(T)} : S \subseteq page.carried
  BY DEF PageHeld
<1>3. page.carried = UNION {S \in SUBSET DOMAIN page.rows : HoldsUp(S)}
  BY <1>1, <1>2
<1> QED  BY <1>3 DEF HoldsUp

\* Nobody else touches the page.
LEMMA PageStays ==
    ASSUME SourceStep \/ PeopleStep \/ (\E e \in Editors : EditStep(e)) PROVE page' = page
<1>1. CASE SourceStep
  BY <1>1 DEF SourceStep, Refresh, DeleteExternalSub, createExternal, updateExternal, FetchFails,
              ReplaceExternalProxies, Fetched
<1>2. CASE PeopleStep
  BY <1>2 DEF PeopleStep, CreateUser, DeleteUser, SetExternalProxyAccess, DeleteNode
<1>3. CASE \E e \in Editors : EditStep(e)
  BY <1>3 DEF EditStep, setExternalProxy, SetExternalProxyExposed, checkExternalChain, SetExternalProxy
<1> QED  BY <1>1, <1>2, <1>3

\* Dropping what does not resolve, one row at a time and in any order, ends at the same document:
\* the largest one in which every chain resolves (carried).
THEOREM DocumentsResolve == CatalogSpec => []DocumentResolves
<1>1. CatalogInit => PageHeld
  BY DEF CatalogInit, PageHeld, Resting
<1>2. PageHeld /\ [CatalogNext]_cvars => PageHeld'
  <2> SUFFICES ASSUME PageHeld, [CatalogNext]_cvars PROVE PageHeld'
    OBVIOUS
  <2>1. ASSUME page' = page PROVE PageHeld'
    BY <2>1 DEF PageHeld, HoldsUp
  <2>2. CASE UNCHANGED cvars
    BY <2>1, <2>2 DEF cvars
  <2> QED  BY <2>1, <2>2, PageSafe, PageStays DEF CatalogNext
<1>3. PageHeld => DocumentResolves
  BY PageResolves
<1> QED  BY <1>1, <1>2, <1>3, PTL DEF CatalogSpec
-----------------------------------------------------------------------------
(* Rule lists *)

\* A refresher's job, and the timer's round.
JobShaped(j) ==
    \/ j = NoJob
    \/ /\ \/ j = [step |-> "lock", set |-> j.set]
          \/ j = [step |-> "ini", set |-> j.set]
          \/ j = [step |-> "lists", set |-> j.set, left |-> j.left]
       /\ j.set \in Sets
RoutingShaped ==
    /\ ini = [s \in Sets |-> ini[s]] /\ job = [p \in Refreshers |-> job[p]]
    /\ \A p \in Refreshers : JobShaped(job[p])
    /\ all = [step |-> all.step, at |-> all.at, todo |-> all.todo, keep |-> all.keep,
              stale |-> all.stale]
    /\ all = NoRound \/ all.step \in {"next", "back", "prune"}

\* During a round only the timer refreshes, and only the set the round is at.
RoundAlone ==
    /\ all # NoRound => \A h \in Handlers : job[h] = NoJob
    /\ job["timer"] # NoJob => all.step = "back" /\ job["timer"].set = all.at

\* What a stored preset names is kept, unless the round still has to look at it.
ListsKept ==
    all.step \in {"next", "back", "prune"} =>
        /\ \A s \in Sets : Stored(s) =>
              \/ ListURLs(ini[s]) \subseteq all.keep
              \/ all.step # "prune" /\ s \in all.todo
              \/ all.step = "back" /\ s = all.at
        /\ all.step = "prune" => all.stale \cap all.keep = {}

\* The inductive invariant of Routing, without overlap.
RoutingInv == RoutingShaped /\ RoundAlone /\ ListsKept

\* What a step of Refresh may change: the refresher's job, and the set it is about.
Refreshes(p, j) ==
    /\ job[p] # NoJob /\ job' = [job EXCEPT ![p] = j] /\ all' = all /\ JobShaped(j)
    /\ j # NoJob => j.set = job[p].set
    /\ ini' = ini \/ \E x : ini' = [ini EXCEPT ![job[p].set] = x]

\* A step of Refresh is one of these.
LEMMA RefreshParts ==
    ASSUME RoutingInv, NEW p \in Refreshers,
           \/ Lock(p) \/ IniFails(p) \/ RefreshEnds(p)
           \/ \E x \in Presets : SaveRulesetFetch(p, x)
           \/ \E u \in Lists, ok \in BOOLEAN : refreshList(p, u, ok)
    PROVE  \E j : Refreshes(p, j)
<1>1. PICK w : w = job[p] /\ JobShaped(w)
  BY DEF RoutingInv, RoutingShaped
<1>2. JobShaped(NoJob)
  BY DEF JobShaped
<1>3. CASE Lock(p)
  <2>1. w = [step |-> "lock", set |-> w.set] /\ w.set \in Sets /\ w # NoJob
    BY <1>1, <1>3 DEF Lock, JobShaped, NoJob
  <2>2. PICK j : j = [step |-> "ini", set |-> w.set]
    OBVIOUS
  <2>3. [w EXCEPT !.step = "ini"] = j
    BY <2>1, <2>2
  <2>4. job' = [job EXCEPT ![p] = j] \/ job' = [job EXCEPT ![p] = NoJob]
    BY <1>1, <1>3, <2>3 DEF Lock, RoutingInv, RoutingShaped
  <2>5. all' = all /\ ini' = ini
    BY <1>3 DEF Lock
  <2>6. JobShaped(j) /\ j.set = w.set
    BY <2>1, <2>2 DEF JobShaped
  <2>7. Refreshes(p, j) \/ Refreshes(p, NoJob)
    BY <1>1, <1>2, <2>1, <2>4, <2>5, <2>6 DEF Refreshes
  <2> QED  BY <2>7
<1>4. CASE IniFails(p) \/ RefreshEnds(p)
  <2>1. /\ w.step \in {"ini", "lists"} /\ job' = [job EXCEPT ![p] = NoJob]
        /\ all' = all /\ ini' = ini
    BY <1>1, <1>4 DEF IniFails, RefreshEnds
  <2>2. w # NoJob
    BY <2>1 DEF NoJob
  <2>3. Refreshes(p, NoJob)
    BY <1>1, <1>2, <2>1, <2>2 DEF Refreshes
  <2> QED  BY <2>3
<1>5. ASSUME NEW x \in Presets, SaveRulesetFetch(p, x) PROVE \E j : Refreshes(p, j)
  <2>1. w = [step |-> "ini", set |-> w.set] /\ w.set \in Sets /\ w # NoJob
    BY <1>1, <1>5 DEF SaveRulesetFetch, JobShaped, NoJob
  <2>2. PICK j : j = [step |-> "lists", set |-> w.set, left |-> ListURLs(x)]
    OBVIOUS
  <2>3. job' = [job EXCEPT ![p] = j] /\ all' = all
    BY <1>1, <1>5, <2>2 DEF SaveRulesetFetch
  <2>4. ini' = ini \/ \E y : ini' = [ini EXCEPT ![job[p].set] = y]
    BY <1>5 DEF SaveRulesetFetch
  <2>5. JobShaped(j) /\ j.set = w.set
    BY <2>1, <2>2 DEF JobShaped
  <2>6. Refreshes(p, j)
    BY <1>1, <2>1, <2>3, <2>4, <2>5 DEF Refreshes
  <2> QED  BY <2>6
<1>6. ASSUME NEW u \in Lists, NEW ok \in BOOLEAN, refreshList(p, u, ok) PROVE \E j : Refreshes(p, j)
  <2>1. w = [step |-> "lists", set |-> w.set, left |-> w.left] /\ w.set \in Sets /\ w # NoJob
    BY <1>1, <1>6 DEF refreshList, JobShaped, NoJob
  <2>2. PICK j : j = [step |-> "lists", set |-> w.set, left |-> w.left \ {u}]
    OBVIOUS
  <2>3. [w EXCEPT !.left = w.left \ {u}] = j
    BY <2>1, <2>2
  <2>4. job' = [job EXCEPT ![p] = j] /\ all' = all /\ ini' = ini
    BY <1>1, <1>6, <2>3 DEF refreshList
  <2>5. JobShaped(j) /\ j.set = w.set
    BY <2>1, <2>2 DEF JobShaped
  <2>6. Refreshes(p, j)
    BY <1>1, <2>1, <2>4, <2>5 DEF Refreshes
  <2> QED  BY <2>6
<1> QED  BY <1>3, <1>4, <1>5, <1>6

\* A refresh changes at most the set the round is at.
LEMMA RefreshesSafe ==
    ASSUME RoutingInv, NEW p \in Refreshers, NEW j, Refreshes(p, j) PROVE RoutingInv'
<1>1. /\ job' = [q \in Refreshers |-> IF q = p THEN j ELSE job[q]] /\ all' = all /\ JobShaped(j)
      /\ job[p] # NoJob /\ (j # NoJob => j.set = job[p].set)
  BY DEF RoutingInv, RoutingShaped, Refreshes
<1>2. "timer" \in Refreshers /\ \A h \in Handlers : h \in Refreshers /\ h # "timer"
  BY RoutingAssumption DEF Refreshers
<1>3. /\ ini' = [s \in Sets |-> ini'[s]]
      /\ \A s \in Sets : ini'[s] = ini[s] \/ s = job[p].set
  BY DEF RoutingInv, RoutingShaped, Refreshes
<1>4. RoutingShaped'
  BY <1>1, <1>3 DEF RoutingInv, RoutingShaped, JobShaped
<1>5. RoundAlone'
  BY <1>1, <1>2 DEF RoutingInv, RoundAlone
<1>6. ListsKept'
  <2>1. CASE all = NoRound
    BY <1>1, <2>1 DEF ListsKept, NoRound
  <2>2. CASE all # NoRound
    <3>1. p = "timer" /\ all.step = "back" /\ job[p].set = all.at
      BY <1>1, <2>2 DEF RoutingInv, RoundAlone, Refreshers
    <3> QED  BY <1>1, <1>3, <3>1 DEF RoutingInv, ListsKept, Stored, Exists
  <2> QED  BY <2>1, <2>2
<1> QED  BY <1>4, <1>5, <1>6 DEF RoutingInv

\* The timer's round.
LEMMA TimerSafe == ASSUME RoutingInv, Overlap = FALSE, TimerStep PROVE RoutingInv'
<1>1. /\ "timer" \in Refreshers /\ (\A h \in Handlers : h \in Refreshers /\ h # "timer")
      /\ ini' = ini /\ DOMAIN job = Refreshers
  BY RoutingAssumption DEF Refreshers, TimerStep, RefreshAll, ReadBack, PruneRuleLists, RoundEnds,
                           NextSet, PruneOne, RoutingInv, RoutingShaped
<1>2. \A s \in Sets : Stored(s)' <=> Stored(s)
  BY <1>1 DEF Stored, Exists
<1>3. all = [step |-> all.step, at |-> all.at, todo |-> all.todo, keep |-> all.keep, stale |-> all.stale]
  BY DEF RoutingInv, RoutingShaped
<1>4. ASSUME job' = job, NEW st \in {"next", "back", "prune"}, NEW at, NEW todo, NEW kp, NEW stale,
             all' = [step |-> st, at |-> at, todo |-> todo, keep |-> kp, stale |-> stale],
             (st = "back" /\ at = all.at) \/ job["timer"] = NoJob, \A h \in Handlers : job[h] = NoJob
      PROVE  RoutingShaped' /\ RoundAlone'
  <2>1. RoutingShaped'
    BY <1>1, <1>4 DEF RoutingInv, RoutingShaped, JobShaped
  <2>2. RoundAlone'
    BY <1>4 DEF RoutingInv, RoundAlone
  <2> QED  BY <2>1, <2>2
<1>5. all # NoRound => \A h \in Handlers : job[h] = NoJob
  BY DEF RoutingInv, RoundAlone
<1>6. CASE RefreshAll
  <2>1. PICK todo : todo = {s \in Sets : Exists(s)}
    OBVIOUS
  <2>2. /\ job' = job /\ job["timer"] = NoJob /\ \A h \in Handlers : job[h] = NoJob
        /\ all' = [step |-> "next", at |-> Missing, todo |-> todo, keep |-> {}, stale |-> {}]
    BY <1>6, <2>1 DEF RefreshAll, NoRound
  <2>3. RoutingShaped' /\ RoundAlone'
    BY <1>4, <2>2
  <2>4. ListsKept'
    BY <1>1, <1>2, <2>1, <2>2 DEF ListsKept, Stored
  <2> QED  BY <2>3, <2>4 DEF RoutingInv
<1>7. CASE ReadBack
  <2>1. PICK kp : kp = keep(all.at)
    OBVIOUS
  <2>2. /\ job' = job /\ job["timer"] = NoJob /\ all.step = "back" /\ all # NoRound
        /\ all' = [all EXCEPT !.step = "next", !.keep = kp]
    BY <1>7, <2>1 DEF ReadBack, NoRound
  <2>3. all' = [step |-> "next", at |-> all.at, todo |-> all.todo, keep |-> kp, stale |-> all.stale]
    BY <1>3, <2>2
  <2>4. RoutingShaped' /\ RoundAlone'
    BY <1>4, <1>5, <2>2, <2>3
  <2>5. all.keep \subseteq kp /\ (Stored(all.at) => ListURLs(ini[all.at]) \subseteq kp)
    BY <2>1 DEF keep, listsOf
  <2>6. ListsKept'
    BY <1>1, <1>2, <2>2, <2>3, <2>5 DEF RoutingInv, ListsKept
  <2> QED  BY <2>4, <2>6 DEF RoutingInv
<1>8. CASE PruneRuleLists
  <2>1. PICK st : st = cached \ all.keep
    OBVIOUS
  <2>2. /\ job' = job /\ all.step = "next" /\ all.todo = {} /\ all # NoRound
        /\ all' = [all EXCEPT !.step = "prune", !.stale = st]
    BY <1>8, <2>1 DEF PruneRuleLists, NoRound
  <2>3. all' = [step |-> "prune", at |-> all.at, todo |-> all.todo, keep |-> all.keep, stale |-> st]
    BY <1>3, <2>2
  <2>4. RoutingShaped' /\ RoundAlone'
    <3>1. job["timer"] = NoJob
      BY <2>2 DEF RoutingInv, RoundAlone
    <3> QED  BY <1>4, <1>5, <2>2, <2>3, <3>1
  <2>5. ListsKept'
    BY <1>1, <1>2, <2>1, <2>2, <2>3 DEF RoutingInv, ListsKept
  <2> QED  BY <2>4, <2>5 DEF RoutingInv
<1>9. CASE RoundEnds
  <2>1. job' = job /\ all' = NoRound /\ all.step = "prune"
    BY <1>9 DEF RoundEnds
  <2>2. job["timer"] = NoJob
    BY <2>1 DEF RoutingInv, RoundAlone
  <2>3. RoutingShaped'
    BY <1>1, <2>1 DEF RoutingInv, RoutingShaped, JobShaped, NoRound
  <2>4. RoundAlone' /\ ListsKept'
    BY <2>1, <2>2 DEF RoundAlone, ListsKept, NoRound
  <2> QED  BY <2>3, <2>4 DEF RoutingInv
<1>10. ASSUME NEW s \in Sets, NextSet(s) PROVE RoutingInv'
  <2>1. /\ all' = [all EXCEPT !.step = "back", !.todo = all.todo \ {s}, !.at = s]
        /\ job' = [job EXCEPT !["timer"] = [step |-> "lock", set |-> s]]
        /\ all.step = "next" /\ all # NoRound
    BY <1>10 DEF NextSet, NoRound
  <2>2. all' = [step |-> "back", at |-> s, todo |-> all.todo \ {s}, keep |-> all.keep, stale |-> all.stale]
    BY <1>3, <2>1
  <2>3. PICK j : j = [step |-> "lock", set |-> s]
    OBVIOUS
  <2>4. JobShaped(j) /\ j.set = s
    BY <2>3 DEF JobShaped
  <2>5. job' = [p \in Refreshers |-> IF p = "timer" THEN j ELSE job[p]]
    BY <1>1, <2>1, <2>3 DEF RoutingInv, RoutingShaped
  <2>6. RoutingShaped'
    BY <1>1, <2>2, <2>4, <2>5 DEF RoutingInv, RoutingShaped, JobShaped
  <2>7. RoundAlone'
    BY <1>1, <1>5, <2>1, <2>2, <2>4, <2>5 DEF RoundAlone
  <2>8. ListsKept'
    BY <1>1, <1>2, <2>1, <2>2 DEF RoutingInv, ListsKept
  <2> QED  BY <2>6, <2>7, <2>8 DEF RoutingInv
<1>11. ASSUME NEW u \in Lists, PruneOne(u) PROVE RoutingInv'
  <2>1. /\ all' = [all EXCEPT !.stale = all.stale \ {u}] /\ job' = job
        /\ all.step = "prune" /\ all # NoRound
    BY <1>11 DEF PruneOne, NoRound
  <2>2. all' = [step |-> "prune", at |-> all.at, todo |-> all.todo, keep |-> all.keep,
                stale |-> all.stale \ {u}]
    BY <1>3, <2>1
  <2>3. RoutingShaped' /\ RoundAlone'
    <3>1. job["timer"] = NoJob
      BY <2>1 DEF RoutingInv, RoundAlone
    <3> QED  BY <1>4, <1>5, <2>1, <2>2, <3>1
  <2>4. ListsKept'
    BY <1>1, <1>2, <2>1, <2>2 DEF RoutingInv, ListsKept
  <2> QED  BY <2>3, <2>4 DEF RoutingInv
<1> QED  BY <1>6, <1>7, <1>8, <1>9, <1>10, <1>11 DEF TimerStep

\* Requests: a refresh waits for the round to end, a deletion does not.
LEMMA RulesetSafe == ASSUME RoutingInv, Overlap = FALSE, RulesetStep PROVE RoutingInv'
<1>1. ASSUME NEW s \in Sets, deleteRuleset(s) PROVE RoutingInv'
  <2>1. ini' = [t \in Sets |-> IF t = s THEN Absent ELSE ini[t]] /\ UNCHANGED <<job, all>>
    BY <1>1 DEF deleteRuleset, RoutingInv, RoutingShaped
  <2>2. \A t \in Sets : Stored(t)' => Stored(t) /\ ini'[t] = ini[t]
    BY <2>1 DEF Stored, Exists
  <2> QED  BY <2>1, <2>2 DEF RoutingInv, RoutingShaped, RoundAlone, ListsKept, JobShaped
<1>2. ASSUME NEW s \in Sets, NEW h \in Handlers, createOrRefresh(h, s) PROVE RoutingInv'
  <2>1. PICK j : j = [step |-> "lock", set |-> s]
    OBVIOUS
  <2>2. JobShaped(j) /\ j.set = s
    BY <2>1 DEF JobShaped
  <2>3. all = NoRound /\ all' = all
    BY <1>2 DEF createOrRefresh
  <2>4. job' = [p \in Refreshers |-> IF p = h THEN j ELSE job[p]] /\ h # "timer" /\ "timer" \in Refreshers
    BY <1>2, <2>1, RoutingAssumption DEF createOrRefresh, RoutingInv, RoutingShaped, Refreshers
  <2>5. ini' = [t \in Sets |-> ini'[t]]
    BY <1>2 DEF createOrRefresh, RoutingInv, RoutingShaped
  <2>6. RoutingShaped'
    BY <2>2, <2>3, <2>4, <2>5 DEF RoutingInv, RoutingShaped, JobShaped
  <2>7. RoundAlone' /\ ListsKept'
    BY <2>3, <2>4 DEF RoutingInv, RoundAlone, ListsKept, NoRound
  <2> QED  BY <2>6, <2>7 DEF RoutingInv
<1> QED  BY <1>1, <1>2 DEF RulesetStep

\* Every step.
LEMMA RoutingStep == ASSUME RoutingInv, Overlap = FALSE, [RoutingNext]_tvars PROVE RoutingInv'
<1>1. CASE RefreshStep
  BY <1>1, RefreshParts, RefreshesSafe DEF RefreshStep
<1>2. CASE TimerStep \/ RulesetStep
  BY <1>2, TimerSafe, RulesetSafe
<1>3. CASE UNCHANGED <<ini, job, all>>
  BY <1>3 DEF RoutingInv, RoutingShaped, RoundAlone, ListsKept, JobShaped, Stored, Exists
<1>4. CASE \E s \in Sets, names \in SUBSET Regions : routingFor(s, names)
  BY <1>3, <1>4 DEF routingFor
<1>5. CASE UNCHANGED tvars
  BY <1>3, <1>5 DEF tvars
<1> QED  BY <1>1, <1>2, <1>4, <1>5 DEF RoutingNext

\* A list a stored preset names is never pruned, as long as no request refreshes a set while the
\* timer's round is on: the round decides what to keep before it deletes (RefreshAll,
\* PruneRuleLists).
THEOREM ReferencedListsKept == ASSUME Overlap = FALSE PROVE RoutingSpec => PruneKeepsReferenced
<1>1. RoutingInit => RoutingInv
  <2> SUFFICES ASSUME RoutingInit PROVE RoutingInv
    OBVIOUS
  <2>1. "timer" \in Refreshers /\ \A h \in Handlers : h \in Refreshers
    BY DEF Refreshers
  <2> QED  BY <2>1 DEF RoutingInit, RoutingInv, RoutingShaped, RoundAlone, ListsKept, JobShaped, NoRound
<1>2. RoutingInv /\ [RoutingNext]_tvars => RoutingInv'
  BY RoutingStep
<1>3. RoutingInv /\ [RoutingNext]_tvars => [\A u \in cached \ cached' : u \notin Referenced]_tvars
  <2> SUFFICES ASSUME RoutingInv, RoutingNext, NEW u \in cached \ cached' PROVE u \notin Referenced
    OBVIOUS
  <2>1. PICK w \in Lists : PruneOne(w)
    BY DEF RoutingNext, RefreshStep, Lock, IniFails, SaveRulesetFetch, refreshList, RefreshEnds,
           TimerStep, RefreshAll, ReadBack, PruneRuleLists, RoundEnds, NextSet, RulesetStep,
           deleteRuleset, createOrRefresh, routingFor
  <2>2. all.step = "prune" /\ u \in all.stale
    BY <2>1 DEF PruneOne
  <2>3. u \notin all.keep /\ \A s \in Sets : Stored(s) => ListURLs(ini[s]) \subseteq all.keep
    BY <2>2 DEF RoutingInv, ListsKept
  <2> QED  BY <2>3 DEF Referenced
<1> QED  BY <1>1, <1>2, <1>3, PTL DEF RoutingSpec, PruneKeepsReferenced

-----------------------------------------------------------------------------
(* Subscriptions *)

\* What a document is rendered from holds no sealed value: ForClient drops the name wherever
\* some scope seals it, so a plain variable of that name does not bring it back.
LEMMA ClientContextClean ==
    ASSUME NEW g, NEW pr, NEW nd, NEW x \in DOMAIN ForClient(g, pr, nd)
    PROVE  ~ ForClient(g, pr, nd)[x]
<1>1. PICK vars : vars = Merge(g, pr, nd)
  OBVIOUS
<1>2. PICK c : c = [y \in DOMAIN vars \ secretNames(g, pr, nd) |-> vars[y]]
  OBVIOUS
<1>3. ForClient(g, pr, nd) = c
  BY <1>1, <1>2 DEF ForClient
<1>4. x \in DOMAIN vars /\ x \notin secretNames(g, pr, nd) /\ c[x] = vars[x]
  BY <1>2, <1>3
<1>5. /\ x \in DOMAIN g \cup DOMAIN pr \cup DOMAIN nd
      /\ vars[x] = IF x \in DOMAIN nd THEN nd[x] ELSE IF x \in DOMAIN pr THEN pr[x] ELSE g[x]
  BY <1>1, <1>4 DEF Merge
<1>6. ~ vars[x]
  <2>1. CASE x \in DOMAIN nd
    BY <1>4, <1>5, <2>1, Zenon DEF secretNames
  <2>2. CASE x \notin DOMAIN nd /\ x \in DOMAIN pr
    BY <1>4, <1>5, <2>2, Zenon DEF secretNames
  <2>3. CASE x \notin DOMAIN nd /\ x \notin DOMAIN pr
    BY <1>4, <1>5, <2>3, Zenon DEF secretNames
  <2> QED  BY <2>1, <2>2, <2>3
<1> QED  BY <1>3, <1>4, <1>6

\* The fields a document has at each step of its rendering.
SubShaped ==
    \/ sub = Idle
    \/ sub = [step |-> "profile", left |-> sub.left, denied |-> sub.denied, doc |-> sub.doc,
              skipped |-> sub.skipped]
    \/ sub = [step |-> "node", left |-> sub.left, denied |-> sub.denied, doc |-> sub.doc,
              skipped |-> sub.skipped, p |-> sub.p, refs |-> sub.refs, nodes |-> sub.nodes]
    \/ /\ sub = [step |-> "scopes", left |-> sub.left, denied |-> sub.denied, doc |-> sub.doc,
                 skipped |-> sub.skipped, p |-> sub.p, refs |-> sub.refs, nodes |-> sub.nodes,
                 n |-> sub.n, scopes |-> sub.scopes]
       /\ \/ sub.scopes = <<sub.scopes[1]>>
          \/ sub.scopes = <<sub.scopes[1], sub.scopes[2]>>
          \/ sub.scopes = <<sub.scopes[1], sub.scopes[2], sub.scopes[3]>>
    \/ sub = [step |-> "done", served |-> sub.served, doc |-> sub.doc, skipped |-> sub.skipped]

\* RenderPoint: the lines added are clean, and the line of the node itself is among them when
\* the template renders.
LEMMA RenderPointParts ==
    ASSUME SubShaped, RenderPoint,
           NEW context, context = ForClient(sub.scopes[1], sub.scopes[2], sub.scopes[3])
    PROVE  \E lines, skips :
              /\ sub' = [step |-> "node", left |-> sub.left, denied |-> sub.denied,
                         doc |-> sub.doc \cup lines, skipped |-> sub.skipped \cup skips,
                         p |-> sub.p, refs |-> sub.refs, nodes |-> sub.nodes]
              /\ \A l \in lines : ~ l.leaks
              /\ renders(sub.refs, context) =>
                    \E l \in lines : l.point = <<sub.p, sub.n>> /\ l.line = Own
<1>1. PICK out : out = renderPoint(context)
  OBVIOUS
<1>2. sub' = [step |-> "node", left |-> sub.left, denied |-> sub.denied,
              doc |-> sub.doc \cup out.doc, skipped |-> sub.skipped \cup out.skipped,
              p |-> sub.p, refs |-> sub.refs, nodes |-> sub.nodes]
  BY <1>1 DEF RenderPoint, pointDone
<1>3. ASSUME renders(sub.refs, context)
      PROVE  /\ \A l \in out.doc : ~ l.leaks
             /\ \E l \in out.doc : l.point = <<sub.p, sub.n>> /\ l.line = Own
  <2>1. PICK leaky \in BOOLEAN : leaky = \E x \in sub.refs : context[x]
    BY Zenon
  <2>2. ~ leaky
    <3>1. \A x \in sub.refs : x \in DOMAIN context
      BY <1>3 DEF renders
    <3>2. \A x \in sub.refs : ~ context[x]
      BY <3>1, ClientContextClean, Zenon
    <3> QED  BY <2>1, <3>2, Zenon
  <2>3. PICK L : L = {Own} \cup otherLines(sub.p, sub.n, sub.denied)
    OBVIOUS
  <2>4. PICK pt : pt = <<sub.p, sub.n>>
    OBVIOUS
  <2>5. out.doc = {[point |-> pt, line |-> l, leaks |-> leaky] : l \in L}
    <3>1. out = [doc |-> {[point |-> <<sub.p, sub.n>>, line |-> l,
                           leaks |-> \E x \in sub.refs : context[x]] :
                            l \in {Own} \cup otherLines(sub.p, sub.n, sub.denied)},
                 skipped |-> {}]
      BY <1>1, <1>3, Zenon DEF renderPoint
    <3>2. out = [doc |-> {[point |-> pt, line |-> l, leaks |-> leaky] : l \in L}, skipped |-> {}]
      BY <2>1, <2>3, <2>4, <3>1, Zenon
    <3> QED  BY <3>2
  <2>6. [point |-> pt, line |-> Own, leaks |-> leaky] \in out.doc
    BY <2>3, <2>5
  <2>7. \A l \in out.doc : ~ l.leaks
    BY <2>2, <2>5
  <2> QED  BY <2>4, <2>6, <2>7
<1>4. ASSUME ~ renders(sub.refs, context) PROVE out.doc = {}
  BY <1>1, <1>4 DEF renderPoint
<1> HIDE DEF renders
<1> QED  BY <1>2, <1>3, <1>4

\* The second and the third query's answer, appended.
LEMMA AppendSecond == ASSUME NEW a, NEW s PROVE Append(<<a>>, s) = <<a, s>>
<1>1. PICK t : t = Append(<<a>>, s)
  OBVIOUS
<1>2. <<a>> \in Seq({a, s}) /\ s \in {a, s}
  OBVIOUS
<1>3. t \in Seq({a, s}) /\ Len(t) = 2 /\ t[1] = a /\ t[2] = s
  BY <1>1, <1>2
<1>4. t = <<a, s>>
  <2> HIDE <1>1
  <2> QED  BY <1>3
<1> QED  BY <1>1, <1>4

\* The same of two answers and a third.
LEMMA AppendThird == ASSUME NEW a, NEW b, NEW s PROVE Append(<<a, b>>, s) = <<a, b, s>>
<1>1. PICK t : t = Append(<<a, b>>, s)
  OBVIOUS
<1>2. <<a, b>> \in Seq({a, b, s}) /\ s \in {a, b, s}
  OBVIOUS
<1>3. t \in Seq({a, b, s}) /\ Len(t) = 3 /\ t[1] = a /\ t[2] = b /\ t[3] = s
  BY <1>1, <1>2
<1>4. t = <<a, b, s>>
  <2> HIDE <1>1
  <2> QED  BY <1>3
<1> QED  BY <1>1, <1>4

\* Every other step leaves the document alone or starts an empty one.
SubscriptionInv == SubShaped /\ SecretStaysHome

\* The steps of a rendering, one at a time.
LEMMA RenderSafe == ASSUME SubscriptionInv, RenderStep PROVE SubscriptionInv'
<1> USE DEF SubscriptionInv
<1>1. CASE RenderBegins
  <2>1. sub' = [step |-> "profile", left |-> entitled, denied |-> withheld, doc |-> {}, skipped |-> {}]
    BY <1>1 DEF RenderBegins
  <2> QED  BY <2>1 DEF SubShaped, SecretStaysHome, Idle
<1>2. CASE NextProfile
  <2>1. sub' = [step |-> "profile", left |-> sub.left, denied |-> sub.denied, doc |-> sub.doc,
                skipped |-> sub.skipped] /\ sub.step = "node"
    BY <1>2 DEF NextProfile
  <2> QED  BY <2>1 DEF SubShaped, SecretStaysHome
<1>3. CASE serveSubscription
  <2>1. PICK given : sub' = [step |-> "done", served |-> given, doc |-> sub.doc, skipped |-> sub.skipped]
    BY <1>3, Zenon DEF serveSubscription
  <2>2. sub.step = "profile"
    BY <1>3 DEF serveSubscription
  <2> QED  BY <2>1, <2>2 DEF SubShaped, SecretStaysHome
<1>4. ASSUME NEW p \in Profiles, OpenProfile(p) PROVE SubscriptionInv'
  <2>1. sub.step = "profile" /\ SecretStaysHome
    BY <1>4 DEF OpenProfile
  <2>2. sub = [step |-> "profile", left |-> sub.left, denied |-> sub.denied, doc |-> sub.doc,
               skipped |-> sub.skipped]
    BY <2>1 DEF SubShaped, Idle
  <2>3. \/ \E refs, nodes : sub' = [step |-> "node", left |-> sub.left \ {p}, denied |-> sub.denied,
              doc |-> sub.doc, skipped |-> sub.skipped, p |-> p, refs |-> refs, nodes |-> nodes]
        \/ sub' = [sub EXCEPT !.left = @ \ {p}]
    BY <1>4 DEF OpenProfile
  <2>4. CASE sub' = [sub EXCEPT !.left = @ \ {p}]
    <3>1. sub' = [step |-> "profile", left |-> sub.left \ {p}, denied |-> sub.denied, doc |-> sub.doc,
                  skipped |-> sub.skipped]
      BY <2>2, <2>4
    <3> QED  BY <2>1, <3>1 DEF SubShaped, SecretStaysHome
  <2>5. ASSUME NEW refs, NEW nodes,
               sub' = [step |-> "node", left |-> sub.left \ {p}, denied |-> sub.denied,
                       doc |-> sub.doc, skipped |-> sub.skipped, p |-> p, refs |-> refs, nodes |-> nodes]
        PROVE  SubscriptionInv'
    BY <2>1, <2>5 DEF SubShaped, SecretStaysHome
  <2> QED  BY <2>3, <2>4, <2>5
<1>5. ASSUME NEW n \in Machines, OpenPoint(n) PROVE SubscriptionInv'
  <2>1. sub.step = "node" /\ SecretStaysHome
    BY <1>5 DEF OpenPoint
  <2>2. sub = [step |-> "node", left |-> sub.left, denied |-> sub.denied, doc |-> sub.doc,
               skipped |-> sub.skipped, p |-> sub.p, refs |-> sub.refs, nodes |-> sub.nodes]
    BY <2>1 DEF SubShaped, Idle
  <2>3. PICK g : g = ScopeVariables(Global)
    OBVIOUS
  <2>4. \/ sub' = [step |-> "scopes", left |-> sub.left, denied |-> sub.denied, doc |-> sub.doc,
                   skipped |-> sub.skipped, p |-> sub.p, refs |-> sub.refs,
                   nodes |-> sub.nodes \ {n}, n |-> n, scopes |-> <<g>>]
        \/ sub' = [sub EXCEPT !.nodes = @ \ {n}]
    BY <1>5, <2>3 DEF OpenPoint
  <2>5. CASE sub' = [sub EXCEPT !.nodes = @ \ {n}]
    <3>1. sub' = [step |-> "node", left |-> sub.left, denied |-> sub.denied, doc |-> sub.doc,
                  skipped |-> sub.skipped, p |-> sub.p, refs |-> sub.refs, nodes |-> sub.nodes \ {n}]
      BY <2>2, <2>5
    <3> QED  BY <2>1, <3>1 DEF SubShaped, SecretStaysHome
  <2>6. CASE sub' = [step |-> "scopes", left |-> sub.left, denied |-> sub.denied, doc |-> sub.doc,
                   skipped |-> sub.skipped, p |-> sub.p, refs |-> sub.refs,
                   nodes |-> sub.nodes \ {n}, n |-> n, scopes |-> <<g>>]
    BY <2>1, <2>6 DEF SubShaped, SecretStaysHome
  <2> QED  BY <2>4, <2>5, <2>6
<1>6. CASE ReadScope
  <2>1. PICK s : sub' = [sub EXCEPT !.scopes = Append(sub.scopes, s)] /\ sub.step = "scopes"
    BY <1>6 DEF ReadScope
  <2>2. sub = [step |-> "scopes", left |-> sub.left, denied |-> sub.denied, doc |-> sub.doc,
               skipped |-> sub.skipped, p |-> sub.p, refs |-> sub.refs, nodes |-> sub.nodes,
               n |-> sub.n, scopes |-> sub.scopes]
    BY <2>1 DEF SubShaped, Idle
  <2>3. sub' = [step |-> "scopes", left |-> sub.left, denied |-> sub.denied, doc |-> sub.doc,
                skipped |-> sub.skipped, p |-> sub.p, refs |-> sub.refs, nodes |-> sub.nodes,
                n |-> sub.n, scopes |-> Append(sub.scopes, s)]
    BY <2>1, <2>2
  <2>4. \/ sub.scopes = <<sub.scopes[1]>>
        \/ sub.scopes = <<sub.scopes[1], sub.scopes[2]>>
        \/ sub.scopes = <<sub.scopes[1], sub.scopes[2], sub.scopes[3]>>
    BY <2>1 DEF SubShaped, Idle
  <2>5. Len(sub.scopes) < 3
    BY <1>6 DEF ReadScope
  <2>6. sub'.scopes = <<sub'.scopes[1], sub'.scopes[2]>>
        \/ sub'.scopes = <<sub'.scopes[1], sub'.scopes[2], sub'.scopes[3]>>
    <3>1. CASE sub.scopes = <<sub.scopes[1]>>
      <4>1. PICK a : sub.scopes = <<a>>
        BY <3>1
      <4>2. Append(<<a>>, s) = <<a, s>>
        BY AppendSecond
      <4>3. sub'.scopes = <<a, s>>
        BY <2>3, <4>1, <4>2
      <4> QED  BY <4>3
    <3>2. CASE sub.scopes = <<sub.scopes[1], sub.scopes[2]>>
      <4>1. PICK a, b : sub.scopes = <<a, b>>
        BY <3>2
      <4>2. Append(<<a, b>>, s) = <<a, b, s>>
        BY AppendThird
      <4>3. sub'.scopes = <<a, b, s>>
        BY <2>3, <4>1, <4>2
      <4> QED  BY <4>3
    <3>3. CASE sub.scopes = <<sub.scopes[1], sub.scopes[2], sub.scopes[3]>>
      BY <2>5, <3>3
    <3> QED  BY <2>4, <3>1, <3>2, <3>3
  <2>7. sub' = [step |-> "scopes", left |-> sub'.left, denied |-> sub'.denied, doc |-> sub'.doc,
                skipped |-> sub'.skipped, p |-> sub'.p, refs |-> sub'.refs, nodes |-> sub'.nodes,
                n |-> sub'.n, scopes |-> sub'.scopes] /\ sub'.doc = sub.doc
    BY <2>3
  <2>8. SubShaped'
    BY <2>6, <2>7 DEF SubShaped
  <2> QED  BY <2>1, <2>7, <2>8 DEF SecretStaysHome
<1>7. CASE RenderPoint
  <2>1. PICK context : context = ForClient(sub.scopes[1], sub.scopes[2], sub.scopes[3])
    OBVIOUS
  <2>2. PICK lines, skips :
              /\ sub' = [step |-> "node", left |-> sub.left, denied |-> sub.denied,
                         doc |-> sub.doc \cup lines, skipped |-> sub.skipped \cup skips,
                         p |-> sub.p, refs |-> sub.refs, nodes |-> sub.nodes]
              /\ \A l \in lines : ~ l.leaks
    BY <1>7, <2>1, RenderPointParts
  <2>3. sub.step = "scopes"
    BY <1>7 DEF RenderPoint
  <2> QED  BY <2>2, <2>3 DEF SubShaped, SecretStaysHome
<1> QED  BY <1>1, <1>2, <1>3, <1>4, <1>5, <1>6, <1>7 DEF RenderStep

\* Everyone else leaves the document being rendered alone.
LEMMA EditsLeaveDocument ==
    ASSUME VariableStep \/ TemplateStep \/ AccessStep PROVE sub' = sub
<1>1. CASE VariableStep
  BY <1>1 DEF VariableStep, putGroup, FindVariableID, PutVariable, deleteVariable, moveVariable
<1>2. CASE TemplateStep
  BY <1>2 DEF TemplateStep, putClientTemplate, deleteClientTemplate, setClientTemplateServe,
              bindNode, unbindNode
<1>3. CASE AccessStep
  BY <1>3 DEF AccessStep
<1> QED  BY <1>1, <1>2, <1>3

\* No document carries the private half of a key, whichever scopes have the name and whatever is
\* created, replaced or moved while it is rendered (ForClient, renderPoint).
THEOREM SecretsStay == SubscriptionSpec => []SecretStaysHome
<1>1. SubscriptionInit => SubscriptionInv
  BY DEF SubscriptionInit, SubscriptionInv, SubShaped, SecretStaysHome, Idle
<1>2. SubscriptionInv /\ [SubscriptionNext]_svars => SubscriptionInv'
  <2> SUFFICES ASSUME SubscriptionInv, [SubscriptionNext]_svars PROVE SubscriptionInv'
    OBVIOUS
  <2>1. ASSUME sub' = sub PROVE SubscriptionInv'
    BY <2>1 DEF SubscriptionInv, SubShaped, SecretStaysHome
  <2>2. CASE RenderStep
    BY <2>2, RenderSafe
  <2>3. CASE VariableStep \/ TemplateStep \/ AccessStep
    BY <2>1, <2>3, EditsLeaveDocument
  <2>4. CASE UNCHANGED svars
    BY <2>1, <2>4 DEF svars
  <2> QED  BY <2>2, <2>3, <2>4 DEF SubscriptionNext
<1>3. SubscriptionInv => SecretStaysHome
  BY DEF SubscriptionInv
<1> QED  BY <1>1, <1>2, <1>3, PTL DEF SubscriptionSpec

\* Whether a scope has a name, and whether it seals it.
Found(rows, o, x) == \E v \in Vars : rows[v] # Gone /\ rows[v].owner = o /\ x \in flat(rows[v])
FoundSealed(rows, o, x) ==
    \E v \in Vars : rows[v] # Gone /\ rows[v].owner = o /\ x \in flat(rows[v]) /\ sealed(rows[v], x)

\* What a query returned for a name is what it would return now.
Agrees(s, o, x) ==
    /\ x \in DOMAIN s <=> Found(vrow, o, x)
    /\ x \in DOMAIN s => (s[x] <=> FoundSealed(vrow, o, x))

\* A query's answer agrees with the rows it was made of.
LEMMA ScopeAgrees == ASSUME NEW o, NEW x PROVE Agrees(ScopeVariables(o), o, x)
<1>1. PICK here : here = {v \in Vars : vrow[v] # Gone /\ vrow[v].owner = o}
  OBVIOUS
<1>2. PICK s : s = [y \in UNION {flat(vrow[v]) : v \in here} |->
                        \E v \in here : y \in flat(vrow[v]) /\ sealed(vrow[v], y)]
  OBVIOUS
<1>3. ScopeVariables(o) = s
  BY <1>1, <1>2, Zenon DEF ScopeVariables
<1>4. x \in DOMAIN s <=> Found(vrow, o, x)
  BY <1>1, <1>2, Zenon DEF Found
<1>5. x \in DOMAIN s => s[x] = \E v \in here : x \in flat(vrow[v]) /\ sealed(vrow[v], x)
  BY <1>2, Zenon
<1>6. (\E v \in here : x \in flat(vrow[v]) /\ sealed(vrow[v], x)) <=> FoundSealed(vrow, o, x)
  BY <1>1, Zenon DEF FoundSealed
<1>7. x \in DOMAIN s => (s[x] <=> FoundSealed(vrow, o, x))
  BY <1>5, <1>6, Zenon
<1> QED  BY <1>3, <1>4, <1>7, Zenon DEF Agrees

\* Which names a client may be shown, in terms of the rows.
Shown(p, n, x) ==
    /\ Found(vrow, Global, x) \/ Found(vrow, p, x) \/ Found(vrow, n, x)
    /\ ~ FoundSealed(vrow, Global, x) /\ ~ FoundSealed(vrow, p, x) /\ ~ FoundSealed(vrow, n, x)

\* Three answers that agree with the rows make the context the rows make now.
LEMMA ContextShown ==
    ASSUME NEW g, NEW pr, NEW nd, NEW p, NEW n, NEW x,
           Agrees(g, Global, x), Agrees(pr, p, x), Agrees(nd, n, x)
    PROVE  x \in DOMAIN ForClient(g, pr, nd) <=> Shown(p, n, x)
<1>1. DOMAIN ForClient(g, pr, nd) = DOMAIN Merge(g, pr, nd) \ secretNames(g, pr, nd)
  BY Zenon DEF ForClient
<1>2. DOMAIN Merge(g, pr, nd) = DOMAIN g \cup DOMAIN pr \cup DOMAIN nd
  BY Zenon DEF Merge
<1>3. \A o : FoundSealed(vrow, o, x) => Found(vrow, o, x)
  BY Zenon DEF FoundSealed, Found
<1>4. x \in secretNames(g, pr, nd) <=> \/ FoundSealed(vrow, Global, x) \/ FoundSealed(vrow, p, x)
                                      \/ FoundSealed(vrow, n, x)
  <2>1. /\ x \in {y \in DOMAIN g : g[y]} <=> FoundSealed(vrow, Global, x)
        /\ x \in {y \in DOMAIN pr : pr[y]} <=> FoundSealed(vrow, p, x)
        /\ x \in {y \in DOMAIN nd : nd[y]} <=> FoundSealed(vrow, n, x)
    BY <1>3, Zenon DEF Agrees
  <2> QED  BY <2>1, Zenon DEF secretNames
<1>5. x \in DOMAIN g \cup DOMAIN pr \cup DOMAIN nd <=>
          Found(vrow, Global, x) \/ Found(vrow, p, x) \/ Found(vrow, n, x)
  BY DEF Agrees
<1> QED  BY <1>1, <1>2, <1>4, <1>5, Zenon DEF Shown

\* What the subscriber's context would have now.
LEMMA ClientContextShown ==
    ASSUME NEW p, NEW n, NEW x PROVE x \in DOMAIN ClientContext(p, n) <=> Shown(p, n, x)
<1>1. /\ Agrees(ScopeVariables(Global), Global, x) /\ Agrees(ScopeVariables(p), p, x)
      /\ Agrees(ScopeVariables(n), n, x)
  BY ScopeAgrees, Zenon
<1> QED  BY <1>1, ContextShown, Zenon DEF ClientContext

\* One variable row written: names of neither its old nor its new components resolve as before.
LEMMA RowWritten ==
    ASSUME NEW old, NEW new, NEW v \in Vars, \A w \in Vars : w # v => new[w] = old[w],
           NEW x, old[v] # Gone => x \notin flat(old[v]), new[v] # Gone => x \notin flat(new[v])
    PROVE  \A o : /\ Found(new, o, x) <=> Found(old, o, x)
                  /\ FoundSealed(new, o, x) <=> FoundSealed(old, o, x)
<1> SUFFICES ASSUME NEW o
             PROVE  /\ Found(new, o, x) <=> Found(old, o, x)
                    /\ FoundSealed(new, o, x) <=> FoundSealed(old, o, x)
  OBVIOUS
<1>1. ASSUME NEW w \in Vars
      PROVE  /\ (new[w] # Gone /\ x \in flat(new[w])) <=> (old[w] # Gone /\ x \in flat(old[w]))
             /\ (new[w] # Gone /\ x \in flat(new[w])) => new[w] = old[w]
  BY Zenon
<1>2. Found(new, o, x) <=> Found(old, o, x)
  BY <1>1, Zenon DEF Found
<1>3. FoundSealed(new, o, x) <=> FoundSealed(old, o, x)
  BY <1>1, Zenon DEF FoundSealed
<1> QED  BY <1>2, <1>3

-----------------------------------------------------------------------------
\* The rows of variables and of client templates.
TablesTyped ==
    /\ vrow = [v \in Vars |-> vrow[v]] /\ ctpl = [p \in Profiles |-> ctpl[p]]
    /\ \A v \in Vars : \/ vrow[v] = Gone
                       \/ vrow[v] = [name |-> vrow[v].name, owner |-> vrow[v].owner, keys |-> vrow[v].keys]
    /\ \A p \in Profiles : ctpl[p] = Gone \/ ctpl[p] = [refs |-> ctpl[p].refs, serve |-> ctpl[p].serve]

\* A calm access point can be delivered.
CalmHeld == \A pt \in calm : pt \in Points /\ Deliverable(pt)

\* An edit leaves what the calm points need as it was.
Undisturbed ==
    /\ calm' \subseteq calm
    /\ \A pt \in calm' :
          /\ ctpl'[pt[1]].refs = ctpl[pt[1]].refs
          /\ \A x \in ctpl[pt[1]].refs, o \in {Global} \cup Profiles \cup Machines :
                /\ Found(vrow', o, x) <=> Found(vrow, o, x)
                /\ FoundSealed(vrow', o, x) <=> FoundSealed(vrow, o, x)

\* An edit of the variables: the names it touches are those of the row before and after.
LEMMA VariableEdit ==
    ASSUME TablesTyped, CalmHeld, NEW v \in Vars, NEW rw, NEW names,
           vrow' = [vrow EXCEPT ![v] = rw], ctpl' = ctpl,
           rw = Gone \/ rw = [name |-> rw.name, owner |-> rw.owner, keys |-> rw.keys],
           vrow[v] # Gone => flat(vrow[v]) \subseteq names, rw # Gone => flat(rw) \subseteq names,
           StayCalm(names)
    PROVE  TablesTyped' /\ CalmHeld' /\ Undisturbed
<1>1. calm' = {pt \in calm : Deliverable(pt)' /\ ~Uses(pt, names)}
  BY DEF StayCalm
<1>2. calm' \subseteq calm /\ CalmHeld'
  BY <1>1 DEF CalmHeld, Points
<1>3. vrow' = [w \in Vars |-> vrow'[w]] /\ vrow'[v] = rw /\ \A w \in Vars : w # v => vrow'[w] = vrow[w]
  BY DEF TablesTyped
<1>4. TablesTyped'
  BY <1>3 DEF TablesTyped
<1>5. ASSUME NEW pt \in calm', NEW x \in ctpl[pt[1]].refs
      PROVE  \A o : /\ Found(vrow', o, x) <=> Found(vrow, o, x)
                    /\ FoundSealed(vrow', o, x) <=> FoundSealed(vrow, o, x)
  <2>1. ~ Uses(pt, names) /\ Deliverable(pt)
    BY <1>1 DEF CalmHeld
  <2>2. ctpl[pt[1]] # Gone
    BY <2>1 DEF Deliverable
  <2>3. x \notin names
    BY <2>1, <2>2 DEF Uses
  <2>4. (vrow[v] # Gone => x \notin flat(vrow[v])) /\ (vrow'[v] # Gone => x \notin flat(vrow'[v]))
    BY <1>3, <2>3
  <2>5. PICK old, new : old = vrow /\ new = vrow'
    OBVIOUS
  <2>6. \A o : /\ Found(new, o, x) <=> Found(old, o, x)
               /\ FoundSealed(new, o, x) <=> FoundSealed(old, o, x)
    BY <1>3, <2>4, <2>5, RowWritten
  <2> QED  BY <2>5, <2>6
<1>6. Undisturbed
  BY <1>2, <1>5 DEF Undisturbed
<1> QED  BY <1>2, <1>4, <1>6

\* Edits that write no variable.
LEMMA OtherEdit ==
    ASSUME TablesTyped', CalmHeld', vrow' = vrow, calm' \subseteq calm,
           \A pt \in calm' : ctpl'[pt[1]].refs = ctpl[pt[1]].refs
    PROVE  Undisturbed
BY DEF Undisturbed

\* Every edit leaves the calm points undisturbed; a move too, when it counts as an edit.
LEMMA EditKeepsCalm ==
    ASSUME TablesTyped, CalmHeld, MoveIsEdit = TRUE, VariableStep \/ TemplateStep \/ AccessStep
    PROVE  TablesTyped' /\ CalmHeld' /\ Undisturbed
<1>1. ASSUME NEW v \in Vars, NEW k \in Keys, NEW o \in Owners, putGroup(v, k, o)
      PROVE  TablesTyped' /\ CalmHeld' /\ Undisturbed
  <2>1. PICK rw : rw = [name |-> k, owner |-> o, keys |-> TRUE]
    OBVIOUS
  <2>2. flat(rw) = {Public(k), Private(k)}
    BY <2>1 DEF flat
  <2>3. rw = [name |-> rw.name, owner |-> rw.owner, keys |-> rw.keys]
    BY <2>1
  <2>4. /\ vrow' = [vrow EXCEPT ![v] = rw] /\ ctpl' = ctpl /\ vrow[v] = Gone
        /\ StayCalm({Public(k), Private(k)})
    BY <1>1, <2>1 DEF putGroup
  <2> QED  BY <2>2, <2>3, <2>4, VariableEdit
<1>2. ASSUME UNCHANGED <<vrow, ctpl, bind, entitled, withheld, cred, calm>>
      PROVE  TablesTyped' /\ CalmHeld' /\ Undisturbed
  <2>1. TablesTyped'
    BY <1>2 DEF TablesTyped
  <2>2. \A pt : Deliverable(pt)' <=> Deliverable(pt)
    BY <1>2 DEF Deliverable, ClientContext, ScopeVariables
  <2>3. CalmHeld'
    BY <1>2, <2>2 DEF CalmHeld, Points
  <2> QED  BY <1>2, <2>1, <2>3, OtherEdit
<1>3. ASSUME NEW v \in Vars, PutVariable(v) PROVE TablesTyped' /\ CalmHeld' /\ Undisturbed
  <2>1. PICK names : names = {put.name} \cup (IF vrow[v] = Gone THEN {} ELSE flat(vrow[v]))
    OBVIOUS
  <2>2. ctpl' = ctpl /\ StayCalm(names)
    BY <1>3, <2>1 DEF PutVariable
  <2>3. ASSUME NEW own, vrow' = [vrow EXCEPT ![v] = [name |-> put.name, owner |-> own, keys |-> FALSE]]
        PROVE  TablesTyped' /\ CalmHeld' /\ Undisturbed
    <3>1. PICK rw : rw = [name |-> put.name, owner |-> own, keys |-> FALSE]
      OBVIOUS
    <3>2. flat(rw) = {put.name} /\ rw = [name |-> rw.name, owner |-> rw.owner, keys |-> rw.keys]
      BY <3>1 DEF flat
    <3>3. (vrow[v] # Gone => flat(vrow[v]) \subseteq names) /\ flat(rw) \subseteq names
      BY <2>1, <3>2
    <3>4. vrow' = [vrow EXCEPT ![v] = rw]
      BY <2>3, <3>1
    <3> QED  BY <2>2, <3>2, <3>3, <3>4, VariableEdit
  <2>4. CASE vrow[v] # Gone
    <3>1. PICK w : w = vrow[v] /\ w = [name |-> w.name, owner |-> w.owner, keys |-> w.keys]
      BY <2>4 DEF TablesTyped
    <3>2. PICK q : q = [vrow EXCEPT ![v].name = put.name]
      OBVIOUS
    <3>3. vrow' = [q EXCEPT ![v].keys = FALSE]
      BY <1>3, <2>4, <3>2 DEF PutVariable
    <3>4. DOMAIN q = Vars /\ q[v] = [w EXCEPT !.name = put.name] /\ DOMAIN vrow = Vars
      BY <3>1, <3>2 DEF TablesTyped
    <3>5. q[v] = [name |-> put.name, owner |-> w.owner, keys |-> w.keys]
      BY <3>1, <3>4
    <3>6. vrow' = [q EXCEPT ![v] = [name |-> put.name, owner |-> w.owner, keys |-> FALSE]]
      <4>1. PICK z : z = [name |-> put.name, owner |-> w.owner, keys |-> w.keys]
        OBVIOUS
      <4>2. PICK no : no = FALSE
        OBVIOUS
      <4>3. [z EXCEPT !.keys = no] = [name |-> put.name, owner |-> w.owner, keys |-> no]
        <5> HIDE <4>2
        <5> QED  BY <4>1
      <4> QED  BY <3>3, <3>4, <3>5, <4>1, <4>2, <4>3
    <3>7. vrow' = [vrow EXCEPT ![v] = [name |-> put.name, owner |-> w.owner, keys |-> FALSE]]
      BY <3>2, <3>4, <3>6
    <3> QED  BY <2>3, <3>7
  <2>5. CASE vrow[v] = Gone /\ ~ taken(put.owner, put.name, v)
    <3>1. vrow' = [vrow EXCEPT ![v] = [name |-> put.name, owner |-> put.owner, keys |-> FALSE]]
      BY <1>3, <2>5 DEF PutVariable
    <3> QED  BY <2>3, <3>1
  <2>6. CASE vrow[v] = Gone /\ taken(put.owner, put.name, v)
    <3>1. vrow' = vrow
      BY <1>3, <2>6 DEF PutVariable
    <3>2. TablesTyped'
      BY <2>2, <3>1 DEF TablesTyped
    <3>3. CalmHeld' /\ calm' \subseteq calm
      BY <2>2 DEF StayCalm, CalmHeld, Points
    <3> QED  BY <2>2, <3>1, <3>2, <3>3, OtherEdit
  <2> QED  BY <2>4, <2>5, <2>6
<1>4. ASSUME NEW v \in Vars, deleteVariable(v) PROVE TablesTyped' /\ CalmHeld' /\ Undisturbed
  <2>1. PICK names : names = flat(vrow[v])
    OBVIOUS
  <2>2. vrow' = [vrow EXCEPT ![v] = Gone] /\ ctpl' = ctpl /\ StayCalm(names)
    BY <1>4, <2>1 DEF deleteVariable
  <2> QED  BY <2>1, <2>2, VariableEdit
<1>5. ASSUME NEW v \in Vars, NEW o \in Owners, moveVariable(v, o)
      PROVE  TablesTyped' /\ CalmHeld' /\ Undisturbed
  <2>1. PICK w : w = vrow[v] /\ w = [name |-> w.name, owner |-> w.owner, keys |-> w.keys]
    BY <1>5 DEF TablesTyped, moveVariable
  <2>2. PICK rw : rw = [name |-> w.name, owner |-> o, keys |-> w.keys]
    OBVIOUS
  <2>3. PICK names : names = flat(w)
    OBVIOUS
  <2>4. vrow' = [vrow EXCEPT ![v] = rw] /\ ctpl' = ctpl
    <3>1. [w EXCEPT !.owner = o] = rw
      BY <2>1, <2>2
    <3> QED  BY <1>5, <2>1, <3>1 DEF moveVariable, TablesTyped
  <2>5. StayCalm(names)
    BY <1>5, <2>1, <2>3 DEF moveVariable
  <2>6. flat(rw) = names /\ rw = [name |-> rw.name, owner |-> rw.owner, keys |-> rw.keys]
    BY <2>1, <2>2, <2>3 DEF flat
  <2> QED  BY <2>1, <2>3, <2>4, <2>5, <2>6, VariableEdit
<1>6. CASE VariableStep
  <2>1. ASSUME NEW x \in PlainNames, NEW o \in Owners, FindVariableID(x, o)
        PROVE  TablesTyped' /\ CalmHeld' /\ Undisturbed
    BY <1>2, <2>1 DEF FindVariableID
  <2> QED  BY <1>1, <1>3, <1>4, <1>5, <1>6, <2>1 DEF VariableStep
<1>7. ASSUME vrow' = vrow, TablesTyped', StayCalm({}),
             \A p \in Profiles : ctpl'[p] = Gone \/ ctpl'[p].refs = ctpl[p].refs
      PROVE  TablesTyped' /\ CalmHeld' /\ Undisturbed
  <2>1. CalmHeld' /\ calm' \subseteq calm
    BY <1>7 DEF StayCalm, CalmHeld, Points
  <2>2. \A pt \in calm' : ctpl'[pt[1]] # Gone /\ pt[1] \in Profiles
    BY <2>1 DEF CalmHeld, Deliverable, Points
  <2> QED  BY <1>7, <2>1, <2>2, OtherEdit
<1>8. ASSUME NEW p \in Profiles, NEW refs \in SUBSET FlatNames, putClientTemplate(p, refs)
      PROVE  TablesTyped' /\ CalmHeld' /\ Undisturbed
  <2>1. PICK on : ctpl' = [ctpl EXCEPT ![p] = [refs |-> refs, serve |-> on]]
    BY <1>8, Zenon DEF putClientTemplate
  <2>2. calm' = {pt \in calm : pt[1] # p} /\ UNCHANGED <<vrow, bind, entitled, withheld, cred>>
    BY <1>8 DEF putClientTemplate
  <2>3. /\ ctpl' = [q \in Profiles |-> ctpl'[q]] /\ ctpl'[p] = [refs |-> refs, serve |-> on]
        /\ \A q \in Profiles : q # p => ctpl'[q] = ctpl[q]
    BY <2>1 DEF TablesTyped
  <2>4. TablesTyped'
    BY <2>2, <2>3 DEF TablesTyped
  <2>5. ASSUME NEW pt \in calm' PROVE pt \in Points /\ ctpl'[pt[1]] = ctpl[pt[1]] /\ Deliverable(pt)'
    <3>1. pt \in Points /\ pt[1] # p /\ Deliverable(pt)
      BY <2>2 DEF CalmHeld
    <3>2. pt[1] \in Profiles
      BY <3>1 DEF Points
    <3>3. ctpl'[pt[1]] = ctpl[pt[1]]
      BY <2>3, <3>1, <3>2
    <3>4. ClientContext(pt[1], pt[2])' = ClientContext(pt[1], pt[2])
      BY <2>2 DEF ClientContext, ScopeVariables
    <3> QED  BY <2>2, <3>1, <3>3, <3>4 DEF Deliverable
  <2>6. CalmHeld'
    BY <2>5 DEF CalmHeld, Points
  <2> QED  BY <2>2, <2>4, <2>5, <2>6, OtherEdit
<1>9. ASSUME NEW p \in Profiles, deleteClientTemplate(p) PROVE TablesTyped' /\ CalmHeld' /\ Undisturbed
  <2>1. ctpl' = [ctpl EXCEPT ![p] = Gone] /\ vrow' = vrow /\ StayCalm({})
    BY <1>9 DEF deleteClientTemplate
  <2>2. ctpl' = [q \in Profiles |-> IF q = p THEN Gone ELSE ctpl[q]]
    BY <2>1 DEF TablesTyped
  <2>3. TablesTyped'
    BY <2>1, <2>2 DEF TablesTyped
  <2> QED  BY <1>7, <2>1, <2>2, <2>3
<1>10. ASSUME NEW p \in Profiles, NEW on \in BOOLEAN, setClientTemplateServe(p, on)
       PROVE  TablesTyped' /\ CalmHeld' /\ Undisturbed
  <2>1. ctpl' = [ctpl EXCEPT ![p].serve = on] /\ vrow' = vrow /\ StayCalm({}) /\ ctpl[p] # Gone
    BY <1>10 DEF setClientTemplateServe
  <2>2. PICK t : t = ctpl[p] /\ t = [refs |-> t.refs, serve |-> t.serve]
    BY <2>1 DEF TablesTyped
  <2>3. ctpl' = [q \in Profiles |-> IF q = p THEN [refs |-> t.refs, serve |-> on] ELSE ctpl[q]]
    <3>1. [t EXCEPT !.serve = on] = [refs |-> t.refs, serve |-> on]
      BY <2>2
    <3> QED  BY <2>1, <2>2, <3>1 DEF TablesTyped
  <2>4. TablesTyped'
    BY <2>1, <2>3 DEF TablesTyped
  <2>5. \A q \in Profiles : ctpl'[q].refs = ctpl[q].refs
    BY <2>2, <2>3
  <2> QED  BY <1>7, <2>1, <2>4, <2>5
<1>11. ASSUME UNCHANGED <<vrow, ctpl>>, StayCalm({}) PROVE TablesTyped' /\ CalmHeld' /\ Undisturbed
  <2>1. TablesTyped'
    BY <1>11 DEF TablesTyped
  <2> QED  BY <1>7, <1>11, <2>1
<1>12. CASE TemplateStep
  <2>1. ASSUME NEW p \in Profiles, NEW n \in Machines, bindNode(p, n) \/ unbindNode(p, n)
        PROVE  TablesTyped' /\ CalmHeld' /\ Undisturbed
    BY <1>11, <2>1 DEF bindNode, unbindNode
  <2> QED  BY <1>8, <1>9, <1>10, <1>12, <2>1 DEF TemplateStep
<1>13. CASE AccessStep
  BY <1>11, <1>13 DEF AccessStep
<1> QED  BY <1>6, <1>12, <1>13

-----------------------------------------------------------------------------
\* The owners of the three scopes, in the order they are read.
OwnerAt(i) == IF i = 1 THEN Global ELSE IF i = 2 THEN sub.p ELSE sub.n

\* Where a calm access point is while the document is rendered: ahead, being rendered, or in it.
Served(pt) == \E l \in sub.doc : l.point = pt /\ l.line = Own
Placed(pt) ==
    /\ pt[2] \notin sub.denied
    /\ \/ pt[1] \in sub.left
       \/ sub.step \in {"node", "scopes"} /\ pt[1] = sub.p /\ pt[2] \in sub.nodes
       \/ sub.step = "scopes" /\ pt = <<sub.p, sub.n>>
       \/ Served(pt)
CalmPlaced == sub.step \in {"profile", "node", "scopes"} => \A pt \in calm : Placed(pt)

\* What was read for them is what is stored: the template, and the names it uses.
RefsCurrent ==
    sub.step \in {"node", "scopes"} =>
        /\ sub.p \in Profiles
        /\ \A pt \in calm : pt[1] = sub.p => sub.refs = ctpl[sub.p].refs
ScopesCurrent ==
    sub.step = "scopes" =>
        /\ sub.n \in Machines
        /\ <<sub.p, sub.n>> \in calm =>
              \A x \in sub.refs, i \in 1..Len(sub.scopes) : Agrees(sub.scopes[i], OwnerAt(i), x)

\* The inductive invariant of a rendering.
HealthyInv ==
    /\ SubShaped /\ TablesTyped /\ CalmHeld /\ entitled \subseteq Profiles
    /\ sub.step \in {"profile", "node", "scopes"} => sub.left \subseteq Profiles
    /\ CalmPlaced /\ RefsCurrent /\ ScopesCurrent /\ HealthyLinesServed

\* An edit disturbs no point that stays calm.
LEMMA EditHealthy ==
    ASSUME HealthyInv, MoveIsEdit = TRUE, VariableStep \/ TemplateStep \/ AccessStep
    PROVE  HealthyInv'
<1>1. TablesTyped' /\ CalmHeld' /\ Undisturbed /\ sub' = sub
  BY EditKeepsCalm, EditsLeaveDocument DEF HealthyInv
<1>2. calm' \subseteq calm
  BY <1>1 DEF Undisturbed
<1>3. SubShaped' /\ (sub'.step \in {"profile", "node", "scopes"} => sub'.left \subseteq Profiles)
  BY <1>1 DEF HealthyInv, SubShaped
<1>4. CalmPlaced' /\ HealthyLinesServed'
  BY <1>1, <1>2 DEF HealthyInv, CalmPlaced, HealthyLinesServed, Placed, Served
<1>5. RefsCurrent'
  BY <1>1, <1>2 DEF HealthyInv, RefsCurrent, Undisturbed
<1>6. ScopesCurrent'
  <2> SUFFICES ASSUME sub.step = "scopes", <<sub.p, sub.n>> \in calm',
                      NEW x \in sub.refs, NEW i \in 1..Len(sub.scopes)
               PROVE  Agrees(sub.scopes[i], OwnerAt(i), x)'
    BY <1>1 DEF HealthyInv, ScopesCurrent
  <2>1. PICK pt \in calm' : pt = <<sub.p, sub.n>>
    OBVIOUS
  <2>2. /\ pt \in calm /\ pt[1] = sub.p /\ sub.refs = ctpl[pt[1]].refs
        /\ sub.p \in Profiles /\ sub.n \in Machines
    BY <1>2, <2>1 DEF HealthyInv, RefsCurrent, ScopesCurrent
  <2>3. PICK o \in {Global} \cup Profiles \cup Machines : o = OwnerAt(i)
    BY <2>2 DEF OwnerAt
  <2>4. OwnerAt(i)' = o
    BY <1>1, <2>3 DEF OwnerAt
  <2>5. /\ Found(vrow', o, x) <=> Found(vrow, o, x)
        /\ FoundSealed(vrow', o, x) <=> FoundSealed(vrow, o, x)
    BY <1>1, <2>2 DEF Undisturbed
  <2>6. Agrees(sub.scopes[i], o, x)
    BY <2>1, <2>2, <2>3 DEF HealthyInv, ScopesCurrent
  <2>7. PICK s : s = sub.scopes[i]
    OBVIOUS
  <2>8. Agrees(s, o, x)'
    BY <2>5, <2>6, <2>7, Zenon DEF Agrees
  <2> QED  BY <1>1, <2>4, <2>7, <2>8 DEF Agrees
<1>7. entitled' \subseteq Profiles
  BY DEF HealthyInv, VariableStep, putGroup, FindVariableID, PutVariable, deleteVariable, moveVariable,
         TemplateStep, putClientTemplate, deleteClientTemplate, setClientTemplateServe, bindNode,
         unbindNode, AccessStep, bindUserProfile, unbindUserProfile, SetAccess, ensureCredential,
         Points
<1> QED  BY <1>1, <1>3, <1>4, <1>5, <1>6, <1>7 DEF HealthyInv

\* The renderer writes nothing but the document.
LEMMA RenderWrites ==
    ASSUME RenderStep, ~ RenderBegins
    PROVE  UNCHANGED <<vrow, ctpl, bind, entitled, withheld, cred, calm>>
BY DEF RenderStep, RenderBegins, NextProfile, ReadScope, RenderPoint, serveSubscription, OpenProfile,
       OpenPoint

\* What is stored is as it was, and the points as calm.
LEMMA StoredStays ==
    ASSUME HealthyInv, UNCHANGED <<vrow, ctpl, bind, entitled, withheld, cred, calm>>
    PROVE  TablesTyped' /\ CalmHeld' /\ entitled' \subseteq Profiles
<1>1. \A pt : Deliverable(pt)' <=> Deliverable(pt)
  BY DEF Deliverable, ClientContext, ScopeVariables
<1>2. CalmHeld'
  BY <1>1 DEF HealthyInv, CalmHeld, Points
<1> QED  BY <1>2 DEF HealthyInv, TablesTyped

\* A rendering starts with every point ahead of it.
LEMMA BeginHealthy == ASSUME HealthyInv, RenderBegins PROVE HealthyInv'
<1>1. /\ sub' = [step |-> "profile", left |-> entitled, denied |-> withheld, doc |-> {}, skipped |-> {}]
      /\ calm' = {pt \in Points : Deliverable(pt)}
      /\ UNCHANGED <<vrow, ctpl, bind, entitled, withheld, cred>>
  BY DEF RenderBegins
<1>2. \A pt : Deliverable(pt)' <=> Deliverable(pt)
  BY <1>1 DEF Deliverable, ClientContext, ScopeVariables
<1>3. TablesTyped' /\ CalmHeld' /\ entitled' \subseteq Profiles
  BY <1>1, <1>2 DEF HealthyInv, TablesTyped, CalmHeld, Points
<1>4. \A pt \in calm' : pt[1] \in entitled /\ pt[2] \notin withheld
  BY <1>1 DEF Deliverable
<1>5. CalmPlaced'
  BY <1>1, <1>4 DEF CalmPlaced, Placed
<1>6. SubShaped' /\ RefsCurrent' /\ ScopesCurrent' /\ HealthyLinesServed' /\ sub'.left \subseteq Profiles
  BY <1>1 DEF HealthyInv, SubShaped, RefsCurrent, ScopesCurrent, HealthyLinesServed
<1> QED  BY <1>3, <1>5, <1>6 DEF HealthyInv

\* A profile is opened: its calm points are among the nodes read for it.
LEMMA OpenProfileHealthy ==
    ASSUME HealthyInv, NEW p \in Profiles, OpenProfile(p), SubShaped' PROVE HealthyInv'
<1>1. sub.step = "profile" /\ UNCHANGED <<vrow, ctpl, bind, entitled, withheld, cred, calm>>
  BY DEF OpenProfile
<1>2. TablesTyped' /\ CalmHeld' /\ entitled' \subseteq Profiles
  BY <1>1, StoredStays
<1>3. sub = [step |-> "profile", left |-> sub.left, denied |-> sub.denied, doc |-> sub.doc,
             skipped |-> sub.skipped]
  BY <1>1 DEF HealthyInv, SubShaped, Idle
<1>4. \A pt \in calm : pt[2] \notin sub.denied /\ (pt[1] \in sub.left \/ Served(pt))
  BY <1>1 DEF HealthyInv, CalmPlaced, Placed
<1>5. CASE ctpl[p] # Gone /\ ctpl[p].serve
  <2>1. PICK nodes : nodes = {n \in Machines : <<p, n>> \in bind} \ sub.denied
    OBVIOUS
  <2>2. PICK refs : refs = ctpl[p].refs
    OBVIOUS
  <2>3. sub' = [step |-> "node", left |-> sub.left \ {p}, denied |-> sub.denied, doc |-> sub.doc,
                skipped |-> sub.skipped, p |-> p, refs |-> refs, nodes |-> nodes]
    BY <1>5, <2>1, <2>2 DEF OpenProfile
  <2>4. ASSUME NEW pt \in calm' PROVE Placed(pt)'
    <3>1. pt \in calm /\ pt \in Points /\ Deliverable(pt) /\ pt \in bind
      BY <1>1 DEF HealthyInv, CalmHeld, Deliverable
    <3>2. CASE pt[1] = p
      <4>1. pt = <<p, pt[2]>> /\ pt[2] \in Machines
        BY <3>1, <3>2 DEF Points
      <4>2. pt[2] \in nodes
        BY <1>4, <2>1, <3>1, <4>1
      <4> QED  BY <1>4, <2>3, <3>1, <3>2, <4>2 DEF Placed
    <3>3. CASE pt[1] # p
      BY <1>4, <2>3, <3>1, <3>3 DEF Placed, Served
    <3> QED  BY <3>2, <3>3
  <2>5. CalmPlaced' /\ RefsCurrent' /\ ScopesCurrent' /\ HealthyLinesServed'
    BY <1>1, <2>2, <2>3, <2>4 DEF CalmPlaced, RefsCurrent, ScopesCurrent, HealthyLinesServed
  <2>6. sub'.left \subseteq Profiles
    BY <1>1, <2>3 DEF HealthyInv
  <2> QED  BY <1>2, <2>5, <2>6 DEF HealthyInv
<1>6. CASE ~ (ctpl[p] # Gone /\ ctpl[p].serve)
  <2>1. sub' = [sub EXCEPT !.left = @ \ {p}]
    BY <1>6 DEF OpenProfile
  <2>2. sub' = [step |-> "profile", left |-> sub.left \ {p}, denied |-> sub.denied, doc |-> sub.doc,
                skipped |-> sub.skipped]
    BY <1>3, <2>1
  <2>3. \A pt \in calm : pt[1] # p
    BY <1>6 DEF HealthyInv, CalmHeld, Deliverable
  <2>4. CalmPlaced'
    BY <1>1, <1>4, <2>2, <2>3 DEF CalmPlaced, Placed, Served
  <2>5. RefsCurrent' /\ ScopesCurrent' /\ HealthyLinesServed' /\ sub'.left \subseteq Profiles
    BY <1>1, <2>2 DEF HealthyInv, RefsCurrent, ScopesCurrent, HealthyLinesServed
  <2> QED  BY <1>2, <2>4, <2>5 DEF HealthyInv
<1> QED  BY <1>5, <1>6

\* An access point is opened: a calm one has its credential, and the first scope is current.
LEMMA OpenPointHealthy ==
    ASSUME HealthyInv, NEW n \in Machines, OpenPoint(n), SubShaped' PROVE HealthyInv'
<1>1. sub.step = "node" /\ UNCHANGED <<vrow, ctpl, bind, entitled, withheld, cred, calm>>
  BY DEF OpenPoint
<1>2. TablesTyped' /\ CalmHeld' /\ entitled' \subseteq Profiles
  BY <1>1, StoredStays
<1>3. sub = [step |-> "node", left |-> sub.left, denied |-> sub.denied, doc |-> sub.doc,
             skipped |-> sub.skipped, p |-> sub.p, refs |-> sub.refs, nodes |-> sub.nodes]
  BY <1>1 DEF HealthyInv, SubShaped, Idle
<1>4. \A pt \in calm : /\ pt[2] \notin sub.denied /\ pt = <<pt[1], pt[2]>>
                       /\ \/ pt[1] \in sub.left \/ Served(pt)
                          \/ pt[1] = sub.p /\ pt[2] \in sub.nodes
  BY <1>1 DEF HealthyInv, CalmPlaced, Placed, CalmHeld, Points
<1>5. CASE <<sub.p, n, Own>> \in cred
  <2>1. PICK g : g = ScopeVariables(Global)
    OBVIOUS
  <2>2. sub' = [step |-> "scopes", left |-> sub.left, denied |-> sub.denied, doc |-> sub.doc,
                skipped |-> sub.skipped, p |-> sub.p, refs |-> sub.refs,
                nodes |-> sub.nodes \ {n}, n |-> n, scopes |-> <<g>>]
    BY <1>5, <2>1 DEF OpenPoint
  <2>3. CalmPlaced'
    BY <1>1, <1>4, <2>2 DEF CalmPlaced, Placed, Served
  <2>4. RefsCurrent' /\ HealthyLinesServed' /\ sub'.left \subseteq Profiles
    BY <1>1, <2>2 DEF HealthyInv, RefsCurrent, HealthyLinesServed
  <2>5. ScopesCurrent'
    <3>1. \A x : Agrees(g, Global, x)
      BY <2>1, ScopeAgrees
    <3>2. \A x : Agrees(g, Global, x)'
      BY <1>1, <3>1 DEF Agrees
    <3>3. /\ sub'.scopes = <<g>> /\ Len(sub'.scopes) = 1 /\ sub'.scopes[1] = g /\ sub'.n = n
          /\ OwnerAt(1)' = Global
      BY <2>2 DEF OwnerAt
    <3>4. ASSUME NEW x \in sub'.refs, NEW i \in 1..Len(sub'.scopes)
          PROVE  Agrees(sub.scopes[i], OwnerAt(i), x)'
      <4>1. i = 1
        BY <3>3
      <4> QED  BY <3>2, <3>3, <4>1
    <3> QED  BY <3>3, <3>4 DEF ScopesCurrent
  <2> QED  BY <1>2, <2>3, <2>4, <2>5 DEF HealthyInv
<1>6. CASE <<sub.p, n, Own>> \notin cred
  <2>1. sub' = [sub EXCEPT !.nodes = @ \ {n}]
    BY <1>6 DEF OpenPoint
  <2>2. sub' = [step |-> "node", left |-> sub.left, denied |-> sub.denied, doc |-> sub.doc,
                skipped |-> sub.skipped, p |-> sub.p, refs |-> sub.refs, nodes |-> sub.nodes \ {n}]
    BY <1>3, <2>1
  <2>3. \A pt \in calm : ~ (pt[1] = sub.p /\ pt[2] = n)
    BY <1>6 DEF HealthyInv, CalmHeld, Deliverable
  <2>4. CalmPlaced'
    BY <1>1, <1>4, <2>2, <2>3 DEF CalmPlaced, Placed, Served
  <2>5. RefsCurrent' /\ ScopesCurrent' /\ HealthyLinesServed' /\ sub'.left \subseteq Profiles
    BY <1>1, <2>2 DEF HealthyInv, RefsCurrent, ScopesCurrent, HealthyLinesServed
  <2> QED  BY <1>2, <2>4, <2>5 DEF HealthyInv
<1> QED  BY <1>5, <1>6

\* Another scope is read: it is current when it is read.
LEMMA ReadScopeHealthy == ASSUME HealthyInv, ReadScope, SubShaped' PROVE HealthyInv'
<1>1. /\ sub.step = "scopes" /\ Len(sub.scopes) < 3
      /\ UNCHANGED <<vrow, ctpl, bind, entitled, withheld, cred, calm>>
  BY DEF ReadScope
<1>2. TablesTyped' /\ CalmHeld' /\ entitled' \subseteq Profiles
  BY <1>1, StoredStays
<1>3. sub = [step |-> "scopes", left |-> sub.left, denied |-> sub.denied, doc |-> sub.doc,
             skipped |-> sub.skipped, p |-> sub.p, refs |-> sub.refs, nodes |-> sub.nodes,
             n |-> sub.n, scopes |-> sub.scopes]
  BY <1>1 DEF HealthyInv, SubShaped, Idle
<1>4. PICK o : o = IF Len(sub.scopes) = 1 THEN sub.p ELSE sub.n
  OBVIOUS
<1>5. PICK s : s = ScopeVariables(o)
  OBVIOUS
<1>6. sub' = [step |-> "scopes", left |-> sub.left, denied |-> sub.denied, doc |-> sub.doc,
              skipped |-> sub.skipped, p |-> sub.p, refs |-> sub.refs, nodes |-> sub.nodes,
              n |-> sub.n, scopes |-> Append(sub.scopes, s)]
  <2>1. PICK sc : sc = Append(sub.scopes, s)
    OBVIOUS
  <2>2. sub' = [sub EXCEPT !.scopes = sc]
    BY <1>4, <1>5, <2>1 DEF ReadScope
  <2>3. sub' = [step |-> "scopes", left |-> sub.left, denied |-> sub.denied, doc |-> sub.doc,
                skipped |-> sub.skipped, p |-> sub.p, refs |-> sub.refs, nodes |-> sub.nodes,
                n |-> sub.n, scopes |-> sc]
    <3> HIDE <2>1
    <3> QED  BY <1>3, <2>2
  <2> QED  BY <2>1, <2>3
<1>7. CalmPlaced' /\ RefsCurrent' /\ HealthyLinesServed' /\ sub'.left \subseteq Profiles
  BY <1>1, <1>6 DEF HealthyInv, CalmPlaced, Placed, Served, RefsCurrent, HealthyLinesServed
<1>8. /\ Len(sub'.scopes) = Len(sub.scopes) + 1 /\ Len(sub.scopes) \in 1..2
      /\ \A i \in 1..Len(sub.scopes) : sub'.scopes[i] = sub.scopes[i]
      /\ sub'.scopes[Len(sub.scopes) + 1] = s
  <2>1. CASE sub.scopes = <<sub.scopes[1]>>
    <3>1. PICK a : sub.scopes = <<a>>
      BY <2>1
    <3>2. sub'.scopes = <<a, s>>
      BY <1>6, <3>1, AppendSecond
    <3> QED  BY <3>1, <3>2
  <2>2. CASE sub.scopes = <<sub.scopes[1], sub.scopes[2]>>
    <3>1. PICK a, b : sub.scopes = <<a, b>>
      BY <2>2
    <3>2. sub'.scopes = <<a, b, s>>
      BY <1>6, <3>1, AppendThird
    <3> QED  BY <3>1, <3>2
  <2>3. CASE sub.scopes = <<sub.scopes[1], sub.scopes[2], sub.scopes[3]>>
    BY <1>1, <2>3
  <2> QED  BY <1>1, <2>1, <2>2, <2>3 DEF HealthyInv, SubShaped, Idle
<1>9. ScopesCurrent'
  <2>1. sub'.p = sub.p /\ sub'.n = sub.n /\ sub'.refs = sub.refs /\ sub.n \in Machines
    BY <1>1, <1>6 DEF HealthyInv, ScopesCurrent
  <2>2. ASSUME <<sub.p, sub.n>> \in calm, NEW x \in sub.refs, NEW i \in 1..Len(sub'.scopes)
        PROVE  Agrees(sub.scopes[i], OwnerAt(i), x)'
    <3>1. PICK t, w : t = sub'.scopes[i] /\ w = OwnerAt(i)
      OBVIOUS
    <3>2. OwnerAt(i)' = w
      BY <2>1, <3>1 DEF OwnerAt
    <3>3. Agrees(t, w, x)
      <4>1. CASE i \in 1..Len(sub.scopes)
        <5>1. Agrees(sub.scopes[i], OwnerAt(i), x)
          BY <1>1, <2>2, <4>1 DEF HealthyInv, ScopesCurrent
        <5> QED  BY <1>8, <3>1, <4>1, <5>1
      <4>2. CASE i = Len(sub.scopes) + 1
        <5>1. t = s
          BY <1>8, <3>1, <4>2
        <5>2. w = o
          <6>1. PICK k \in 1..2 : k = Len(sub.scopes)
            BY <1>8
          <6>2. CASE k = 1
            BY <1>4, <3>1, <4>2, <6>1, <6>2 DEF OwnerAt
          <6>3. CASE k = 2
            BY <1>4, <3>1, <4>2, <6>1, <6>3 DEF OwnerAt
          <6> QED  BY <6>2, <6>3
        <5> QED  BY <1>5, <5>1, <5>2, ScopeAgrees
      <4> QED  BY <1>8, <4>1, <4>2
    <3>4. Agrees(t, w, x)'
      BY <1>1, <3>3 DEF Agrees
    <3> QED  BY <3>1, <3>2, <3>4
  <2> QED  BY <1>1, <2>1, <2>2 DEF ScopesCurrent
<1> QED  BY <1>2, <1>7, <1>9 DEF HealthyInv

\* A point is rendered: the context of a calm one has every name its template uses.
LEMMA RenderPointHealthy == ASSUME HealthyInv, RenderPoint, SubShaped' PROVE HealthyInv'
<1>1. /\ sub.step = "scopes" /\ Len(sub.scopes) = 3
      /\ UNCHANGED <<vrow, ctpl, bind, entitled, withheld, cred, calm>>
  BY DEF RenderPoint
<1>2. TablesTyped' /\ CalmHeld' /\ entitled' \subseteq Profiles
  BY <1>1, StoredStays
<1>3. PICK context : context = ForClient(sub.scopes[1], sub.scopes[2], sub.scopes[3])
  OBVIOUS
<1>4. PICK lines, skips :
              /\ sub' = [step |-> "node", left |-> sub.left, denied |-> sub.denied,
                         doc |-> sub.doc \cup lines, skipped |-> sub.skipped \cup skips,
                         p |-> sub.p, refs |-> sub.refs, nodes |-> sub.nodes]
              /\ renders(sub.refs, context) =>
                    \E l \in lines : l.point = <<sub.p, sub.n>> /\ l.line = Own
  <2>1. SubShaped
    BY DEF HealthyInv
  <2> QED  BY <1>3, <2>1, RenderPointParts
<1>5. ASSUME <<sub.p, sub.n>> \in calm PROVE renders(sub.refs, context)
  <2>1. PICK pt \in calm : pt = <<sub.p, sub.n>>
    BY <1>5
  <2>2. pt[1] = sub.p /\ pt[2] = sub.n /\ Deliverable(pt) /\ sub.refs = ctpl[sub.p].refs
    BY <1>1, <2>1 DEF HealthyInv, CalmHeld, RefsCurrent
  <2>3. sub.refs \subseteq DOMAIN ClientContext(sub.p, sub.n)
    BY <2>2 DEF Deliverable, renders
  <2>4. ASSUME NEW x \in sub.refs PROVE x \in DOMAIN context
    <3>1. /\ Agrees(sub.scopes[1], Global, x) /\ Agrees(sub.scopes[2], sub.p, x)
          /\ Agrees(sub.scopes[3], sub.n, x)
      <4>1. \A i \in 1..3 : Agrees(sub.scopes[i], OwnerAt(i), x)
        BY <1>1, <1>5 DEF HealthyInv, ScopesCurrent
      <4>2. OwnerAt(1) = Global /\ OwnerAt(2) = sub.p /\ OwnerAt(3) = sub.n
        BY DEF OwnerAt
      <4>3. 1 \in 1..3 /\ 2 \in 1..3 /\ 3 \in 1..3
        OBVIOUS
      <4> QED  BY <4>1, <4>2, <4>3
    <3>2. Shown(sub.p, sub.n, x)
      BY <2>3, ClientContextShown
    <3>3. PICK g, pr, nd, p, n : /\ g = sub.scopes[1] /\ pr = sub.scopes[2] /\ nd = sub.scopes[3]
                                 /\ p = sub.p /\ n = sub.n
      OBVIOUS
    <3>4. x \in DOMAIN ForClient(g, pr, nd) <=> Shown(p, n, x)
      BY <3>1, <3>3, ContextShown
    <3> QED  BY <1>3, <3>2, <3>3, <3>4
  <2> QED  BY <2>4 DEF renders
<1>6. \A pt \in calm : /\ pt[2] \notin sub.denied
                       /\ \/ pt[1] \in sub.left \/ Served(pt) \/ pt = <<sub.p, sub.n>>
                          \/ pt[1] = sub.p /\ pt[2] \in sub.nodes
  BY <1>1 DEF HealthyInv, CalmPlaced, Placed
<1>7. CalmPlaced'
  <2>1. ASSUME NEW pt \in calm PROVE Placed(pt)'
    <3>1. CASE pt[1] \in sub.left \/ (pt[1] = sub.p /\ pt[2] \in sub.nodes)
      BY <1>4, <1>6, <3>1 DEF Placed
    <3>2. CASE Served(pt)
      BY <1>4, <1>6, <3>2 DEF Placed, Served
    <3>3. CASE pt = <<sub.p, sub.n>>
      <4>1. \E l \in lines : l.point = pt /\ l.line = Own
        BY <1>4, <1>5, <3>3
      <4> QED  BY <1>4, <1>6, <4>1 DEF Placed, Served
    <3> QED  BY <1>6, <3>1, <3>2, <3>3
  <2> QED  BY <1>1, <2>1 DEF CalmPlaced
<1>8. RefsCurrent' /\ ScopesCurrent' /\ HealthyLinesServed' /\ sub'.left \subseteq Profiles
  BY <1>1, <1>4 DEF HealthyInv, RefsCurrent, ScopesCurrent, HealthyLinesServed
<1> QED  BY <1>2, <1>7, <1>8 DEF HealthyInv

\* The document is done when no profile is left: what was calm is in it.
LEMMA FinishHealthy ==
    ASSUME HealthyInv, NextProfile \/ serveSubscription, SubShaped' PROVE HealthyInv'
<1>1. UNCHANGED <<vrow, ctpl, bind, entitled, withheld, cred, calm>>
  BY DEF NextProfile, serveSubscription
<1>2. TablesTyped' /\ CalmHeld' /\ entitled' \subseteq Profiles
  BY <1>1, StoredStays
<1>3. CASE NextProfile
  <2>1. /\ sub' = [step |-> "profile", left |-> sub.left, denied |-> sub.denied, doc |-> sub.doc,
                   skipped |-> sub.skipped]
        /\ sub.step = "node" /\ sub.nodes = {}
    BY <1>3 DEF NextProfile
  <2>2. \A pt \in calm : pt[2] \notin sub.denied /\ (pt[1] \in sub.left \/ Served(pt))
    BY <2>1 DEF HealthyInv, CalmPlaced, Placed
  <2>3. CalmPlaced'
    BY <1>1, <2>1, <2>2 DEF CalmPlaced, Placed, Served
  <2>4. RefsCurrent' /\ ScopesCurrent' /\ HealthyLinesServed' /\ sub'.left \subseteq Profiles
    BY <2>1 DEF HealthyInv, RefsCurrent, ScopesCurrent, HealthyLinesServed
  <2> QED  BY <1>2, <2>3, <2>4 DEF HealthyInv
<1>4. CASE serveSubscription
  <2>1. PICK given : sub' = [step |-> "done", served |-> given, doc |-> sub.doc, skipped |-> sub.skipped]
    BY <1>4, Zenon DEF serveSubscription
  <2>2. sub.step = "profile" /\ sub.left = {}
    BY <1>4 DEF serveSubscription
  <2>3. \A pt \in calm : Served(pt)
    BY <2>2 DEF HealthyInv, CalmPlaced, Placed
  <2>4. HealthyLinesServed'
    BY <1>1, <2>1, <2>3 DEF HealthyLinesServed, Served
  <2>5. CalmPlaced' /\ RefsCurrent' /\ ScopesCurrent' /\ sub'.step = "done"
    BY <2>1 DEF CalmPlaced, RefsCurrent, ScopesCurrent
  <2> QED  BY <1>2, <2>4, <2>5 DEF HealthyInv
<1> QED  BY <1>3, <1>4

\* Every access point that was the subscriber's from the first statement of a rendering to its
\* last is in the document, whatever else failed and whatever was edited meanwhile -- if moving
\* a variable counts as editing it: a move is one UPDATE, but the two scopes it touches are read
\* by two queries, and between them the variable can be missed (moveVariable, ReadScope).
THEOREM HealthyServed == ASSUME MoveIsEdit = TRUE PROVE SubscriptionSpec => []HealthyLinesServed
<1>1. SubscriptionInit => HealthyInv /\ SubscriptionInv
  <2> SUFFICES ASSUME SubscriptionInit PROVE HealthyInv /\ SubscriptionInv
    OBVIOUS
  <2>1. TablesTyped
    BY DEF SubscriptionInit, TablesTyped
  <2>2. sub = Idle /\ sub.step = "idle" /\ calm = {} /\ entitled = {}
    BY DEF SubscriptionInit, Idle
  <2> QED  BY <2>1, <2>2 DEF SubscriptionInv, SubShaped, SecretStaysHome, HealthyInv, CalmHeld,
                             CalmPlaced, RefsCurrent, ScopesCurrent, HealthyLinesServed
<1>2. HealthyInv /\ SubscriptionInv /\ [SubscriptionNext]_svars => HealthyInv' /\ SubscriptionInv'
  <2> SUFFICES ASSUME HealthyInv, SubscriptionInv, [SubscriptionNext]_svars
               PROVE  HealthyInv' /\ SubscriptionInv'
    OBVIOUS
  <2>1. CASE RenderStep
    <3>1. SubscriptionInv' /\ SubShaped'
      BY <2>1, RenderSafe DEF SubscriptionInv
    <3>2. HealthyInv'
      BY <2>1, <3>1, BeginHealthy, OpenProfileHealthy, OpenPointHealthy, ReadScopeHealthy,
         RenderPointHealthy, FinishHealthy DEF RenderStep
    <3> QED  BY <3>1, <3>2
  <2>2. CASE VariableStep \/ TemplateStep \/ AccessStep
    <3>1. HealthyInv'
      BY <2>2, EditHealthy
    <3>2. SubscriptionInv'
      BY <2>2, EditsLeaveDocument DEF SubscriptionInv, SubShaped, SecretStaysHome
    <3> QED  BY <3>1, <3>2
  <2>3. CASE UNCHANGED svars
    <3>1. UNCHANGED <<vrow, ctpl, bind, entitled, withheld, cred, calm, sub>>
      BY <2>3 DEF svars
    <3>2. SubscriptionInv'
      BY <3>1 DEF SubscriptionInv, SubShaped, SecretStaysHome
    <3>3. TablesTyped' /\ CalmHeld' /\ entitled' \subseteq Profiles
      BY <3>1, StoredStays
    <3>4. CalmPlaced' /\ RefsCurrent' /\ HealthyLinesServed' /\ SubShaped'
      BY <3>1, <3>2 DEF HealthyInv, CalmPlaced, Placed, Served, RefsCurrent, HealthyLinesServed,
                        SubscriptionInv
    <3>5. ScopesCurrent'
      BY <3>1 DEF HealthyInv, ScopesCurrent, Agrees, OwnerAt
    <3> QED  BY <3>1, <3>2, <3>3, <3>4, <3>5 DEF HealthyInv
  <2> QED  BY <2>1, <2>2, <2>3 DEF SubscriptionNext
<1>3. HealthyInv => HealthyLinesServed
  BY DEF HealthyInv
<1> QED  BY <1>1, <1>2, <1>3, PTL DEF SubscriptionSpec

-----------------------------------------------------------------------------
(* Chains of other providers' nodes *)

\* A set of ids that chains do not leave.
ClosedIn(rows, C) == \A q \in C \cap DOMAIN rows : rows[q].chain \in C

\* The walk from an id, as checkExternalChain makes it.
Further(X) == X \cup {proxy[q].chain : q \in X \cap Rows}
Walks(W, n, p) == W = [k \in 0..n |-> IF k = 0 THEN {p} ELSE Further(W[k - 1])]

\* The walk of any length exists...
LEMMA WalkExists == ASSUME NEW n \in Nat, NEW p PROVE \E W : Walks(W, n, p)
<1> DEFINE S == {k \in Nat : \E W : Walks(W, k, p)}
<1>1. 0 \in S
  <2>1. Walks([i \in 0..0 |-> {p}], 0, p)
    BY DEF Walks
  <2> QED  BY <2>1
<1>2. ASSUME NEW k \in Nat, k \in S PROVE k + 1 \in S
  <2>1. PICK W : Walks(W, k, p)
    BY <1>2
  <2> DEFINE G == [i \in 0..(k + 1) |-> IF i \in 0..k THEN W[i] ELSE Further(W[k])]
  <2>2. \A i \in 0..k : W[i] = IF i = 0 THEN {p} ELSE Further(W[i - 1])
    BY <2>1 DEF Walks
  <2>3. ASSUME NEW i \in 0..(k + 1) PROVE G[i] = IF i = 0 THEN {p} ELSE Further(G[i - 1])
    <3>1. CASE i \in 0..k
      <4>1. G[i] = W[i] /\ (i # 0 => G[i - 1] = W[i - 1])
        BY <3>1
      <4> QED  BY <2>2, <3>1, <4>1
    <3>2. CASE i = k + 1
      <4>1. G[i] = Further(W[k]) /\ G[i - 1] = W[k] /\ i # 0
        BY <3>2
      <4> QED  BY <3>2, <4>1
    <3> QED  BY <3>1, <3>2
  <2>4. Walks(G, k + 1, p)
    <3> HIDE DEF G
    <3>1. G = [i \in 0..(k + 1) |-> G[i]]
      BY DEF G
    <3> QED  BY <2>3, <3>1 DEF Walks
  <2> QED  BY <2>4
<1> HIDE DEF S
<1>3. Nat \subseteq S
  BY <1>1, <1>2, SetInduction
<1> QED  BY <1>3 DEF S

\* ...and walkFrom is the one with as many steps as there are rows.
LEMMA WalkFromWalks ==
    ASSUME NEW p, Cardinality(Rows) \in Nat
    PROVE  \E W : Walks(W, Cardinality(Rows), p) /\ walkFrom(p) = W[Cardinality(Rows)]
<1> DEFINE W == CHOOSE V : V = [k \in 0..Cardinality(Rows) |->
                    IF k = 0 THEN {p} ELSE V[k - 1] \cup {proxy[q].chain : q \in V[k - 1] \cap Rows}]
<1>1. \E V : V = [k \in 0..Cardinality(Rows) |->
                    IF k = 0 THEN {p} ELSE V[k - 1] \cup {proxy[q].chain : q \in V[k - 1] \cap Rows}]
  <2>1. PICK V : Walks(V, Cardinality(Rows), p)
    BY WalkExists
  <2> QED  BY <2>1, Zenon DEF Walks, Further
<1>2. W = [k \in 0..Cardinality(Rows) |->
                    IF k = 0 THEN {p} ELSE W[k - 1] \cup {proxy[q].chain : q \in W[k - 1] \cap Rows}]
  BY <1>1, Zenon
<1>3. Walks(W, Cardinality(Rows), p)
  BY <1>2, Zenon DEF Walks, Further
<1>4. walkFrom(p) = W[Cardinality(Rows)]
  BY Zenon DEF walkFrom
<1> QED  BY <1>3, <1>4, Zenon

\* One step further: an open set gains a row or closes.
LEMMA WalkGrows ==
    ASSUME IsFiniteSet(Rows), NEW k \in Nat, NEW X, NEW Y,
           Y = X \cup {proxy[q].chain : q \in X \cap Rows},
           ClosedIn(proxy, X) \/ Cardinality(X \cap Rows) >= k
    PROVE  ClosedIn(proxy, Y) \/ Cardinality(Y \cap Rows) >= k + 1
<1>1. CASE ClosedIn(proxy, X)
  <2>1. Y = X
    BY <1>1 DEF ClosedIn, Rows
  <2> QED  BY <1>1, <2>1
<1>2. CASE Y \cap Rows = X \cap Rows
  BY <1>2 DEF ClosedIn, Rows
<1>3. CASE Y \cap Rows # X \cap Rows /\ Cardinality(X \cap Rows) >= k
  <2>1. IsFiniteSet(Y \cap Rows) /\ IsFiniteSet(X \cap Rows)
    BY FS_Intersection
  <2>2. PICK A, B : A = X \cap Rows /\ B = Y \cap Rows
    OBVIOUS
  <2>3. A \in SUBSET B /\ A # B
    BY <1>3, <2>2
  <2>4. Cardinality(A) <= Cardinality(B) /\ Cardinality(A) # Cardinality(B)
    BY <2>1, <2>2, <2>3, FS_Subset
  <2>5. Cardinality(A) \in Nat /\ Cardinality(B) \in Nat /\ Cardinality(A) >= k
    BY <1>3, <2>1, <2>2, FS_CardinalityType
  <2> QED  BY <2>2, <2>4, <2>5
<1> QED  BY <1>1, <1>2, <1>3

\* With as many steps as rows the walk has closed: it holds all that can be reached, and is the
\* least such set.
LEMMA WalkCloses ==
    ASSUME IsFiniteSet(Rows), NEW p
    PROVE  /\ ClosedIn(proxy, walkFrom(p)) /\ p \in walkFrom(p)
           /\ \A C : ClosedIn(proxy, C) /\ p \in C => walkFrom(p) \subseteq C
<1>1. PICK n \in Nat : n = Cardinality(Rows)
  BY FS_CardinalityType
<1>2. PICK W : Walks(W, n, p) /\ walkFrom(p) = W[n]
  BY <1>1, WalkFromWalks
<1> DEFINE S == {k \in Nat : k <= n => /\ ClosedIn(proxy, W[k]) \/ Cardinality(W[k] \cap Rows) >= k + 1
                                       /\ p \in W[k]
                                       /\ \A C : ClosedIn(proxy, C) /\ p \in C => W[k] \subseteq C}
<1>3. \A k \in 0..n : W[k] = IF k = 0 THEN {p} ELSE Further(W[k - 1])
  BY <1>2 DEF Walks
<1>4. 0 \in S
  <2>1. W[0] = {p}
    BY <1>3
  <2>2. CASE p \in Rows
    <3>1. {p} \cap Rows = {p} /\ Cardinality({p}) = 1
      BY <2>2, FS_Singleton
    <3> QED  BY <2>1, <3>1
  <2>3. CASE p \notin Rows
    <3>1. ClosedIn(proxy, {p})
      BY <2>3 DEF ClosedIn, Rows
    <3> QED  BY <2>1, <3>1
  <2> QED  BY <2>2, <2>3
<1>5. ASSUME NEW k \in Nat, k \in S PROVE k + 1 \in S
  <2> SUFFICES ASSUME k + 1 <= n
               PROVE  /\ ClosedIn(proxy, W[k + 1]) \/ Cardinality(W[k + 1] \cap Rows) >= k + 1 + 1
                      /\ p \in W[k + 1]
                      /\ \A C : ClosedIn(proxy, C) /\ p \in C => W[k + 1] \subseteq C
    OBVIOUS
  <2>1. PICK X, Y : X = W[k] /\ Y = W[k + 1]
    OBVIOUS
  <2>2. Y = X \cup {proxy[q].chain : q \in X \cap Rows}
    <3>1. Y = Further(X)
      BY <1>3, <2>1
    <3> QED  BY <3>1 DEF Further
  <2>3. /\ ClosedIn(proxy, X) \/ Cardinality(X \cap Rows) >= k + 1
        /\ p \in X /\ \A C : ClosedIn(proxy, C) /\ p \in C => X \subseteq C
    BY <1>5, <2>1
  <2>4. ClosedIn(proxy, Y) \/ Cardinality(Y \cap Rows) >= k + 1 + 1
    BY <2>2, <2>3, WalkGrows
  <2>5. \A C : ClosedIn(proxy, C) /\ p \in C => Y \subseteq C
    BY <2>2, <2>3 DEF ClosedIn, Rows
  <2> QED  BY <2>1, <2>2, <2>3, <2>4, <2>5
<1> HIDE DEF S
<1>6. Nat \subseteq S
  BY <1>4, <1>5, SetInduction
<1>7. /\ ClosedIn(proxy, W[n]) \/ Cardinality(W[n] \cap Rows) >= n + 1
      /\ p \in W[n] /\ \A C : ClosedIn(proxy, C) /\ p \in C => W[n] \subseteq C
  BY <1>6 DEF S
<1>8. ~ (Cardinality(W[n] \cap Rows) >= n + 1)
  <2>1. PICK A : A = W[n] \cap Rows
    OBVIOUS
  <2>2. A \in SUBSET Rows
    BY <2>1
  <2>3. IsFiniteSet(A) /\ Cardinality(A) <= n
    BY <1>1, <2>2, FS_Subset
  <2>4. Cardinality(A) \in Nat
    BY <2>3, FS_CardinalityType
  <2> QED  BY <2>1, <2>3, <2>4
<1> QED  BY <1>2, <1>7, <1>8

\* A chain does not lead back: something closed holds what it leads to and not the row itself.
NoLoop(rows, p, c) == \E C : ClosedIn(rows, C) /\ c \in C /\ p \notin C

\* The calls in flight, the chains there are, and the one a call has checked and not written yet.
EditsShaped ==
    /\ edit = [e \in Editors |-> edit[e]]
    /\ \A e \in Editors :
          \/ edit[e] = Resting
          \/ /\ edit[e] = [step |-> edit[e].step, row |-> edit[e].row, chain |-> edit[e].chain,
                           on |-> edit[e].on, exposed |-> edit[e].exposed]
             /\ edit[e].row \in 1..issued
ChainsHeld == \A p \in Rows : NoLoop(proxy, p, proxy[p].chain)
WritesHeld == \A e \in Editors : edit[e].step = "write" => NoLoop(proxy, edit[e].row, edit[e].chain)

\* The inductive invariant, for one call at a time.
ChainInv == CatalogInv /\ EditsShaped /\ ChainsHeld /\ WritesHeld

\* Between two statements rows go, come without a chain, or have their chain cut.
ChainsOnlyCut ==
    \A q \in Rows' : \/ q \in Rows /\ proxy'[q].chain = proxy[q].chain
                     \/ proxy'[q].chain = Direct

\* None of this closes a loop.
LEMMA CutSafe ==
    ASSUME CatalogInv, CatalogInv', ChainsHeld, ChainsOnlyCut
    PROVE  /\ ChainsHeld'
           /\ \A p \in Nat : \A c : NoLoop(proxy, p, c) => NoLoop(proxy', p, c)
<1>1. Direct \notin Rows' /\ Rows' \subseteq Nat /\ DOMAIN proxy = Rows /\ DOMAIN proxy' = Rows'
  BY CatalogAssumption DEF CatalogInv, RowsHeld, Rows
<1>2. ASSUME NEW p \in Nat, NEW c, NoLoop(proxy, p, c) PROVE NoLoop(proxy', p, c)
  <2>1. PICK C : ClosedIn(proxy, C) /\ c \in C /\ p \notin C
    BY <1>2 DEF NoLoop
  <2>2. PICK D : D = C \cup {Direct}
    OBVIOUS
  <2>3. ASSUME NEW q \in D \cap Rows' PROVE proxy'[q].chain \in D
    <3>1. q \in C
      BY <1>1, <2>2
    <3> QED  BY <1>1, <2>1, <2>2, <3>1 DEF ChainsOnlyCut, ClosedIn
  <2>4. ClosedIn(proxy', D)
    BY <1>1, <2>3 DEF ClosedIn
  <2>5. c \in D /\ p \notin D
    BY <2>1, <2>2, CatalogAssumption
  <2> QED  BY <2>4, <2>5 DEF NoLoop
<1>3. ASSUME NEW p \in Rows' PROVE NoLoop(proxy', p, proxy'[p].chain)
  <2>1. CASE p \in Rows /\ proxy'[p].chain = proxy[p].chain
    BY <1>1, <1>2, <2>1 DEF ChainsHeld
  <2>2. CASE proxy'[p].chain = Direct
    <3>1. ClosedIn(proxy', {Direct})
      BY <1>1 DEF ClosedIn
    <3>2. p # Direct
      BY <1>1
    <3> QED  BY <2>2, <3>1, <3>2 DEF NoLoop
  <2> QED  BY <2>1, <2>2 DEF ChainsOnlyCut
<1>4. ChainsHeld'
  BY <1>3 DEF ChainsHeld, NoLoop, ClosedIn
<1> QED  BY <1>2, <1>4

\* Everyone but the editors only cuts chains.
LEMMA OthersOnlyCut ==
    ASSUME CatalogInv, SourceStep \/ PeopleStep \/ PageStep
    PROVE  ChainsOnlyCut /\ edit' = edit
<1>1. ASSUME UNCHANGED <<proxy, edit>> PROVE ChainsOnlyCut /\ edit' = edit
  BY <1>1 DEF ChainsOnlyCut, Rows
<1>2. ASSUME NEW r, NEW rows, NEW gone, LeftOf(r, rows, gone), proxy' = r,
             \A q \in DOMAIN rows : (q \in Rows /\ rows[q].chain = proxy[q].chain) \/ rows[q].chain = Direct
      PROVE  ChainsOnlyCut
  BY <1>2 DEF ChainsOnlyCut, LeftOf, Rows
<1>3. CASE ReplaceExternalProxies
  <2>1. PICK F, m, gone : ReplacedBy(F, m, gone)
    BY <1>3, ReplaceParts
  <2>2. UNCHANGED proxy \/ proxy' = Remaining(m.rows, gone)
    BY <2>1 DEF ReplacedBy
  <2>3. edit' = edit /\ Folded(m)
    BY <2>1 DEF ReplacedBy
  <2>4. CASE proxy' = Remaining(m.rows, gone)
    <3>1. PICK r : r = Remaining(m.rows, gone)
      OBVIOUS
    <3>2. LeftOf(r, m.rows, gone)
      BY <2>3, <3>1, RemainingParts DEF Folded
    <3>3. \A q \in DOMAIN m.rows :
              (q \in Rows /\ m.rows[q].chain = proxy[q].chain) \/ m.rows[q].chain = Direct
      BY <2>3 DEF Folded
    <3> QED  BY <1>2, <2>3, <2>4, <3>1, <3>2, <3>3
  <2> QED  BY <1>1, <2>2, <2>3, <2>4
<1>4. ASSUME NEW f \in Feeds, DeleteExternalSub(f) PROVE ChainsOnlyCut /\ edit' = edit
  <2>1. PICK gone : gone = {p \in Rows : proxy[p].feed = f}
    OBVIOUS
  <2>2. proxy' = Remaining(proxy, gone) /\ edit' = edit
    BY <1>4, <2>1 DEF DeleteExternalSub, DeleteRows
  <2>3. PICK r : r = Remaining(proxy, gone)
    OBVIOUS
  <2>4. LeftOf(r, proxy, gone)
    BY <2>3, RemainingParts DEF CatalogInv, RowsHeld, Rows
  <2>5. \A q \in DOMAIN proxy : q \in Rows
    BY DEF Rows
  <2> QED  BY <1>2, <2>2, <2>3, <2>4, <2>5
<1>5. ASSUME NEW n \in Carriers, DeleteNode(n) PROVE ChainsOnlyCut /\ edit' = edit
  <2>1. /\ proxy' = [p \in Rows |-> IF proxy[p].chain = n THEN [proxy[p] EXCEPT !.chain = Direct]
                                    ELSE proxy[p]]
        /\ edit' = edit
    BY <1>5 DEF DeleteNode
  <2>2. ASSUME NEW q \in Rows PROVE proxy'[q].chain \in {proxy[q].chain, Direct}
    <3>1. PICK x : x = proxy[q] /\ RowKept(x)
      BY DEF CatalogInv, RowsHeld
    <3>2. proxy'[q] = x \/ proxy'[q] = [x EXCEPT !.chain = Direct]
      BY <2>1, <3>1
    <3>3. [x EXCEPT !.chain = Direct].chain = Direct
      BY <3>1 DEF RowKept
    <3> QED  BY <3>1, <3>2, <3>3
  <2>3. Rows' = Rows
    BY <2>1 DEF Rows
  <2> QED  BY <2>1, <2>2, <2>3 DEF ChainsOnlyCut
<1>6. CASE SourceStep
  BY <1>1, <1>3, <1>4, <1>6 DEF SourceStep, Refresh, createExternal, updateExternal, FetchFails, Fetched
<1>7. CASE PeopleStep
  BY <1>1, <1>5, <1>7 DEF PeopleStep, CreateUser, DeleteUser, SetExternalProxyAccess
<1>8. CASE PageStep
  BY <1>1, <1>8 DEF PageStep, externalFragments, ReadProxies, Serve, DropUnresolved
<1> QED  BY <1>6, <1>7, <1>8

\* A chain that was checked is written: no loop closes, neither through the row nor elsewhere.
LEMMA WriteSafe ==
    ASSUME CatalogInv, ChainsHeld, NEW row0 \in Rows, NEW c, NoLoop(proxy, row0, c),
           Rows' = Rows, proxy'[row0].chain = c,
           \A q \in Rows : q # row0 => proxy'[q].chain = proxy[q].chain
    PROVE  ChainsHeld'
<1>1. DOMAIN proxy = Rows /\ DOMAIN proxy' = Rows
  BY DEF Rows
<1>2. PICK B : ClosedIn(proxy, B) /\ c \in B /\ row0 \notin B
  BY DEF NoLoop
<1>3. ASSUME NEW p \in Rows PROVE NoLoop(proxy', p, proxy'[p].chain)
  <2>1. CASE p = row0
    <3>1. ClosedIn(proxy', B)
      BY <1>1, <1>2 DEF ClosedIn
    <3> QED  BY <1>2, <2>1, <3>1 DEF NoLoop
  <2>2. CASE p # row0
    <3>1. PICK C : ClosedIn(proxy, C) /\ proxy[p].chain \in C /\ p \notin C
      BY DEF ChainsHeld, NoLoop
    <3>2. CASE p \in B
      <4>1. PICK D : D = B \cap C
        OBVIOUS
      <4>2. ClosedIn(proxy', D)
        BY <1>1, <1>2, <3>1, <4>1 DEF ClosedIn
      <4>3. proxy[p].chain \in D /\ p \notin D
        BY <1>1, <1>2, <3>1, <3>2, <4>1 DEF ClosedIn
      <4> QED  BY <2>2, <4>2, <4>3 DEF NoLoop
    <3>3. CASE p \notin B
      <4>1. PICK D : D = B \cup C
        OBVIOUS
      <4>2. ClosedIn(proxy', D)
        BY <1>1, <1>2, <3>1, <4>1 DEF ClosedIn
      <4>3. proxy[p].chain \in D /\ p \notin D
        BY <3>1, <3>3, <4>1
      <4> QED  BY <2>2, <4>2, <4>3 DEF NoLoop
    <3> QED  BY <3>2, <3>3
  <2> QED  BY <2>1, <2>2
<1> QED  BY <1>3 DEF ChainsHeld, NoLoop, ClosedIn

\* The steps of the one call.
LEMMA EditKeepsChains ==
    ASSUME ChainInv, CatalogInv', NEW e, Editors = {e}, EditStep(e)
    PROVE  EditsShaped' /\ ChainsHeld' /\ WritesHeld'
<1> USE DEF ChainInv
<1>1. PICK w : w = edit[e]
  OBVIOUS
<1>2. issued' = issued /\ issued \in Nat /\ Rows \subseteq 1..issued /\ edit = [d \in Editors |-> edit[d]]
  BY DEF EditStep, setExternalProxy, SetExternalProxyExposed, checkExternalChain, SetExternalProxy,
         CatalogInv, RowsHeld, EditsShaped
<1>3. ASSUME NEW j, edit' = [edit EXCEPT ![e] = j],
             \/ j = Resting
             \/ /\ j = [step |-> j.step, row |-> j.row, chain |-> j.chain, on |-> j.on,
                        exposed |-> j.exposed]
                /\ j.row \in 1..issued
      PROVE  EditsShaped' /\ edit'[e] = j
  BY <1>2, <1>3 DEF EditsShaped
<1>4. ASSUME UNCHANGED proxy PROVE ChainsHeld'
  BY <1>4 DEF ChainsHeld, NoLoop, ClosedIn, Rows
<1>5. ASSUME NEW j, edit'[e] = j, j.step # "write" PROVE WritesHeld'
  BY <1>5 DEF WritesHeld
<1>6. Resting.step # "write"
  BY DEF Resting
<1>7. ASSUME w # Resting
      PROVE  /\ w = [step |-> w.step, row |-> w.row, chain |-> w.chain, on |-> w.on,
                     exposed |-> w.exposed]
             /\ w.row \in 1..issued
  BY <1>1, <1>7 DEF EditsShaped
<1>8. ASSUME NEW p \in Rows, NEW chain, NEW on \in BOOLEAN, NEW exposed \in BOOLEAN,
             setExternalProxy(e, p, chain, on, exposed)
      PROVE  EditsShaped' /\ ChainsHeld' /\ WritesHeld'
  <2>1. PICK j : j = [step |-> "expose", row |-> p, chain |-> chain, on |-> on, exposed |-> exposed]
    OBVIOUS
  <2>2. edit' = [edit EXCEPT ![e] = j] /\ UNCHANGED proxy
    BY <1>8, <2>1 DEF setExternalProxy
  <2>3. /\ j = [step |-> j.step, row |-> j.row, chain |-> j.chain, on |-> j.on, exposed |-> j.exposed]
        /\ j.row \in 1..issued /\ j.step # "write"
    BY <1>2, <2>1
  <2>4. EditsShaped' /\ edit'[e] = j
    BY <1>3, <2>2, <2>3
  <2> QED  BY <1>4, <1>5, <2>2, <2>3, <2>4
<1>9. CASE SetExternalProxyExposed(e)
  <2>1. w.step = "expose" /\ w # Resting
    BY <1>1, <1>9 DEF SetExternalProxyExposed, Resting
  <2>2. CASE w.row \notin Rows
    <3>1. edit' = [edit EXCEPT ![e] = Resting] /\ UNCHANGED proxy
      BY <1>1, <1>9, <2>2 DEF SetExternalProxyExposed
    <3>2. EditsShaped' /\ edit'[e] = Resting
      BY <1>3, <3>1
    <3> QED  BY <1>4, <1>5, <1>6, <3>1, <3>2
  <2>3. CASE w.row \in Rows
    <3>1. proxy' = [proxy EXCEPT ![w.row].exposed = w.exposed] /\ edit' = [edit EXCEPT ![e].step = "walk"]
      BY <1>1, <1>9, <2>3 DEF SetExternalProxyExposed
    <3>2. PICK j : j = [step |-> "walk", row |-> w.row, chain |-> w.chain, on |-> w.on, exposed |-> w.exposed]
      OBVIOUS
    <3>3. [w EXCEPT !.step = "walk"] = j
      BY <1>7, <2>1, <3>2
    <3>4. edit' = [edit EXCEPT ![e] = j]
      BY <1>1, <3>1, <3>3
    <3>5. /\ j = [step |-> j.step, row |-> j.row, chain |-> j.chain, on |-> j.on, exposed |-> j.exposed]
          /\ j.row \in 1..issued /\ j.step # "write"
      BY <1>7, <2>1, <3>2
    <3>6. EditsShaped' /\ edit'[e] = j
      BY <1>3, <3>4, <3>5
    <3>7. ChainsOnlyCut
      <4>1. PICK x : x = proxy[w.row] /\ RowKept(x)
        BY <2>3 DEF CatalogInv, RowsHeld
      <4>2. [x EXCEPT !.exposed = w.exposed].chain = x.chain
        BY <4>1 DEF RowKept
      <4>3. Rows' = Rows /\ \A q \in Rows : proxy'[q].chain = proxy[q].chain
        BY <2>3, <3>1, <4>1, <4>2 DEF Rows
      <4> QED  BY <4>3 DEF ChainsOnlyCut
    <3>8. ChainsHeld'
      BY <3>7, CutSafe
    <3> QED  BY <1>5, <3>5, <3>6, <3>8
  <2> QED  BY <2>2, <2>3
<1>10. CASE checkExternalChain(e)
  <2>1. w.step = "walk" /\ w # Resting /\ UNCHANGED proxy
    BY <1>1, <1>10 DEF checkExternalChain, Resting
  <2>2. CASE loops(w.row, w.chain)
    <3>1. edit' = [edit EXCEPT ![e] = Resting]
      BY <1>1, <1>10, <2>2 DEF checkExternalChain
    <3>2. EditsShaped' /\ edit'[e] = Resting
      BY <1>3, <3>1
    <3> QED  BY <1>4, <1>5, <1>6, <2>1, <3>2
  <2>3. CASE ~ loops(w.row, w.chain)
    <3>1. PICK j : j = [step |-> "write", row |-> w.row, chain |-> w.chain, on |-> w.on, exposed |-> w.exposed]
      OBVIOUS
    <3>2. [w EXCEPT !.step = "write"] = j
      BY <1>7, <2>1, <3>1
    <3>3. edit' = [edit EXCEPT ![e] = j]
      BY <1>1, <1>10, <2>3, <3>2 DEF checkExternalChain
    <3>4. /\ j = [step |-> j.step, row |-> j.row, chain |-> j.chain, on |-> j.on, exposed |-> j.exposed]
          /\ j.row \in 1..issued /\ j.row = w.row /\ j.chain = w.chain
      BY <1>7, <2>1, <3>1
    <3>5. EditsShaped' /\ edit'[e] = j
      BY <1>3, <3>3, <3>4
    <3>6. IsFiniteSet(Rows)
      <4>1. 1 \in Int /\ issued \in Int
        BY <1>2
      <4>2. IsFiniteSet(1..issued)
        BY <4>1, FS_Interval
      <4> QED  BY <1>2, <4>2, FS_Subset
    <3>7. /\ ClosedIn(proxy, walkFrom(w.chain)) /\ w.chain \in walkFrom(w.chain)
          /\ w.row \notin walkFrom(w.chain)
      BY <2>3, <3>6, WalkCloses DEF loops
    <3>8. NoLoop(proxy, w.row, w.chain)
      BY <3>7 DEF NoLoop
    <3>9. NoLoop(proxy', w.row, w.chain)
      BY <2>1, <3>8
    <3>10. WritesHeld'
      BY <3>4, <3>5, <3>9 DEF WritesHeld
    <3> QED  BY <1>4, <2>1, <3>5, <3>10
  <2> QED  BY <2>2, <2>3
<1>11. CASE SetExternalProxy(e)
  <2>1. w.step = "write" /\ w # Resting /\ edit' = [edit EXCEPT ![e] = Resting]
    BY <1>1, <1>11 DEF SetExternalProxy, Resting
  <2>2. EditsShaped' /\ edit'[e] = Resting
    BY <1>3, <2>1
  <2>3. \/ UNCHANGED proxy
        \/ w.row \in Rows /\ proxy' = [proxy EXCEPT ![w.row].chain = w.chain, ![w.row].on = w.on]
    BY <1>1, <1>11 DEF SetExternalProxy
  <2>4. CASE w.row \in Rows /\ proxy' = [proxy EXCEPT ![w.row].chain = w.chain, ![w.row].on = w.on]
    <3>1. PICK x : x = proxy[w.row] /\ RowKept(x)
      BY <2>4 DEF CatalogInv, RowsHeld
    <3>2. PICK y : y = [feed |-> x.feed, name |-> x.name, end |-> x.end, ord |-> x.ord,
                        chain |-> w.chain, on |-> x.on, exposed |-> x.exposed]
      OBVIOUS
    <3>3. [x EXCEPT !.chain = w.chain] = y
      BY <3>1, <3>2 DEF RowKept
    <3>4. PICK q : q = [proxy EXCEPT ![w.row].chain = w.chain]
      OBVIOUS
    <3>5. proxy' = [q EXCEPT ![w.row].on = w.on] /\ DOMAIN proxy = Rows
      BY <2>4, <3>4 DEF Rows
    <3>6. DOMAIN q = Rows /\ q[w.row] = y /\ \A p \in Rows : p # w.row => q[p] = proxy[p]
      BY <2>4, <3>1, <3>3, <3>4, <3>5
    <3>7. [y EXCEPT !.on = w.on].chain = w.chain
      BY <3>2
    <3>8. /\ Rows' = Rows /\ proxy'[w.row].chain = w.chain
          /\ \A p \in Rows : p # w.row => proxy'[p].chain = proxy[p].chain
      BY <2>4, <3>5, <3>6, <3>7 DEF Rows
    <3>9. NoLoop(proxy, w.row, w.chain)
      BY <1>1, <2>1 DEF WritesHeld
    <3>10. ChainsHeld'
      BY <2>4, <3>8, <3>9, WriteSafe
    <3> QED  BY <1>5, <1>6, <2>2, <3>10
  <2> QED  BY <1>4, <1>5, <1>6, <2>2, <2>3, <2>4
<1> QED  BY <1>8, <1>9, <1>10, <1>11 DEF EditStep

\* Every step, when there is one editor.
LEMMA ChainStep ==
    ASSUME ChainInv, [CatalogNext]_cvars, NEW e, Editors = {e} PROVE ChainInv'
<1>1. CatalogInv'
  BY CatalogStep DEF ChainInv
<1>2. CASE \E d \in Editors : EditStep(d)
  BY <1>1, <1>2, EditKeepsChains DEF ChainInv
<1>3. ASSUME ChainsOnlyCut, edit' = edit PROVE ChainInv'
  <2>1. ChainsHeld' /\ \A p \in Nat : \A c : NoLoop(proxy, p, c) => NoLoop(proxy', p, c)
    BY <1>1, <1>3, CutSafe DEF ChainInv
  <2>2. issued \in Nat /\ issued' \in Nat /\ issued <= issued'
    <3>1. issued \in Nat /\ issued' \in Nat
      BY <1>1 DEF ChainInv, CatalogInv, RowsHeld
    <3>2. CASE ReplaceExternalProxies
      <4>1. PICK F, m, gone : ReplacedBy(F, m, gone)
        BY <3>2, ReplaceParts DEF ChainInv
      <4> QED  BY <3>1, <4>1 DEF ReplacedBy, Folded
    <3>3. CASE ~ ReplaceExternalProxies
      <4>1. issued' = issued
        BY <3>3 DEF CatalogNext, SourceStep, PeopleStep, EditStep, PageStep, Refresh,
            DeleteExternalSub, createExternal, updateExternal, FetchFails, Fetched, CreateUser,
            DeleteUser, SetExternalProxyAccess, DeleteNode, setExternalProxy,
            SetExternalProxyExposed, checkExternalChain, SetExternalProxy, externalFragments,
            ReadProxies, Serve, DropUnresolved, cvars
      <4> QED  BY <3>1, <4>1
    <3> QED  BY <3>2, <3>3
  <2>3. EditsShaped'
    BY <1>3, <2>2 DEF ChainInv, EditsShaped
  <2>4. WritesHeld'
    <3>1. ASSUME NEW d \in Editors, edit[d].step = "write" PROVE edit[d].row \in Nat
      BY <2>2, <3>1 DEF ChainInv, EditsShaped, Resting
    <3> QED  BY <1>3, <2>1, <3>1 DEF ChainInv, WritesHeld
  <2> QED  BY <1>1, <2>1, <2>3, <2>4 DEF ChainInv
<1>4. CASE SourceStep \/ PeopleStep \/ PageStep
  BY <1>3, <1>4, OthersOnlyCut DEF ChainInv
<1>5. CASE UNCHANGED cvars
  BY <1>3, <1>5 DEF cvars, ChainsOnlyCut, Rows
<1> QED  BY <1>2, <1>4, <1>5 DEF CatalogNext

\* "A chain that loops has no rendering, so it must not be storable", with one request at a time:
\* the chain is walked and written in two statements, and what other statements do between them
\* -- refreshes, deletions, cut chains -- never closes a loop (checkExternalChain,
\* SetExternalProxy).
THEOREM ChainsAlwaysEnd == CatalogSpec => []ChainsEnd
<1>1. CASE Cardinality(Editors) # 1
  <2>1. ChainsEnd
    BY <1>1 DEF ChainsEnd
  <2> QED  BY <2>1, PTL
<1>2. CASE Cardinality(Editors) = 1
  <2>1. PICK e : Editors = {e}
    BY <1>2, FS_Singleton, CatalogAssumption
  <2>2. CatalogInit => ChainInv
    <3> SUFFICES ASSUME CatalogInit PROVE ChainInv
      OBVIOUS
    <3>1. CatalogInv
      BY CatalogInitial
    <3>2. Rows = {} /\ EditsShaped /\ WritesHeld
      BY DEF CatalogInit, Rows, EditsShaped, WritesHeld, Resting
    <3> QED  BY <3>1, <3>2 DEF ChainInv, ChainsHeld
  <2>3. ChainInv /\ [CatalogNext]_cvars => ChainInv'
    BY <2>1, ChainStep
  <2>4. ChainInv => ChainsEnd
    <3> SUFFICES ASSUME ChainInv, NEW p \in Rows PROVE p \notin walkFrom(proxy[p].chain)
      BY DEF ChainsEnd
    <3>1. IsFiniteSet(Rows)
      <4>1. issued \in Nat /\ Rows \subseteq 1..issued
        BY DEF ChainInv, CatalogInv, RowsHeld
      <4>2. IsFiniteSet(1..issued)
        BY <4>1, FS_Interval
      <4> QED  BY <4>1, <4>2, FS_Subset
    <3>2. PICK C : ClosedIn(proxy, C) /\ proxy[p].chain \in C /\ p \notin C
      BY DEF ChainInv, ChainsHeld, NoLoop
    <3>3. walkFrom(proxy[p].chain) \subseteq C
      BY <3>1, <3>2, WalkCloses
    <3> QED  BY <3>2, <3>3
  <2> QED  BY <2>2, <2>3, <2>4, PTL DEF CatalogSpec
<1> QED  BY <1>1, <1>2
-----------------------------------------------------------------------------
(* The groups of a preset *)

Stepwise(f, n, v, g) == f = [i \in 0..n |-> IF i = 0 THEN v ELSE g[i][f[i - 1]]]

\* A function defined step by step exists, whatever the steps are.
LEMMA Recursion ==
    ASSUME NEW n \in Nat, NEW v, NEW g PROVE \E f : Stepwise(f, n, v, g)
<1> DEFINE Is(f, k) == f = [i \in 0..k |-> IF i = 0 THEN v ELSE g[i][f[i - 1]]]
<1> DEFINE S == {k \in Nat : \E f : Is(f, k)}
<1>1. 0 \in S
  <2>1. Is([i \in 0..0 |-> v], 0)
    OBVIOUS
  <2> QED  BY <2>1
<1>2. ASSUME NEW k \in Nat, k \in S PROVE k + 1 \in S
  <2>1. PICK f : Is(f, k)
    BY <1>2
  <2> DEFINE h == [i \in 0..(k + 1) |-> IF i \in 0..k THEN f[i] ELSE g[i][f[k]]]
  <2>2. \A i \in 0..k : f[i] = IF i = 0 THEN v ELSE g[i][f[i - 1]]
    BY <2>1
  <2>3. ASSUME NEW i \in 0..(k + 1) PROVE h[i] = IF i = 0 THEN v ELSE g[i][h[i - 1]]
    <3>1. CASE i \in 0..k
      <4>1. h[i] = f[i] /\ (i # 0 => h[i - 1] = f[i - 1])
        BY <3>1
      <4> QED  BY <2>2, <3>1, <4>1
    <3>2. CASE i = k + 1
      <4>1. h[i] = g[i][f[k]] /\ h[i - 1] = f[k] /\ i # 0
        BY <3>2
      <4> QED  BY <3>2, <4>1
    <3> QED  BY <3>1, <3>2
  <2>4. Is(h, k + 1)
    <3> HIDE DEF h
    <3>1. h = [i \in 0..(k + 1) |-> h[i]]
      BY DEF h
    <3> QED  BY <2>3, <3>1
  <2> HIDE DEF Is, h
  <2> QED  BY <2>4
<1> HIDE DEF S
<1>3. Nat \subseteq S
  BY <1>1, <1>2, SetInduction
<1> QED  BY <1>3 DEF S, Stepwise

\* Groups that support one another: none is left empty.
Supported(x, names, S) == \A g \in S : expand(x, g, names, S) # {}

\* Dropping an empty group keeps every such set, and empties no group that had members.
LEMMA DropParts ==
    ASSUME NEW x, NEW names, NEW X, NEW g
    PROVE  /\ drop(x, names, X, g) \subseteq X
           /\ \A S : Supported(x, names, S) /\ S \subseteq X => S \subseteq drop(x, names, X, g)
           /\ drop(x, names, X, g) = X => (g \in X => expand(x, g, names, X) # {})
<1>1. ASSUME NEW S, Supported(x, names, S), S \subseteq X PROVE S \subseteq drop(x, names, X, g)
  <2>1. CASE g \in S
    <3>1. expand(x, g, names, S) # {}
      BY <1>1, <2>1 DEF Supported
    <3>2. expand(x, g, names, S) \subseteq expand(x, g, names, X)
      BY <1>1 DEF expand
    <3>3. expand(x, g, names, X) # {}
      BY <3>1, <3>2
    <3> QED  BY <1>1, <3>3 DEF drop
  <2> QED  BY <1>1, <2>1 DEF drop
<1>2. drop(x, names, X, g) \subseteq X
  BY DEF drop
<1>3. drop(x, names, X, g) = X => (g \in X => expand(x, g, names, X) # {})
  BY DEF drop
<1> QED  BY <1>1, <1>2, <1>3

\* A pass as a run of drops.
Drops(A, x, names, alive) ==
    A = [i \in 0..Len(x.order) |-> IF i = 0 THEN alive ELSE drop(x, names, A[i - 1], x.order[i])]

\* One pass over the groups is such a run.
LEMMA PassDrops ==
    ASSUME NEW x \in Presets, NEW names, NEW alive
    PROVE  \E A : Drops(A, x, names, alive) /\ pass(x, names, alive) = A[Len(x.order)]
<1>1. PICK n \in Nat : n = Len(x.order)
  BY RoutingAssumption
<1> DEFINE g == [i \in 1..n |-> [X \in SUBSET alive |-> drop(x, names, X, x.order[i])]]
<1>2. PICK f : Stepwise(f, n, alive, g)
  <2> HIDE DEF g
  <2> QED  BY <1>1, Recursion
<1>3. f[0] = alive /\ \A i \in 1..n : f[i] = g[i][f[i - 1]]
  <2> HIDE DEF g
  <2> QED  BY <1>2 DEF Stepwise
<1> DEFINE S == {k \in Nat : k <= n => f[k] \subseteq alive}
<1>4. ASSUME NEW i \in 1..n, f[i - 1] \subseteq alive
      PROVE  f[i] = drop(x, names, f[i - 1], x.order[i]) /\ f[i] \subseteq alive
  <2>1. f[i] = g[i][f[i - 1]]
    <3> HIDE DEF g
    <3> QED  BY <1>3
  <2>2. PICK X : X = f[i - 1]
    OBVIOUS
  <2>3. X \in SUBSET alive /\ f[i] = g[i][X]
    BY <1>4, <2>1, <2>2
  <2>4. f[i] = drop(x, names, X, x.order[i])
    BY <2>3
  <2>5. drop(x, names, X, x.order[i]) \subseteq X
    BY DropParts
  <2> QED  BY <2>2, <2>3, <2>4, <2>5
<1>5. 0 \in S
  BY <1>3
<1>6. ASSUME NEW k \in Nat, k \in S PROVE k + 1 \in S
  <2> HIDE DEF g
  <2> SUFFICES ASSUME k + 1 <= n PROVE f[k + 1] \subseteq alive
    OBVIOUS
  <2>1. k + 1 \in 1..n /\ k + 1 - 1 = k /\ f[k] \subseteq alive
    BY <1>6
  <2> QED  BY <1>4, <2>1
<1>7. Nat \subseteq S
  <2> HIDE DEF S
  <2> QED  BY <1>5, <1>6, SetInduction
<1>8. \A i \in 0..n : f[i] = IF i = 0 THEN alive ELSE drop(x, names, f[i - 1], x.order[i])
  <2> HIDE DEF g
  <2> SUFFICES ASSUME NEW i \in 0..n
               PROVE  f[i] = IF i = 0 THEN alive ELSE drop(x, names, f[i - 1], x.order[i])
    OBVIOUS
  <2>1. CASE i = 0
    BY <1>3, <2>1
  <2>2. CASE i # 0
    <3>1. i \in 1..n /\ i - 1 \in S /\ i - 1 <= n
      BY <1>7, <2>2
    <3> QED  BY <1>4, <2>2, <3>1
  <2> QED  BY <2>1, <2>2
<1>9. Drops(f, x, names, alive)
  <2> HIDE DEF g
  <2>1. f = [i \in 0..n |-> f[i]]
    BY <1>2 DEF Stepwise
  <2> QED  BY <1>1, <1>8, <2>1 DEF Drops
<1> DEFINE A == CHOOSE B : B = [i \in 0..Len(x.order) |->
                    IF i = 0 THEN alive ELSE drop(x, names, B[i - 1], x.order[i])]
<1>10. \E B : B = [i \in 0..Len(x.order) |->
                    IF i = 0 THEN alive ELSE drop(x, names, B[i - 1], x.order[i])]
  BY <1>9, Zenon DEF Drops
<1>11. Drops(A, x, names, alive)
  BY <1>10, Zenon DEF Drops
<1>12. pass(x, names, alive) = A[Len(x.order)]
  BY Zenon DEF pass
<1> QED  BY <1>11, <1>12, Zenon

\* A pass keeps every set of groups that support one another, and one that drops nothing has
\* found such a set.
LEMMA PassParts ==
    ASSUME NEW x \in Presets, NEW names, NEW alive \in SUBSET Groups(x)
    PROVE  /\ pass(x, names, alive) \subseteq alive
           /\ \A S : Supported(x, names, S) /\ S \subseteq alive => S \subseteq pass(x, names, alive)
           /\ pass(x, names, alive) = alive => Supported(x, names, alive)
<1>1. PICK A : Drops(A, x, names, alive) /\ pass(x, names, alive) = A[Len(x.order)]
  BY PassDrops
<1>2. PICK n \in Nat : n = Len(x.order)
  BY RoutingAssumption
<1>3. A[0] = alive /\ \A i \in 1..n : A[i] = drop(x, names, A[i - 1], x.order[i])
  <2>1. \A i \in 0..n : A[i] = IF i = 0 THEN alive ELSE drop(x, names, A[i - 1], x.order[i])
    BY <1>1, <1>2, Zenon DEF Drops
  <2> QED  BY <2>1
<1> DEFINE Good(i) ==
    /\ A[i] \subseteq alive
    /\ \A S : Supported(x, names, S) /\ S \subseteq alive => S \subseteq A[i]
    /\ A[i] = alive => \A j \in 1..i : x.order[j] \in alive => expand(x, x.order[j], names, alive) # {}
<1> DEFINE T == {k \in Nat : k <= n => Good(k)}
<1>4. 0 \in T
  BY <1>3
<1>5. ASSUME NEW k \in Nat, k \in T PROVE k + 1 \in T
  <2> SUFFICES ASSUME k + 1 <= n PROVE Good(k + 1)
    OBVIOUS
  <2>1. PICK X, Y, g : X = A[k] /\ Y = A[k + 1] /\ g = x.order[k + 1]
    OBVIOUS
  <2>2. Y = drop(x, names, X, g)
    BY <1>3, <2>1
  <2>3. Good(k)
    BY <1>5
  <2>4. /\ Y \subseteq X
        /\ \A S : Supported(x, names, S) /\ S \subseteq X => S \subseteq Y
        /\ Y = X => (g \in X => expand(x, g, names, X) # {})
    BY <2>2, DropParts
  <2>5. Y \subseteq alive /\ \A S : Supported(x, names, S) /\ S \subseteq alive => S \subseteq Y
    BY <2>1, <2>3, <2>4
  <2>6. ASSUME Y = alive, NEW j \in 1..(k + 1), x.order[j] \in alive
        PROVE  expand(x, x.order[j], names, alive) # {}
    <3>1. X = alive
      BY <2>1, <2>3, <2>4, <2>6
    <3>2. CASE j = k + 1
      BY <2>1, <2>4, <2>6, <3>1, <3>2
    <3>3. CASE j \in 1..k
      BY <2>1, <2>3, <2>6, <3>1, <3>3
    <3> QED  BY <3>2, <3>3
  <2> QED  BY <2>1, <2>5, <2>6
<1>6. Nat \subseteq T
  <2> HIDE DEF T
  <2> QED  BY <1>4, <1>5, SetInduction
<1>7. Good(n)
  BY <1>6
<1>8. ASSUME pass(x, names, alive) = alive PROVE Supported(x, names, alive)
  <2> SUFFICES ASSUME NEW g \in alive PROVE expand(x, g, names, alive) # {}
    BY DEF Supported
  <2>1. PICK j \in 1..n : g = x.order[j]
    BY <1>2, RoutingAssumption DEF Groups
  <2> QED  BY <1>1, <1>2, <1>7, <1>8, <2>1
<1> QED  BY <1>1, <1>2, <1>7, <1>8

\* The passes.
Passes(R, x, names) ==
    R = [k \in 0..Len(x.order) |-> IF k = 0 THEN Groups(x) ELSE pass(x, names, R[k - 1])]

\* resolveGroups makes as many passes as there are groups.
LEMMA ResolvePasses ==
    ASSUME NEW x \in Presets, NEW names
    PROVE  \E R : Passes(R, x, names) /\ resolveGroups(x, names) = R[Len(x.order)]
<1>1. PICK n \in Nat : n = Len(x.order)
  BY RoutingAssumption
<1>2. PICK G : G = Groups(x)
  OBVIOUS
<1> DEFINE g == [i \in 1..n |-> [X \in SUBSET G |-> pass(x, names, X)]]
<1>3. PICK f : Stepwise(f, n, G, g)
  <2> HIDE DEF g
  <2> QED  BY <1>1, Recursion
<1>4. f[0] = G /\ \A i \in 1..n : f[i] = g[i][f[i - 1]]
  <2> HIDE DEF g
  <2> QED  BY <1>3 DEF Stepwise
<1> DEFINE S == {k \in Nat : k <= n => f[k] \subseteq G}
<1>5. ASSUME NEW i \in 1..n, f[i - 1] \subseteq G
      PROVE  f[i] = pass(x, names, f[i - 1]) /\ f[i] \subseteq G
  <2>1. f[i] = g[i][f[i - 1]]
    <3> HIDE DEF g
    <3> QED  BY <1>4
  <2>2. PICK X : X = f[i - 1]
    OBVIOUS
  <2>3. X \in SUBSET G /\ f[i] = g[i][X]
    BY <1>5, <2>1, <2>2
  <2>4. f[i] = pass(x, names, X)
    BY <2>3
  <2>5. pass(x, names, X) \subseteq X
    BY <1>2, <2>3, PassParts
  <2> QED  BY <2>2, <2>3, <2>4, <2>5
<1>6. 0 \in S
  BY <1>4
<1>7. ASSUME NEW k \in Nat, k \in S PROVE k + 1 \in S
  <2> HIDE DEF g
  <2> SUFFICES ASSUME k + 1 <= n PROVE f[k + 1] \subseteq G
    OBVIOUS
  <2>1. k + 1 \in 1..n /\ k + 1 - 1 = k /\ f[k] \subseteq G
    BY <1>7
  <2> QED  BY <1>5, <2>1
<1>8. Nat \subseteq S
  <2> HIDE DEF S
  <2> QED  BY <1>6, <1>7, SetInduction
<1>9. \A i \in 0..n : f[i] = IF i = 0 THEN G ELSE pass(x, names, f[i - 1])
  <2> HIDE DEF g
  <2> SUFFICES ASSUME NEW i \in 0..n
               PROVE  f[i] = IF i = 0 THEN G ELSE pass(x, names, f[i - 1])
    OBVIOUS
  <2>1. CASE i = 0
    BY <1>4, <2>1
  <2>2. CASE i # 0
    <3>1. i \in 1..n /\ i - 1 \in S /\ i - 1 <= n
      BY <1>8, <2>2
    <3> QED  BY <1>5, <2>2, <3>1
  <2> QED  BY <2>1, <2>2
<1>10. Passes(f, x, names)
  <2> HIDE DEF g
  <2>1. f = [i \in 0..n |-> f[i]]
    BY <1>3 DEF Stepwise
  <2> QED  BY <1>1, <1>2, <1>9, <2>1 DEF Passes
<1> DEFINE R == CHOOSE B : B = [k \in 0..Len(x.order) |->
                    IF k = 0 THEN Groups(x) ELSE pass(x, names, B[k - 1])]
<1>11. \E B : B = [k \in 0..Len(x.order) |-> IF k = 0 THEN Groups(x) ELSE pass(x, names, B[k - 1])]
  BY <1>10, Zenon DEF Passes
<1>12. Passes(R, x, names)
  BY <1>11, Zenon DEF Passes
<1>13. resolveGroups(x, names) = R[Len(x.order)]
  BY Zenon DEF resolveGroups
<1> QED  BY <1>12, <1>13, Zenon

\* A preset has no more groups than it lists.
LEMMA GroupsCounted ==
    ASSUME NEW x \in Presets
    PROVE  IsFiniteSet(Groups(x)) /\ Cardinality(Groups(x)) <= Len(x.order) /\ Len(x.order) \in Nat
<1>1. PICK n \in Nat : n = Len(x.order)
  BY RoutingAssumption
<1>2. IsFiniteSet(1..n) /\ Cardinality(1..n) = n
  <2>1. 1 \in Int /\ n \in Int
    BY <1>1
  <2>2. IsFiniteSet(1..n) /\ Cardinality(1..n) = IF 1 > n THEN 0 ELSE n - 1 + 1
    BY <2>1, FS_Interval
  <2> QED  BY <1>1, <2>2
<1>3. PICK f : f = [i \in 1..n |-> x.order[i]]
  OBVIOUS
<1>4. f \in Surjection(1..n, Groups(x))
  <2>1. Groups(x) = {x.order[i] : i \in 1..n}
    BY <1>1, RoutingAssumption DEF Groups
  <2> QED  BY <1>3, <2>1 DEF Surjection
<1> QED  BY <1>1, <1>2, <1>4, FS_Surjection

\* The passes end where they should: in the largest set of groups that support one another.
LEMMA ResolveParts ==
    ASSUME NEW x \in Presets, NEW names
    PROVE  /\ resolveGroups(x, names) \subseteq Groups(x)
           /\ Supported(x, names, resolveGroups(x, names))
           /\ \A S \in SUBSET Groups(x) :
                 Supported(x, names, S) => S \subseteq resolveGroups(x, names)
<1>1. PICK R : Passes(R, x, names) /\ resolveGroups(x, names) = R[Len(x.order)]
  BY ResolvePasses
<1>2. PICK n \in Nat : n = Len(x.order)
  BY RoutingAssumption
<1>3. R[0] = Groups(x) /\ \A k \in 1..n : R[k] = pass(x, names, R[k - 1])
  <2>1. \A k \in 0..n : R[k] = IF k = 0 THEN Groups(x) ELSE pass(x, names, R[k - 1])
    BY <1>1, <1>2, Zenon DEF Passes
  <2> QED  BY <2>1
<1> DEFINE Good(X, k) ==
    /\ X \subseteq Groups(x)
    /\ \A S \in SUBSET Groups(x) : Supported(x, names, S) => S \subseteq X
    /\ Supported(x, names, X) \/ Cardinality(X) <= n - k
<1> DEFINE T == {k \in Nat : k <= n => Good(R[k], k)}
<1>4. 0 \in T
  BY <1>2, <1>3, GroupsCounted
<1>5. ASSUME NEW k \in Nat, k \in T PROVE k + 1 \in T
  <2> SUFFICES ASSUME k + 1 <= n PROVE Good(R[k + 1], k + 1)
    OBVIOUS
  <2>1. PICK X, Y : X = R[k] /\ Y = R[k + 1]
    OBVIOUS
  <2>2. Y = pass(x, names, X)
    BY <1>3, <2>1
  <2>3. Good(X, k)
    BY <1>5, <2>1
  <2>4. /\ Y \subseteq X
        /\ \A S : Supported(x, names, S) /\ S \subseteq X => S \subseteq Y
        /\ Y = X => Supported(x, names, X)
    BY <2>2, <2>3, PassParts
  <2>5. Y \subseteq Groups(x) /\ \A S \in SUBSET Groups(x) : Supported(x, names, S) => S \subseteq Y
    BY <2>3, <2>4
  <2>6. CASE Supported(x, names, X) \/ Y = X
    <3>1. Y = X /\ Supported(x, names, X)
      BY <2>4, <2>6
    <3> QED  BY <2>1, <2>5, <3>1
  <2>7. CASE Cardinality(X) <= n - k /\ Y # X
    <3>1. IsFiniteSet(X)
      BY <2>3, GroupsCounted, FS_Subset
    <3>2. IsFiniteSet(Y) /\ Cardinality(Y) <= Cardinality(X) /\ Cardinality(Y) # Cardinality(X)
      BY <2>4, <2>7, <3>1, FS_Subset
    <3>3. Cardinality(X) \in Nat /\ Cardinality(Y) \in Nat
      BY <3>1, <3>2, FS_CardinalityType
    <3>4. Cardinality(Y) <= n - (k + 1)
      BY <2>7, <3>2, <3>3
    <3> QED  BY <2>1, <2>5, <3>4
  <2> QED  BY <2>3, <2>6, <2>7
<1>6. Nat \subseteq T
  <2> HIDE DEF T
  <2> QED  BY <1>4, <1>5, SetInduction
<1>7. PICK X : X = R[n]
  OBVIOUS
<1>8. Good(X, n)
  BY <1>6, <1>7
<1>9. Supported(x, names, X)
  <2>1. SUFFICES ASSUME Cardinality(X) <= 0 PROVE Supported(x, names, X)
    BY <1>8
  <2>2. IsFiniteSet(X)
    BY <1>8, GroupsCounted, FS_Subset
  <2>3. Cardinality(X) = 0
    BY <2>1, <2>2, FS_CardinalityType
  <2>4. X = {}
    BY <2>2, <2>3, FS_EmptySet
  <2> QED  BY <2>4 DEF Supported
<1> QED  BY <1>1, <1>2, <1>7, <1>8, <1>9

\* Some number is the least of any there are.
LEMMA Least == ASSUME NEW T, T \subseteq Nat, T # {} PROVE \E m \in T : \A k \in T : m <= k
<1>1. PICK x \in T : \A y \in T : ~ (<<y, x>> \in Below)
  BY WFMin, BelowWellFounded
<1>2. \A y \in T : ~ (y < x)
  BY <1>1 DEF Below
<1> QED  BY <1>1, <1>2

\* Lists met by a name, further on, and among more rules.
LEMMA MetGrows ==
    ASSUME NEW x \in Presets, NEW I, NEW L, I \subseteq L, L \subseteq DOMAIN x.rules, NEW b, NEW i
    PROVE  met(x, I, b, i) \subseteq met(x, L, b, i) /\ IsFiniteSet(met(x, L, b, i))
<1>1. met(x, I, b, i) \subseteq met(x, L, b, i)
  BY DEF met
<1>2. PICK n \in Nat : n = Len(x.rules) /\ DOMAIN x.rules = 1..n
  BY RoutingAssumption
<1>3. IsFiniteSet(1..n)
  <2>1. 1 \in Int /\ n \in Int
    BY <1>2
  <2> QED  BY <2>1, FS_Interval
<1>4. PICK J : J = {k \in L : k <= i /\ BaseOf[x.rules[k].list] = b}
  OBVIOUS
<1>5. J \in SUBSET (1..n)
  BY <1>2, <1>4
<1>6. IsFiniteSet(J)
  BY <1>3, <1>5, FS_Subset
<1>7. PICK f : f = [j \in J |-> x.rules[j].list]
  OBVIOUS
<1>8. f \in Surjection(J, met(x, L, b, i))
  BY <1>4, <1>7 DEF met, Surjection
<1>9. IsFiniteSet(met(x, L, b, i))
  BY <1>6, <1>8, FS_Surjection
<1> QED  BY <1>1, <1>9

\* Names are counted up without a gap, so a name some of the rules give is one that all of them
\* give, to the list they meet at that count.
LEMMA NamesFound ==
    ASSUME NEW x \in Presets, NEW I, NEW L, I \subseteq L, L \subseteq DOMAIN x.rules, NEW i \in I
    PROVE  \E m \in L : firstOf(x, L, m) /\ nameOf(x, L, m) = nameOf(x, I, i)
<1>1. PICK b : b = BaseOf[x.rules[i].list]
  OBVIOUS
<1>2. L \subseteq Nat \ {0} /\ i \in Nat
  <2>1. Len(x.rules) \in Nat /\ DOMAIN x.rules = 1..Len(x.rules)
    BY RoutingAssumption
  <2> QED  BY <2>1
<1>3. PICK c : c = Cardinality(met(x, I, b, i))
  OBVIOUS
<1>4. IsFiniteSet(met(x, I, b, i)) /\ c \in Nat /\ c # 0
  <2>1. IsFiniteSet(met(x, I, b, i)) /\ c \in Nat
    BY <1>3, MetGrows, FS_CardinalityType
  <2>2. x.rules[i].list \in met(x, I, b, i)
    BY <1>1, <1>2 DEF met
  <2> QED  BY <1>3, <2>1, <2>2, FS_EmptySet
<1> DEFINE f(m) == Cardinality(met(x, L, b, m))
<1> DEFINE T == {m \in Nat : f(m) >= c}
<1>5. \A m \in Nat : f(m) \in Nat
  BY MetGrows, FS_CardinalityType
<1>6. i \in T
  <2>1. met(x, I, b, i) \in SUBSET met(x, L, b, i) /\ IsFiniteSet(met(x, L, b, i))
    BY MetGrows
  <2>2. c <= f(i)
    BY <1>3, <2>1, FS_Subset
  <2> QED  BY <1>2, <1>4, <1>5, <2>2
<1>7. PICK m \in T : \A k \in T : m <= k
  <2> HIDE DEF f
  <2> QED  BY <1>6, Least
<1>8. m # 0
  <2>1. met(x, L, b, 0) = {}
    BY <1>2 DEF met
  <2>2. f(0) = 0
    BY <2>1, FS_EmptySet
  <2> HIDE DEF f
  <2> QED  BY <1>4, <1>7, <2>2
<1>9. m - 1 \in Nat /\ f(m - 1) < c /\ f(m) >= c /\ m \in Nat
  <2> HIDE DEF f
  <2>1. m - 1 \in Nat /\ m - 1 \notin T
    BY <1>7, <1>8
  <2> QED  BY <1>4, <1>5, <1>7, <2>1
<1>10. PICK X, Y : X = met(x, L, b, m - 1) /\ Y = met(x, L, b, m)
  OBVIOUS
<1>11. \A k \in L : k <= m => k = m \/ k <= m - 1
  BY <1>2, <1>9
<1>12. X # Y
  <2>1. Cardinality(X) < c /\ Cardinality(Y) >= c
    BY <1>9, <1>10
  <2>2. Cardinality(X) \in Nat
    BY <1>5, <1>9, <1>10
  <2> QED  BY <1>4, <2>1, <2>2
<1>13. CASE m \notin L \/ BaseOf[x.rules[m].list] # b
  <2>1. Y = X
    BY <1>2, <1>9, <1>10, <1>11, <1>13 DEF met
  <2> QED  BY <1>12, <2>1
<1>14. CASE m \in L /\ BaseOf[x.rules[m].list] = b
  <2>1. Y = X \cup {x.rules[m].list}
    BY <1>2, <1>9, <1>10, <1>11, <1>14 DEF met
  <2>2. IsFiniteSet(X) /\ Cardinality(X) \in Nat
    BY <1>10, MetGrows, FS_CardinalityType
  <2>3. x.rules[m].list \notin X
    <3>1. SUFFICES ASSUME x.rules[m].list \in X PROVE FALSE
      OBVIOUS
    <3>2. Y = X
      BY <2>1, <3>1
    <3> QED  BY <1>12, <3>2
  <2>4. Cardinality(Y) = Cardinality(X) + 1
    BY <2>1, <2>2, <2>3, FS_AddElement
  <2>5. Cardinality(Y) = c
    BY <1>4, <1>9, <1>10, <2>2, <2>4
  <2>6. nameOf(x, L, m) = nameOf(x, I, i)
    BY <1>1, <1>3, <1>10, <1>14, <2>5 DEF nameOf
  <2>7. ASSUME NEW j \in L, j < m, x.rules[j].list = x.rules[m].list PROVE FALSE
    <3>1. j <= m - 1 /\ BaseOf[x.rules[j].list] = b
      BY <1>2, <1>9, <1>14, <2>7
    <3>2. x.rules[j].list \in X
      BY <1>10, <3>1 DEF met
    <3> QED  BY <2>3, <2>7, <3>2
  <2>8. firstOf(x, L, m)
    BY <2>7 DEF firstOf
  <2> QED  BY <1>14, <2>6, <2>8
<1> QED  BY <1>13, <1>14

\* A client is answered for every provider of the document, from the very rules it was made of
\* if none was left out.
LEMMA NamedAnswers ==
    ASSUME NEW x \in Presets, NEW I, I \subseteq DOMAIN x.rules,
           NEW n \in DOMAIN Named(x, withList(x, I))
    PROVE  /\ ListFor(x, n) # NoList
           /\ I = DOMAIN x.rules => ListFor(x, n) = Named(x, withList(x, I))[n]
<1>1. PICK K, L : K = withList(x, I) /\ L = withList(x, DOMAIN x.rules)
  OBVIOUS
<1>2. K \subseteq L /\ L \subseteq DOMAIN x.rules /\ \A i \in L : x.rules[i].list # NoList
  BY <1>1 DEF withList
<1>3. PICK i \in K : firstOf(x, K, i) /\ nameOf(x, K, i) = n
  BY <1>1 DEF Named
<1>4. PICK m \in L : firstOf(x, L, m) /\ nameOf(x, L, m) = n
  BY <1>2, <1>3, NamesFound
<1>5. PICK F : F = {k \in L : firstOf(x, L, k)}
  OBVIOUS
<1>6. PICK z : z = CHOOSE k \in F : nameOf(x, L, k) = n
  OBVIOUS
<1>7. z \in F
  BY <1>4, <1>5, <1>6
<1>8. n \in DOMAIN Named(x, L) /\ Named(x, L)[n] = x.rules[z].list
  BY <1>4, <1>5, <1>6 DEF Named
<1>9. ListFor(x, n) = x.rules[z].list
  BY <1>1, <1>8 DEF ListFor
<1>10. x.rules[z].list # NoList
  BY <1>2, <1>5, <1>7
<1>11. I = DOMAIN x.rules => ListFor(x, n) = Named(x, K)[n]
  BY <1>1, <1>8, <1>9
<1> QED  BY <1>1, <1>9, <1>10, <1>11

\* The presets stored came from upstream, and the document is one of them rendered.
DocumentHeld ==
    /\ ini = [s \in Sets |-> ini[s]] /\ \A s \in Sets : ini[s] \in Presets \cup {Absent, Missing}
    /\ document.step = "rendered" =>
          \E x \in Presets, names \in SUBSET Regions :
              document = [step |-> "rendered", preset |-> x, names |-> names, out |-> Render(x, names)]

\* Rendering is right for any preset and any nodes.
LEMMA DocumentRight == ASSUME DocumentHeld PROVE GroupsLoad /\ ProvidersAnswered
<1> SUFFICES ASSUME document.step = "rendered" PROVE GroupsLoad /\ ProvidersAnswered
  BY DEF GroupsLoad, ProvidersAnswered
<1>1. PICK x \in Presets, names \in SUBSET Regions :
          document = [step |-> "rendered", preset |-> x, names |-> names, out |-> Render(x, names)]
  BY DEF DocumentHeld
<1>2. PICK a : a = resolveGroups(x, names)
  OBVIOUS
<1>3. PICK I : I = keptRules(x, a)
  OBVIOUS
<1>4. PICK out : out = Render(x, names)
  OBVIOUS
<1>5. out = [groups |-> [g \in a |-> expand(x, g, names, a)],
             policies |-> {x.rules[i].group : i \in I},
             providers |-> Named(x, withList(x, I))]
  BY <1>2, <1>3, <1>4 DEF Render
<1>6. document.preset = x /\ document.names = names /\ document.out = out
  BY <1>1, <1>4
<1>7. /\ a \subseteq Groups(x) /\ Supported(x, names, a)
      /\ \A S \in SUBSET Groups(x) : Supported(x, names, S) => S \subseteq a
  BY <1>2, ResolveParts
<1>8. /\ DOMAIN out.groups = a /\ \A g \in a : out.groups[g] = expand(x, g, names, a)
      /\ out.policies = {x.rules[i].group : i \in I}
      /\ out.providers = Named(x, withList(x, I))
  BY <1>5
<1>9. a = UNION {S \in SUBSET Groups(x) : Supported(x, names, S)}
  BY <1>7
<1>10. \A g \in a : expand(x, g, names, a) \subseteq Policies \cup names \cup a
  BY DEF expand
<1>11. {x.rules[i].group : i \in I} \subseteq Policies \cup a
  BY <1>3 DEF keptRules
<1>12. GroupsLoad
  <2>1. DOMAIN out.groups = UNION {S \in SUBSET Groups(x) : \A g \in S : expand(x, g, names, S) # {}}
    BY <1>8, <1>9 DEF Supported
  <2>2. \A g \in DOMAIN out.groups : out.groups[g] \subseteq Policies \cup names \cup DOMAIN out.groups
    BY <1>8, <1>10
  <2>3. out.policies \subseteq Policies \cup DOMAIN out.groups
    BY <1>8, <1>11
  <2> QED  BY <1>6, <2>1, <2>2, <2>3, Zenon DEF GroupsLoad
<1>13. I \subseteq DOMAIN x.rules
  BY <1>3 DEF keptRules
<1>14. {x.rules[i].group : i \in DOMAIN x.rules} \subseteq Policies \cup a => I = DOMAIN x.rules
  BY <1>3 DEF keptRules
<1>15. ProvidersAnswered
  BY <1>6, <1>8, <1>13, <1>14, NamedAnswers DEF ProvidersAnswered
<1> QED  BY <1>12, <1>15

\* Refreshes and requests store presets; only a request renders one.
LEMMA DocumentStep == ASSUME DocumentHeld, [RoutingNext]_tvars PROVE DocumentHeld'
<1>1. ASSUME document' = document, ini' = ini PROVE DocumentHeld'
  BY <1>1 DEF DocumentHeld
<1>2. ASSUME document' = document, NEW s, NEW y \in Presets \cup {Absent, Missing},
             ini' = [ini EXCEPT ![s] = y]
      PROVE  DocumentHeld'
  BY <1>2 DEF DocumentHeld
<1>3. CASE RefreshStep
  <2>1. PICK p \in Refreshers :
            \/ Lock(p) \/ IniFails(p) \/ RefreshEnds(p)
            \/ \E x \in Presets : SaveRulesetFetch(p, x)
            \/ \E u \in Lists, ok \in BOOLEAN : refreshList(p, u, ok)
    BY <1>3 DEF RefreshStep
  <2>2. CASE \E x \in Presets : SaveRulesetFetch(p, x)
    BY <1>1, <1>2, <2>2 DEF SaveRulesetFetch
  <2> QED  BY <1>1, <2>1, <2>2 DEF Lock, IniFails, RefreshEnds, refreshList
<1>4. CASE TimerStep
  BY <1>1, <1>4 DEF TimerStep, RefreshAll, ReadBack, PruneRuleLists, RoundEnds, NextSet, PruneOne
<1>5. CASE RulesetStep
  BY <1>1, <1>2, <1>5 DEF RulesetStep, deleteRuleset, createOrRefresh
<1>6. ASSUME NEW s \in Sets, NEW names \in SUBSET Regions, routingFor(s, names) PROVE DocumentHeld'
  <2>1. ini' = ini /\ ini[s] \in Presets
    BY <1>6 DEF routingFor, Stored, Exists, DocumentHeld
  <2>2. document' = [step |-> "rendered", preset |-> ini[s], names |-> names,
                     out |-> Render(ini[s], names)]
    BY <1>6 DEF routingFor
  <2>3. \E x \in Presets, ns \in SUBSET Regions :
            document' = [step |-> "rendered", preset |-> x, names |-> ns, out |-> Render(x, ns)]
    BY <2>1, <2>2
  <2> QED  BY <2>1, <2>3 DEF DocumentHeld
<1>7. CASE UNCHANGED tvars
  BY <1>1, <1>7 DEF tvars
<1> QED  BY <1>3, <1>4, <1>5, <1>6, <1>7 DEF RoutingNext

\* "Clash refuses a configuration containing a proxy group with an empty proxies list" (Render) and
\* ListFor: for every preset and every set of nodes, the groups rendered are the largest set that
\* support one another, the rules name nothing else, and every provider is answered.
THEOREM RoutingLoads == RoutingSpec => [](GroupsLoad /\ ProvidersAnswered)
<1>1. RoutingInit => DocumentHeld
  BY DEF RoutingInit, DocumentHeld, NoJob
<1>2. DocumentHeld /\ [RoutingNext]_tvars => DocumentHeld'
  BY DocumentStep
<1>3. DocumentHeld => GroupsLoad /\ ProvidersAnswered
  BY DocumentRight
<1> QED  BY <1>1, <1>2, <1>3, PTL DEF RoutingSpec

\* The document a client downloads can be loaded (Fragments, carried, checkExternalChain, Render,
\* ListFor): its chains lead to what it carries and end, its groups have members, its rule lists
\* are answered for; for any sources, presets, nodes and subscribers.
THEOREM DocumentsLoad == CatalogSpec /\ RoutingSpec => []DocumentLoads
BY DocumentsResolve, ChainsAlwaysEnd, RoutingLoads, PTL DEF DocumentLoads
=============================================================================
