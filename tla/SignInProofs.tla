---------------------------- MODULE SignInProofs ----------------------------
(* Proofs about the components of SignIn, for every value of their constants. *)
EXTENDS SignIn, FiniteSetTheorems, TLAPS

-----------------------------------------------------------------------------
(* KeyRotation.  A value is read by the key it is sealed under.  The panel's  *)
(* key reads everything, until a rotation has committed; from then on the new *)
(* key does, and the panel cannot start before the rotation has reported.     *)

\* A stored value of cell c.
Values(c) ==
    [seal : Ciphers \cup {"bare", "plain"}, text : Texts, name : {c}] \cup {Blank}

\* Values belong to their rows, and what is public is never sealed.
Database(db) ==
    /\ db \in [Cells -> UNION {Values(c) : c \in Cells}]
    /\ \A c \in Cells : db[c] \in Values(c)
    /\ \A c \in PublicCells : db[c] = Blank \/ db[c].seal = "bare"

Content(v) == IF v = Blank THEN "nothing" ELSE v.text

\* db holds what was last written.
Faithful(db) == \A c \in Cells : Content(db[c]) = meant[c]

Readable(db, k) == \A c \in Cells : db[c] = Blank \/ db[c].seal \in {"bare", "plain"} \/ Owns(k, db[c])
SealedUnder(db, k, S) == \A c \in S : db[c] = Blank \/ Owns(k, db[c])

RotationTyped ==
    \/ rotation = NoRotation
    \/ rotation = [step |-> "committed"]
    \/ /\ rotation = [step |-> "columns", db |-> rotation.db, todo |-> rotation.todo]
       /\ Database(rotation.db) /\ Faithful(rotation.db)
       /\ rotation.todo \subseteq SealedCells
       /\ SealedUnder(rotation.db, target, SealedCells \ rotation.todo)

KeyInv ==
    /\ Database(cell) /\ Faithful(cell)
    /\ key \in Ciphers \cup {NoKey} /\ target \in Ciphers \cup {NoKey}
    /\ meant \in [Cells -> Texts \cup {"nothing"}]
    /\ RotationTyped
    /\ rotation # NoRotation => target # NoKey
    /\ target # NoKey => panel = "off"
    /\ rotation = [step |-> "committed"] => SealedUnder(cell, target, SealedCells)
    /\ Readable(cell, key) \/ (target # NoKey /\ SealedUnder(cell, target, SealedCells))
    /\ rotated => key # NoKey
    /\ rotated /\ target = NoKey => SealedUnder(cell, key, SealedCells)

\* A value is blank or a record with a seal, and the two are told apart by it.
LEMMA ValueForms ==
    ASSUME NEW c, NEW v \in Values(c)
    PROVE  /\ Blank.seal = "none"
           /\ v # Blank => /\ v.seal \in Ciphers \cup {"bare", "plain"}
                           /\ v.seal # "none" /\ v.text \in Texts /\ v.name = c
  BY KeyAssumption DEF Values, Blank

\* What is sealed is a value of its cell.
LEMMA SealForms ==
    ASSUME NEW c \in Cells, NEW k \in Ciphers \cup {NoKey}, NEW t \in Texts
    PROVE  /\ Seal(k, c, t) \in Values(c) /\ Seal(k, c, t) # Blank /\ Seal(k, c, t).text = t
           /\ k # NoKey => Owns(k, Seal(k, c, t))
           /\ k = NoKey => Seal(k, c, t).seal = "plain"
           /\ Bare(c, t) \in Values(c) /\ Bare(c, t) # Blank /\ Bare(c, t).text = t
           /\ Bare(c, t).seal = "bare"
<1>1. /\ Seal(k, c, t) \in [seal : Ciphers \cup {"bare", "plain"}, text : Texts, name : {c}]
      /\ Seal(k, c, t).text = t /\ Seal(k, c, t).seal = IF k # NoKey THEN k ELSE "plain"
  BY DEF Seal, Enabled
<1>2. /\ Bare(c, t) \in [seal : Ciphers \cup {"bare", "plain"}, text : Texts, name : {c}]
      /\ Bare(c, t).text = t /\ Bare(c, t).seal = "bare"
  BY DEF Bare
<1>3. \A v \in [seal : Ciphers \cup {"bare", "plain"}, text : Texts, name : {c}] : v.seal # "none"
  BY KeyAssumption
<1>4. Blank.seal = "none"
  BY DEF Blank
<1> QED
  BY <1>1, <1>2, <1>3, <1>4 DEF Values, Owns, Enabled

\* What one key reads when it reads everything.
LEMMA ReadableReads ==
    ASSUME Database(cell), Faithful(cell), NEW k,
           Readable(cell, k) \/ SealedUnder(cell, k, SealedCells)
    PROVE  \A c \in Cells : Reads(k, c, cell[c]) = meant[c]
<1> SUFFICES ASSUME NEW c \in Cells PROVE Reads(k, c, cell[c]) = Content(cell[c])
  BY DEF Faithful
<1>1. CASE cell[c] = Blank
  BY <1>1 DEF Reads, Content
<1>2. CASE cell[c] # Blank /\ c \in PublicCells
  BY <1>2 DEF Reads, Content, Database
<1>3. CASE cell[c] # Blank /\ c \notin PublicCells
  <2>1. cell[c].name = c
    BY <1>3, ValueForms DEF Database
  <2>2. Opens(k, c, cell[c])
    BY <1>3, <2>1 DEF Opens, Readable, SealedUnder, Cells
  <2> QED
    BY <1>3, <2>2 DEF Reads, Content
<1> QED
  BY <1>1, <1>2, <1>3

Wrote(db, new, c, v) == new = [db EXCEPT ![c] = v]

\* One cell written.
LEMMA WriteCell ==
    ASSUME NEW db, Database(db), NEW c \in Cells, NEW v \in Values(c),
           c \in PublicCells => v.seal = "bare" \/ v = Blank,
           NEW new, Wrote(db, new, c, v)
    PROVE  /\ Database(new) /\ new[c] = v
           /\ \A d \in Cells : d # c => new[d] = db[d]
  BY DEF Database, Wrote

\* The invariant holds at the start, bare values included.
LEMMA KeyInvInit == KeyInit => KeyInv
<1> SUFFICES ASSUME KeyInit PROVE KeyInv
  OBVIOUS
<1>1. \A c \in Cells : cell[c] = Blank \/ cell[c] = Bare(c, "raw")
  BY DEF KeyInit
<1>2. \A c \in Cells : /\ Bare(c, "raw") \in Values(c) /\ Bare(c, "raw").seal = "bare"
                       /\ Bare(c, "raw").text = "raw"
  BY SealForms DEF Texts
<1>3. \A c \in Cells : cell[c] \in Values(c) /\ (cell[c] = Blank \/ cell[c].seal = "bare")
  BY <1>1, <1>2 DEF Values
<1>4. Database(cell)
  <2>1. cell = [c \in Cells |-> cell[c]]
    BY DEF KeyInit
  <2>2. \A c \in Cells : cell[c] \in UNION {Values(d) : d \in Cells}
    BY <1>3
  <2> QED
    BY <1>3, <2>1, <2>2 DEF Database, Cells
<1>5. Faithful(cell)
  BY <1>1, <1>2 DEF KeyInit, Faithful, Content
<1>6. Readable(cell, key)
  BY <1>3 DEF Readable
<1> QED
  BY <1>4, <1>5, <1>6 DEF KeyInit, KeyInv, RotationTyped, NoRotation, Texts

\* The three forms of a rotation are told apart by their step.
LEMMA RotationForms ==
    ASSUME RotationTyped
    PROVE  /\ rotation.step = "columns" =>
                 /\ rotation = [step |-> "columns", db |-> rotation.db, todo |-> rotation.todo]
                 /\ Database(rotation.db) /\ Faithful(rotation.db)
                 /\ rotation.todo \subseteq SealedCells
                 /\ SealedUnder(rotation.db, target, SealedCells \ rotation.todo)
                 /\ rotation # NoRotation
           /\ rotation.step = "committed" =>
                 rotation = [step |-> "committed"] /\ rotation # NoRotation
           /\ NoRotation # [step |-> "committed"]
<1>1. NoRotation.step = "none" /\ [step |-> "committed"].step = "committed"
  BY DEF NoRotation
<1>2. \A db, todo : [step |-> "columns", db |-> db, todo |-> todo].step = "columns"
  OBVIOUS
<1> QED
  BY <1>1, <1>2 DEF RotationTyped

\* A panel that stores a value under its key: no rotation is under way.
LEMMA KeyStored ==
    ASSUME KeyInv, panel # "off", NEW c \in Cells, NEW t \in Texts,
           NEW v \in Values(c), v # Blank, v.text = t,
           c \in PublicCells => v.seal = "bare",
           c \notin PublicCells => (key # NoKey => Owns(key, v)) /\ (key = NoKey => v.seal = "plain"),
           Wrote(cell, cell', c, v), meant' = [meant EXCEPT ![c] = t],
           UNCHANGED <<key, rotation, target, rotated>>,
           target # NoKey => panel' = "off"
    PROVE  KeyInv'
<1>1. target = NoKey /\ rotation = NoRotation /\ Readable(cell, key)
  BY DEF KeyInv
<1>3. /\ Database(cell') /\ cell'[c] = v
      /\ \A d \in Cells : d # c => cell'[d] = cell[d]
  <2>1. Database(cell)
    BY DEF KeyInv
  <2>2. c \in PublicCells => v.seal = "bare" \/ v = Blank
    OBVIOUS
  <2> QED
    BY <2>1, <2>2, WriteCell
<1>4. meant' \in [Cells -> Texts \cup {"nothing"}] /\ meant'[c] = t
      /\ \A d \in Cells : d # c => meant'[d] = meant[d]
  BY DEF KeyInv
<1>5. Faithful(cell)'
  BY <1>3, <1>4 DEF KeyInv, Faithful, Content
<1>6. Readable(cell', key)
  BY <1>1, <1>3 DEF Readable
<1>7. rotated => SealedUnder(cell', key, SealedCells)
  <2>1. c \in SealedCells => c \notin PublicCells
    BY KeyAssumption
  <2> QED
    BY <1>1, <1>3, <2>1 DEF KeyInv, SealedUnder, Cells
<1>8. RotationTyped'
  BY <1>1 DEF RotationTyped
<1>9. Database(cell)' /\ Readable(cell, key)'
  BY <1>3, <1>6 DEF Database, Readable
<1>10. (rotated => SealedUnder(cell, key, SealedCells))'
  BY <1>7 DEF SealedUnder
<1>11. rotation' = NoRotation /\ NoRotation # [step |-> "committed"]
  BY <1>1, RotationForms DEF KeyInv
<1> QED
  BY <1>1, <1>4, <1>5, <1>8, <1>9, <1>10, <1>11 DEF KeyInv

\* One value of a rotation sealed again.
LEMMA ColumnRotated ==
    ASSUME KeyInv, NEW c \in SealedCells, rotateColumn(c) PROVE KeyInv'
<1> USE DEF KeyInv
<1>0. UNCHANGED <<cell, key, panel, target, meant, rotated>>
  BY DEF rotateColumn, Updated
<1>1. /\ rotation = [step |-> "columns", db |-> rotation.db, todo |-> rotation.todo]
      /\ Database(rotation.db) /\ Faithful(rotation.db)
      /\ rotation.todo \subseteq SealedCells /\ c \in rotation.todo
      /\ SealedUnder(rotation.db, target, SealedCells \ rotation.todo)
      /\ rotation # NoRotation /\ target # NoKey /\ target \in Ciphers
  BY RotationForms DEF rotateColumn
<1>2. CASE rotation' = NoRotation
  <2>1. RotationTyped'
    BY <1>2 DEF RotationTyped
  <2>2. rotation' # [step |-> "committed"]
    BY <1>2, RotationForms
  <2> QED
    BY <1>0, <1>2, <2>1, <2>2 DEF Database, Faithful, Readable, SealedUnder
<1>3. CASE /\ Owns(target, rotation.db[c]) \/ Opens(key, c, rotation.db[c])
           /\ rotation' = [rotation EXCEPT !.db = resealed(c), !.todo = @ \ {c}]
  <2> DEFINE db == rotation.db
             new == resealed(c)
             rest == rotation.todo \ {c}
  <2>1. c \in Cells
    BY DEF Cells
  <2>2. /\ rotation' = [step |-> "columns", db |-> new, todo |-> rest]
        /\ rotation'.db = new /\ rotation'.todo = rest
    <3>1. PICK d, t : rotation = [step |-> "columns", db |-> d, todo |-> t]
      BY <1>1
    <3>2. rotation' = [rotation EXCEPT !.db = new, !.todo = rest]
      BY <1>3
    <3> HIDE DEF new, rest
    <3>3. PICK q : q = [rotation EXCEPT !.db = new]
      OBVIOUS
    <3>4. q = [step |-> "columns", db |-> new, todo |-> t]
      BY <3>1, <3>3
    <3>5. rotation' = [q EXCEPT !.todo = rest]
      BY <3>2, <3>3
    <3> QED
      BY <3>4, <3>5
  <2>3. rotation' # NoRotation /\ rotation' # [step |-> "committed"]
    <3>1. rotation'.step = "columns"
      BY <2>2
    <3> QED
      BY <3>1 DEF NoRotation
  <2>4. db[c] \in Values(c)
    BY <1>1, <2>1 DEF Database
  <2>5. /\ Database(new) /\ Faithful(new) /\ Owns(target, new[c])
        /\ \A d \in Cells : d # c => new[d] = db[d]
    <3>1. CASE Owns(target, db[c])
      BY <1>1, <3>1 DEF resealed
    <3>2. CASE ~ Owns(target, db[c])
      <4>1. db[c] # Blank
        <5>1. Blank.seal = "none"
          BY DEF Blank
        <5>2. key # NoKey => key # "none"
          BY KeyAssumption
        <5> QED
          BY <1>3, <3>2, <5>1, <5>2 DEF Opens, Owns, Enabled
      <4>2. db[c].text \in Texts
        BY <2>4, <4>1, ValueForms
      <4>3. /\ Seal(target, c, db[c].text) \in Values(c)
            /\ Seal(target, c, db[c].text) # Blank
            /\ Seal(target, c, db[c].text).text = db[c].text
            /\ Owns(target, Seal(target, c, db[c].text))
        BY <1>1, <2>1, <4>2, SealForms
      <4>4. new = [db EXCEPT ![c] = Seal(target, c, db[c].text)]
        BY <3>2 DEF resealed
      <4>5. c \notin PublicCells
        BY KeyAssumption
      <4>6. /\ Database(new) /\ new[c] = Seal(target, c, db[c].text)
            /\ \A d \in Cells : d # c => new[d] = db[d]
        <5>1. Database(db)
          BY <1>1
        <5> HIDE DEF new, db
        <5>2. Wrote(db, new, c, Seal(target, c, db[c].text))
          BY <4>4 DEF Wrote
        <5> QED
          BY <2>1, <4>3, <4>5, <5>1, <5>2, WriteCell
      <4>7. Faithful(new)
        <5> HIDE DEF new, db
        <5>1. Content(new[c]) = Content(db[c])
          BY <4>1, <4>3, <4>6 DEF Content
        <5> QED
          BY <1>1, <4>6, <5>1 DEF Faithful, db
      <4> QED
        BY <4>3, <4>6, <4>7
    <3> QED
      BY <3>1, <3>2
  <2> HIDE DEF new, rest
  <2>6. SealedUnder(new, target, SealedCells \ rest)
    BY <1>1, <2>5 DEF SealedUnder, rest, Cells
  <2>7. RotationTyped'
    <3>1. Database(rotation.db)'
      BY <2>2, <2>5 DEF Database
    <3>2. Faithful(rotation.db)'
      BY <1>0, <2>2, <2>5 DEF Faithful
    <3>3. SealedUnder(rotation.db, target, SealedCells \ rotation.todo)'
      BY <1>0, <2>2, <2>6 DEF SealedUnder
    <3>4. rest \subseteq SealedCells
      BY <1>1 DEF rest
    <3> QED
      BY <2>2, <3>1, <3>2, <3>3, <3>4 DEF RotationTyped
  <2> QED
    BY <1>0, <1>1, <2>3, <2>7 DEF Database, Faithful, Readable, SealedUnder
<1> QED
  BY <1>2, <1>3 DEF rotateColumn

\* Every step of the panel and of a rotation keeps the invariant.
LEMMA KeyInvStep == KeyInv /\ [KeyNext]_kvars => KeyInv'
<1> SUFFICES ASSUME KeyInv, [KeyNext]_kvars PROVE KeyInv'
  OBVIOUS
<1> USE DEF KeyInv
<1>1. ASSUME UNCHANGED <<cell, rotation, target, meant>>, key' = key, rotated' = rotated,
             target # NoKey => panel' = "off"
      PROVE  KeyInv'
  <2>1. RotationTyped'
    BY <1>1 DEF RotationTyped, Database, Faithful, SealedUnder
  <2> QED
    BY <1>1, <2>1 DEF Database, Faithful, Readable, SealedUnder
<1>2. CASE Start \/ Serving \/ Stop \/ UNCHANGED kvars
  BY <1>1, <1>2 DEF Start, Serving, Stop, kvars
<1>3. CASE Commit
  <2>1. /\ Database(rotation.db) /\ Faithful(rotation.db)
        /\ SealedUnder(rotation.db, target, SealedCells) /\ rotation # NoRotation
        /\ target # NoKey
    <3>1. SealedCells \ {} = SealedCells
      OBVIOUS
    <3> QED
      BY <1>3, <3>1, RotationForms DEF Commit
  <2>2. /\ cell' = rotation.db /\ rotation' = [step |-> "committed"]
        /\ UNCHANGED <<key, panel, target, meant, rotated>>
    BY <1>3 DEF Commit
  <2>3. RotationTyped'
    BY <2>2 DEF RotationTyped
  <2>4. Database(cell)' /\ Faithful(cell)' /\ SealedUnder(cell, target, SealedCells)'
    BY <2>1, <2>2 DEF Database, Faithful, SealedUnder
  <2> QED
    BY <2>1, <2>2, <2>3, <2>4
<1>4. CASE Reported
  <2>1. /\ rotation = [step |-> "committed"] /\ rotation # NoRotation /\ target # NoKey
        /\ SealedUnder(cell, target, SealedCells)
    BY <1>4, RotationForms DEF Reported
  <2>2. /\ rotation' = NoRotation /\ key' = target /\ target' = NoKey
        /\ UNCHANGED <<cell, panel, meant>>
    BY <1>4 DEF Reported
  <2>3. RotationTyped' /\ rotation' # [step |-> "committed"]
    BY <2>2, RotationForms DEF RotationTyped
  <2>4. Readable(cell, key)' /\ SealedUnder(cell, key, SealedCells)'
    BY <2>1, <2>2 DEF Database, Readable, SealedUnder, Cells
  <2>5. Database(cell)' /\ Faithful(cell)'
    BY <2>2 DEF Database, Faithful
  <2> QED
    BY <2>1, <2>2, <2>3, <2>4, <2>5
<1>5. CASE RotationDies
  <2>1. rotation' = NoRotation /\ UNCHANGED <<cell, key, panel, target, meant, rotated>>
    BY <1>5 DEF RotationDies
  <2>2. RotationTyped' /\ rotation' # [step |-> "committed"]
    BY <2>1, RotationForms DEF RotationTyped
  <2> QED
    BY <2>1, <2>2 DEF Database, Faithful, Readable, SealedUnder
<1>6. ASSUME NEW c \in SealedCells, RepairX25519Clamping(c) PROVE KeyInv'
  <2>1. /\ UNCHANGED <<key, panel, rotation, target, rotated>> /\ panel # "off"
        /\ target # NoKey => panel' = "off"
    BY <1>6 DEF RepairX25519Clamping
  <2>2. CASE UNCHANGED <<cell, meant>>
    BY <1>1, <2>1, <2>2
  <2>3. CASE /\ cell' = [cell EXCEPT ![c] = Seal(key, c, "clamped")]
             /\ meant' = [meant EXCEPT ![c] = "clamped"]
    <3>1. c \in Cells /\ c \notin PublicCells /\ "clamped" \in Texts
      BY KeyAssumption DEF Cells, Texts
    <3>2. PICK t \in Texts : t = "clamped"
      BY <3>1
    <3>3. PICK v : v = Seal(key, c, t)
      OBVIOUS
    <3>4. /\ v \in Values(c) /\ v # Blank /\ v.text = t
          /\ key # NoKey => Owns(key, v)
          /\ key = NoKey => v.seal = "plain"
      <4>1. key \in Ciphers \cup {NoKey} /\ c \in Cells /\ t \in Texts
        BY <3>1
      <4> HIDE DEF KeyInv
      <4> QED
        BY <3>3, <4>1, SealForms
    <3>5. Wrote(cell, cell', c, v) /\ meant' = [meant EXCEPT ![c] = t]
      BY <2>3, <3>2, <3>3 DEF Wrote
    <3> HIDE DEF KeyInv
    <3> QED
      BY <2>1, <3>1, <3>4, <3>5, KeyStored
  <2> QED
    BY <1>6, <2>2, <2>3 DEF RepairX25519Clamping
<1>7. ASSUME NEW c \in SealedCells, rotateColumn(c) PROVE KeyInv'
  BY <1>7, ColumnRotated
<1>8. ASSUME NEW c \in Cells, NEW t \in Texts, Write(c, t) PROVE KeyInv'
  <2>1. /\ UNCHANGED <<key, panel, rotation, target, rotated>> /\ panel # "off"
        /\ target # NoKey => panel' = "off"
        /\ meant' = [meant EXCEPT ![c] = t]
    BY <1>8 DEF Write
  <2>2. PICK v : v = IF c \in PublicCells THEN Bare(c, t) ELSE Seal(key, c, t)
    OBVIOUS
  <2>3. /\ v \in Values(c) /\ v # Blank /\ v.text = t
        /\ c \in PublicCells => v.seal = "bare"
        /\ c \notin PublicCells => (key # NoKey => Owns(key, v)) /\ (key = NoKey => v.seal = "plain")
    BY <2>2, SealForms
  <2>4. Wrote(cell, cell', c, v)
    BY <1>8, <2>2 DEF Write, Wrote
  <2> HIDE DEF KeyInv
  <2> QED
    BY <2>1, <2>3, <2>4, KeyStored
<1>9. ASSUME NEW k \in Ciphers, FirstKey(k) PROVE KeyInv'
  <2>1. /\ key' = k /\ key = NoKey /\ target = NoKey /\ rotation = NoRotation
        /\ UNCHANGED <<cell, panel, rotation, target, meant, rotated>>
    BY <1>9 DEF FirstKey
  <2>2. Readable(cell, key) /\ ~ rotated
    BY <2>1
  <2>3. Readable(cell, key)'
    BY <2>1, <2>2 DEF Readable, Owns, Enabled
  <2>4. RotationTyped' /\ rotation' # [step |-> "committed"]
    BY <2>1, RotationForms DEF RotationTyped
  <2> QED
    BY <2>1, <2>2, <2>3, <2>4, KeyAssumption DEF Database, Faithful
<1>10. ASSUME NEW k \in Ciphers, RotateSecretKey(k) PROVE KeyInv'
  <2> DEFINE todo == {c \in SealedCells : cell[c] # Blank}
  <2>1. /\ target' = k /\ k # NoKey /\ target \in {NoKey, k} /\ panel = "off"
        /\ rotation' = [step |-> "columns", db |-> cell, todo |-> todo]
        /\ UNCHANGED <<cell, key, panel, meant, rotated>>
    BY <1>10, KeyAssumption DEF RotateSecretKey
  <2>2. SealedUnder(cell, k, SealedCells \ todo)
    BY DEF SealedUnder
  <2> HIDE DEF todo
  <2>3. /\ rotation'.db = cell /\ rotation'.todo = todo /\ rotation'.step = "columns"
        /\ todo \subseteq SealedCells
    BY <2>1 DEF todo
  <2>4. RotationTyped'
    <3>1. Database(rotation.db)' /\ Faithful(rotation.db)'
      BY <2>1, <2>3 DEF Database, Faithful
    <3>2. SealedUnder(rotation.db, target, SealedCells \ rotation.todo)'
      BY <2>1, <2>2, <2>3 DEF SealedUnder
    <3> QED
      BY <2>1, <2>3, <3>1, <3>2 DEF RotationTyped
  <2>5. rotation' # [step |-> "committed"]
    BY <2>3
  <2> QED
    BY <2>1, <2>4, <2>5 DEF Database, Faithful, Readable, SealedUnder
<1> QED
  BY <1>2, <1>3, <1>4, <1>5, <1>6, <1>7, <1>8, <1>9, <1>10 DEF KeyNext

\* One key reads every secret, wherever a rotation was cut off.  store/rotate.go,
\* secret.go and rotateSecretKey of main.go, for every set of secrets and of keys.
THEOREM OneKeyEnough == KeySpec => []OneKeyReadsAll
<1>1. KeyInv => OneKeyReadsAll
  <2> SUFFICES ASSUME KeyInv PROVE OneKeyReadsAll
    OBVIOUS
  <2>1. \E k \in {key, target} : \A c \in Cells : Reads(k, c, cell[c]) = meant[c]
    <3>1. \E k \in {key, target} : Readable(cell, k) \/ SealedUnder(cell, k, SealedCells)
      BY DEF KeyInv
    <3>2. Database(cell) /\ Faithful(cell)
      BY DEF KeyInv
    <3> QED
      BY <3>1, <3>2, ReadableReads
  <2> QED
    BY <2>1 DEF KeyInv, OneKeyReadsAll, SealedUnder
<1> QED
  BY KeyInvInit, KeyInvStep, <1>1, PTL DEF KeySpec

-----------------------------------------------------------------------------
(* RateLimiter.  A bucket whose window runs counts what was granted, and the  *)
(* map makes room for a bucket before it holds it.                            *)

Buckets == [count : Nat, reset : Nat]

LimiterInv ==
    /\ now \in Nat \ {0}
    /\ buckets \in [LimiterKeys -> Buckets] /\ granted \in [LimiterKeys -> Nat]
    /\ IsFiniteSet(Held) /\ Cardinality(Held) <= MaxBuckets
    /\ \A k \in LimiterKeys : /\ granted[k] <= Limit[k[1]]
                              /\ ~ Elapsed(buckets[k]) => buckets[k].count = granted[k]

\* A map that has room takes one more bucket.
LEMMA RoomForOne ==
    ASSUME NEW S, NEW T, NEW k, IsFiniteSet(S), Cardinality(S) < MaxBuckets,
           T \subseteq S \cup {k}
    PROVE  IsFiniteSet(T) /\ Cardinality(T) <= MaxBuckets
<1>1. IsFiniteSet(S \cup {k}) /\ Cardinality(S \cup {k}) <= Cardinality(S) + 1
      /\ Cardinality(S) \in Nat
  <2>1. PICK n \in Nat : n = Cardinality(S)
    BY FS_CardinalityType
  <2>2. PICK m : m = Cardinality(S \cup {k})
    OBVIOUS
  <2>3. IsFiniteSet(S \cup {k}) /\ m = (IF k \in S THEN n ELSE n + 1)
    BY <2>1, <2>2, FS_AddElement, Zenon
  <2>4. m <= n + 1
    BY <2>3
  <2> QED
    BY <2>1, <2>2, <2>3, <2>4, Zenon
<1>2. IsFiniteSet(T) /\ Cardinality(T) <= Cardinality(S \cup {k})
  BY <1>1, FS_Subset
<1>3. Cardinality(T) \in Nat /\ Cardinality(S \cup {k}) \in Nat
  BY <1>1, <1>2, FS_CardinalityType
<1> QED
  BY <1>1, <1>2, <1>3, LimiterAssumption

\* evict frees a place: whatever went, fewer than MaxBuckets are left.
LEMMA EvictFrees ==
    ASSUME LimiterInv, NEW out \in IF Cardinality(Held) >= MaxBuckets THEN Evictions ELSE {{}}
    PROVE  IsFiniteSet(Held \ out) /\ Cardinality(Held \ out) < MaxBuckets
<1>1. IsFiniteSet(Held) /\ Cardinality(Held) \in Nat /\ Cardinality(Held) <= MaxBuckets
      /\ MaxBuckets \in Nat
  BY FS_CardinalityType, LimiterAssumption DEF LimiterInv
<1>2. \A S : S \subseteq Held => IsFiniteSet(S) /\ Cardinality(S) <= Cardinality(Held)
  BY <1>1, FS_Subset
<1>3. IsFiniteSet(Held \ out) /\ Cardinality(Held \ out) \in Nat
      /\ Cardinality(Held \ out) <= Cardinality(Held)
  <2>1. Held \ out \subseteq Held
    OBVIOUS
  <2> QED
    BY <1>2, <2>1, FS_CardinalityType
<1>4. CASE Cardinality(Held) < MaxBuckets
  BY <1>1, <1>3, <1>4
<1>5. CASE Cardinality(Held) >= MaxBuckets
  <2> DEFINE elapsed == {k \in Held : Elapsed(buckets[k])}
  <2>1. CASE Cardinality(Held \ elapsed) < MaxBuckets
    BY <1>3, <1>5, <2>1 DEF Evictions
  <2>2. CASE ~ (Cardinality(Held \ elapsed) < MaxBuckets)
    <3>1. PICK x \in Held : out = elapsed \cup {x}
      BY <1>5, <2>2 DEF Evictions
    <3>2. Held \ out \subseteq Held \ {x}
      BY <3>1
    <3>3. IsFiniteSet(Held \ {x}) /\ Cardinality(Held \ {x}) = Cardinality(Held) - 1
      BY <1>1, <3>1, FS_RemoveElement
    <3>4. Cardinality(Held \ out) <= Cardinality(Held \ {x})
      BY <3>2, <3>3, FS_Subset
    <3> QED
      BY <1>1, <1>3, <3>3, <3>4
  <2> QED
    BY <2>1, <2>2
<1> QED
  BY <1>1, <1>4, <1>5

\* A new window, in a map that may be full.
LEMMA WindowOpened ==
    ASSUME LimiterInv, NEW k \in LimiterKeys, OpenWindow(k) PROVE LimiterInv'
<1>1. PICK out \in IF Cardinality(Held) >= MaxBuckets THEN Evictions ELSE {{}} :
         /\ buckets' = [Dropped(out) EXCEPT ![k] = [count |-> 1, reset |-> now + Window[k[1]]]]
         /\ granted' = [x \in LimiterKeys |->
                          IF x = k THEN 1 ELSE IF x \in out THEN 0 ELSE granted[x]]
  BY DEF OpenWindow
<1>2. k[1] \in Routes /\ Window[k[1]] \in Nat /\ now' = now /\ now \in Nat \ {0}
      /\ Limit[k[1]] \in Nat \ {0}
  BY LimiterAssumption DEF LimiterKeys, OpenWindow, LimiterInv
<1> DEFINE new == [count |-> 1, reset |-> now + Window[k[1]]]
<1>3. new \in Buckets /\ NoBucket \in Buckets /\ new # NoBucket /\ now <= new.reset
      /\ new.count = 1 /\ NoBucket.reset = 0
  BY <1>2 DEF Buckets, NoBucket
<1> HIDE DEF new
<1>4. /\ buckets' \in [LimiterKeys -> Buckets] /\ buckets'[k] = new
      /\ \A x \in LimiterKeys : x # k /\ x \in out => buckets'[x] = NoBucket
      /\ \A x \in LimiterKeys : x # k /\ x \notin out => buckets'[x] = buckets[x]
  <2>1. Dropped(out) \in [LimiterKeys -> Buckets]
    BY <1>3 DEF Dropped, LimiterInv
  <2>2. \A x \in LimiterKeys : Dropped(out)[x] = IF x \in out THEN NoBucket ELSE buckets[x]
    BY DEF Dropped
  <2> QED
    BY <1>1, <1>3, <2>1, <2>2 DEF new
<1>5. /\ granted' \in [LimiterKeys -> Nat] /\ granted'[k] = 1
      /\ \A x \in LimiterKeys : x # k /\ x \in out => granted'[x] = 0
      /\ \A x \in LimiterKeys : x # k /\ x \notin out => granted'[x] = granted[x]
  BY <1>1 DEF LimiterInv
<1>6. Held' \subseteq (Held \ out) \cup {k}
  BY <1>3, <1>4 DEF Held
<1>7. IsFiniteSet(Held') /\ Cardinality(Held') <= MaxBuckets
  BY <1>1, <1>6, EvictFrees, RoomForOne
<1>8. ASSUME NEW x \in LimiterKeys
      PROVE  /\ granted'[x] <= Limit[x[1]]
             /\ ~ (now' > buckets'[x].reset) => buckets'[x].count = granted'[x]
  <2>1. x[1] \in Routes /\ Limit[x[1]] \in Nat
    BY LimiterAssumption DEF LimiterKeys
  <2>2. CASE x = k
    BY <1>2, <1>3, <1>4, <1>5, <2>2
  <2>3. CASE x # k /\ x \in out
    BY <1>2, <1>3, <1>4, <1>5, <2>1, <2>3
  <2>4. CASE x # k /\ x \notin out
    BY <1>2, <1>4, <1>5, <2>4 DEF LimiterInv, Elapsed
  <2> QED
    BY <2>2, <2>3, <2>4
<1> QED
  BY <1>2, <1>4, <1>5, <1>7, <1>8 DEF LimiterInv, Elapsed

\* A request counted in the window that runs.
LEMMA RequestCounted ==
    ASSUME LimiterInv, NEW k \in LimiterKeys, CountRequest(k) PROVE LimiterInv'
<1>1. /\ buckets[k] # NoBucket /\ ~ Elapsed(buckets[k]) /\ buckets[k].count < Limit[k[1]]
      /\ buckets' = [buckets EXCEPT ![k].count = @ + 1]
      /\ granted' = [granted EXCEPT ![k] = @ + 1] /\ now' = now
  BY DEF CountRequest
<1>2. k[1] \in Routes /\ Limit[k[1]] \in Nat
  BY LimiterAssumption DEF LimiterKeys
<1>3. PICK c \in Nat, r \in Nat : buckets[k] = [count |-> c, reset |-> r]
  BY DEF LimiterInv, Buckets
<1>4. [buckets[k] EXCEPT !.count = @ + 1] = [count |-> c + 1, reset |-> r]
  BY <1>3
<1>5. buckets' = [buckets EXCEPT ![k] = [count |-> c + 1, reset |-> r]]
  BY <1>1, <1>4
<1>6. [count |-> c + 1, reset |-> r] \in Buckets
  BY DEF Buckets
<1>7. /\ buckets' \in [LimiterKeys -> Buckets] /\ buckets'[k] = [count |-> c + 1, reset |-> r]
      /\ \A x \in LimiterKeys : x # k => buckets'[x] = buckets[x]
  BY <1>5, <1>6 DEF LimiterInv
<1>8. /\ granted' \in [LimiterKeys -> Nat] /\ granted'[k] = granted[k] + 1
      /\ \A x \in LimiterKeys : x # k => granted'[x] = granted[x]
  BY <1>1 DEF LimiterInv
<1>9. granted[k] = c
  BY <1>1, <1>3 DEF LimiterInv
<1>10. Held' = Held
  <2>1. [count |-> c + 1, reset |-> r] # NoBucket
    BY DEF NoBucket
  <2> QED
    BY <1>1, <1>7, <2>1 DEF Held
<1>11. \A x \in LimiterKeys :
         /\ granted'[x] <= Limit[x[1]]
         /\ ~ (now' > buckets'[x].reset) => buckets'[x].count = granted'[x]
  BY <1>1, <1>2, <1>3, <1>7, <1>8, <1>9 DEF LimiterInv, Elapsed
<1> QED
  BY <1>1, <1>7, <1>8, <1>10, <1>11 DEF LimiterInv, Elapsed

\* Elapsed buckets dropped by the sweep.
LEMMA LimiterPruned == ASSUME LimiterInv, PruneLimiter PROVE LimiterInv'
<1> DEFINE out == {k \in Held : Elapsed(buckets[k])}
<1>1. /\ buckets' = Dropped(out) /\ now' = now
      /\ granted' = [k \in LimiterKeys |-> IF k \in out THEN 0 ELSE granted[k]]
  BY DEF PruneLimiter
<1> HIDE DEF out
<1>2. NoBucket \in Buckets /\ NoBucket.reset = 0
  BY DEF NoBucket, Buckets
<1>3. /\ buckets' \in [LimiterKeys -> Buckets]
      /\ \A x \in LimiterKeys : buckets'[x] = IF x \in out THEN NoBucket ELSE buckets[x]
  BY <1>1, <1>2 DEF Dropped, LimiterInv
<1>4. /\ granted' \in [LimiterKeys -> Nat]
      /\ \A x \in LimiterKeys : granted'[x] = IF x \in out THEN 0 ELSE granted[x]
  BY <1>1 DEF LimiterInv
<1>5. IsFiniteSet(Held') /\ Cardinality(Held') <= MaxBuckets
  <2>1. Held' \subseteq Held
    BY <1>3 DEF Held
  <2>2. IsFiniteSet(Held') /\ Cardinality(Held') <= Cardinality(Held)
    BY <2>1, FS_Subset DEF LimiterInv
  <2> QED
    BY <2>2, FS_CardinalityType, LimiterAssumption DEF LimiterInv
<1>6. \A x \in LimiterKeys : Limit[x[1]] \in Nat
  BY LimiterAssumption DEF LimiterKeys
<1>7. \A x \in LimiterKeys :
         /\ granted'[x] <= Limit[x[1]]
         /\ ~ (now' > buckets'[x].reset) => buckets'[x].count = granted'[x]
  BY <1>1, <1>2, <1>3, <1>4, <1>6 DEF LimiterInv, Elapsed
<1> QED
  BY <1>1, <1>3, <1>4, <1>5, <1>7 DEF LimiterInv, Elapsed

\* Every step of the limiter keeps the invariant.
LEMMA LimiterInvStep == LimiterInv /\ [LimiterNext]_lvars => LimiterInv'
<1> SUFFICES ASSUME LimiterInv, [LimiterNext]_lvars PROVE LimiterInv'
  OBVIOUS
<1>1. ASSUME NEW r \in Routes, NEW p \in Peers, NEW f \in Peers \cup {NoHeader}, Throttle(r, p, f)
      PROVE  LimiterInv'
  <2>1. <<r, ClientIP(p, f)>> \in LimiterKeys
    BY DEF ClientIP, LimiterKeys
  <2> QED
    BY <1>1, <2>1, WindowOpened, RequestCounted DEF Throttle
<1>2. CASE Tick
  <2>1. \A k \in LimiterKeys : buckets[k].reset \in Nat
    BY DEF LimiterInv, Buckets
  <2> QED
    BY <1>2, <2>1 DEF Tick, LimiterInv, Elapsed, Held
<1>3. CASE UNCHANGED lvars
  BY <1>3 DEF lvars, LimiterInv, Elapsed, Held
<1> QED
  BY <1>1, <1>2, <1>3, LimiterPruned DEF LimiterNext

\* No window grants more than its route's budget, and the map stays bounded, also when
\* evict drops buckets whose window runs.  api/ratelimit.go, for every number of routes,
\* peers and buckets.
THEOREM BudgetsHold == LimiterSpec => []BudgetHolds
<1>1. LimiterInit => LimiterInv
  <2> SUFFICES ASSUME LimiterInit PROVE LimiterInv
    OBVIOUS
  <2>1. Held = {}
    BY DEF LimiterInit, Held
  <2>2. IsFiniteSet(Held) /\ Cardinality(Held) = 0
    BY <2>1, FS_EmptySet
  <2>3. NoBucket \in Buckets /\ NoBucket.reset = 0 /\ NoBucket.count = 0
    BY DEF NoBucket, Buckets
  <2>4. \A k \in LimiterKeys : Limit[k[1]] \in Nat
    BY LimiterAssumption DEF LimiterKeys
  <2> QED
    BY <2>2, <2>3, <2>4, LimiterAssumption DEF LimiterInit, LimiterInv, Elapsed
<1>2. LimiterInv => BudgetHolds
  BY DEF LimiterInv, BudgetHolds
<1> QED
  BY <1>1, <1>2, LimiterInvStep, PTL DEF LimiterSpec

-----------------------------------------------------------------------------
(* Enrolment.  A token that was redeemed is in no row, so it is not redeemed  *)
(* again; credentials are made in order, so one identifies its node; and a    *)
(* session belongs to an agent whose stream is up.                            *)

Known == [node : Joining, cred : Nat \ {0}]
Ids == Known \cup {Nobody, Torn}
HostSteps == {"down", "register", "save", "saving", "dial", "hello", "up"}
HostRows == [step : HostSteps, env : Nat, saved : Ids, id : Ids]

\* An agent that has an identity in memory.
Identified == {"save", "saving", "dial", "hello", "up"}

EnrolmentTyped ==
    /\ made \in Nat /\ IsFiniteSet(redeemed)
    /\ row \in [Joining -> NodeRows \cup {NoRow, Deleted}]
    /\ host \in [Hosts -> HostRows]
    /\ attached \in [Joining -> Hosts \cup {"none"}] /\ deleting \subseteq Joining

TokensFresh ==
    /\ \A n \in Live : row[n].token \in 0..made
    /\ \A n, m \in Live : row[n].token = row[m].token /\ row[n].token # 0 => n = m
    /\ \A r \in redeemed : r[1] \in 1..made /\ \A n \in Live : row[n].token # r[1]
    /\ \A h \in Hosts : host[h].step = "register" => host[h].env \in 1..made
    /\ JoinTokenOnce

\* x was issued, and if a node still has its credential it is x's node.
Issued(x) ==
    /\ x.cred <= Cardinality(redeemed)
    /\ \A n \in Live : x \in Known /\ row[n].cred = x.cred => x.node = n

CredsKnown ==
    /\ \A n \in Live : row[n].cred <= Cardinality(redeemed)
    /\ \A h \in Hosts : Issued(host[h].id) /\ Issued(host[h].saved)
    /\ \A h \in Hosts : host[h].step \in Identified => host[h].id \in Known

SessionsUp ==
    /\ \A n \in Joining, h \in Hosts :
         attached[n] = h => host[h].step = "up" /\ host[h].id.node = n
    /\ PromptHello =>
         /\ \A h \in Hosts : host[h].step = "hello" => host[h].id.node \in Live \cup deleting
         /\ \A n \in Joining : attached[n] # "none" => n \in Live \cup deleting

EnrolmentInv == EnrolmentTyped /\ TokensFresh /\ CredsKnown /\ SessionsUp

\* What an agent holds, and what a change of its step leaves.
LEMMA HostForms ==
    ASSUME EnrolmentTyped, NEW h \in Hosts, NEW s
    PROVE  /\ host[h] \in HostRows /\ host[h].id \in Ids /\ host[h].saved \in Ids
           /\ host[h].env \in Nat
           /\ [host[h] EXCEPT !.step = s]
                = [step |-> s, env |-> host[h].env, saved |-> host[h].saved, id |-> host[h].id]
           /\ [host EXCEPT ![h].step = s] = [host EXCEPT ![h] = [host[h] EXCEPT !.step = s]]
           /\ \A x \in Ids : x.cred \in Nat
           /\ Nobody \in Ids /\ Torn \in Ids /\ Nobody \notin Known /\ Torn \notin Known
<1>1. host[h] \in HostRows
  BY DEF EnrolmentTyped
<1>2. \A x \in Ids : x.cred \in Nat
  BY DEF Ids, Known, Nobody, Torn
<1>3. Nobody \notin Known /\ Torn \notin Known
  BY DEF Known, Nobody, Torn
<1>4. PICK r \in HostRows : r = host[h]
  BY <1>1
<1>5. [r EXCEPT !.step = s] = [step |-> s, env |-> r.env, saved |-> r.saved, id |-> r.id]
  BY DEF HostRows
<1>6. r.id \in Ids /\ r.saved \in Ids /\ r.env \in Nat
  BY DEF HostRows
<1> QED
  BY <1>1, <1>2, <1>3, <1>4, <1>5, <1>6 DEF Ids

\* Rows are told apart from the marks of an id without one.
LEMMA RowForms ==
    ASSUME EnrolmentTyped
    PROVE  /\ \A n \in Live : n \in Joining /\ row[n] \in NodeRows
                              /\ row[n].token \in Nat /\ row[n].cred \in Nat
           /\ \A n \in Joining : row[n] \in NodeRows => n \in Live
           /\ Cardinality(redeemed) \in Nat
  BY EnrolmentAssumption, FS_CardinalityType DEF EnrolmentTyped, Live, NodeRows

\* One agent moves, keeping what it knew or losing it; its session, if any, is gone.
LEMMA HostMoved ==
    ASSUME EnrolmentInv, NEW h \in Hosts, NEW x \in HostRows,
           host' = [host EXCEPT ![h] = x], UNCHANGED <<row, made, redeemed, deleting>>,
           attached' \in [Joining -> Hosts \cup {"none"}],
           \A n \in Joining : attached'[n] # h /\ attached'[n] \in {attached[n], "none"},
           x.id \in {host[h].id, host[h].saved, Nobody, Torn},
           x.saved \in {host[h].id, host[h].saved, Nobody, Torn},
           x.step = "register" => x.env \in 1..made,
           x.step \in Identified => x.id \in Known,
           x.step = "hello" => x.id.node \in Live
    PROVE  EnrolmentInv'
<1> USE DEF EnrolmentInv
<1>1. host' \in [Hosts -> HostRows] /\ host'[h] = x
      /\ \A g \in Hosts : g # h => host'[g] = host[g]
  BY DEF EnrolmentTyped
<1>2. EnrolmentTyped' /\ Live' = Live
  BY <1>1 DEF EnrolmentTyped, Live
<1>3. TokensFresh'
  BY <1>1, <1>2 DEF TokensFresh, JoinTokenOnce
<1>4. CredsKnown'
  <2>1. Issued(Nobody) /\ Issued(Torn)
    <3>1. Nobody.cred = 0 /\ Torn.cred = 0
      BY DEF Nobody, Torn
    <3>2. Nobody \notin Known /\ Torn \notin Known
      BY DEF Known, Nobody, Torn
    <3> QED
      BY <3>1, <3>2, RowForms DEF Issued
  <2>2. Issued(x.id) /\ Issued(x.saved)
    BY <2>1 DEF CredsKnown
  <2>3. \A g \in Hosts : Issued(host'[g].id) /\ Issued(host'[g].saved)
    BY <1>1, <2>2 DEF CredsKnown
  <2> QED
    BY <1>1, <1>2, <2>3 DEF CredsKnown, Issued
<1>5. SessionsUp'
  <2>1. ASSUME NEW n \in Joining, NEW g \in Hosts, attached'[n] = g
        PROVE  host'[g].step = "up" /\ host'[g].id.node = n
    BY <1>1, <2>1, EnrolmentAssumption DEF SessionsUp
  <2>2. ASSUME PromptHello
        PROVE  /\ \A g \in Hosts : host'[g].step = "hello" => host'[g].id.node \in Live \cup deleting
               /\ \A n \in Joining : attached'[n] # "none" => n \in Live \cup deleting
    BY <1>1, <2>2 DEF SessionsUp
  <2> QED
    BY <1>2, <2>1, <2>2 DEF SessionsUp
<1> QED
  BY <1>2, <1>3, <1>4, <1>5

\* An operator is handed a new token, for a new node or for one that lost its own.
LEMMA TokenIssued ==
    ASSUME EnrolmentInv, NEW n \in Joining, NEW x \in NodeRows,
           x.token = made + 1, x.cred = 0 \/ (n \in Live /\ x.cred = row[n].cred),
           row' = [row EXCEPT ![n] = x], made' = made + 1,
           UNCHANGED <<redeemed, host, attached, deleting>>
    PROVE  EnrolmentInv'
<1> USE DEF EnrolmentInv
<1>1. /\ row' \in [Joining -> NodeRows \cup {NoRow, Deleted}] /\ row'[n] = x
      /\ \A m \in Joining : m # n => row'[m] = row[m]
  BY DEF EnrolmentTyped
<1>2. EnrolmentTyped'
  BY <1>1 DEF EnrolmentTyped
<1>3. /\ n \in Live' /\ \A m \in Live' : m # n => m \in Live
      /\ Live \subseteq Live'
  BY <1>1, EnrolmentAssumption DEF Live
<1>4. \A m \in Live' : m # n => row'[m] = row[m]
  BY <1>1, <1>3, RowForms
<1>5. TokensFresh'
  <2>0. made \in Nat
    BY DEF EnrolmentTyped
  <2>1. \A m \in Live' : row'[m].token \in 0..made'
    BY <1>1, <1>3, <1>4, <2>0 DEF TokensFresh
  <2>2. \A m \in Live' : m # n => row'[m].token # made + 1
    BY <1>3, <1>4, <2>0 DEF TokensFresh
  <2>3. \A m, k \in Live' : row'[m].token = row'[k].token /\ row'[m].token # 0 => m = k
    BY <1>1, <1>3, <1>4, <2>2 DEF TokensFresh
  <2>4. \A r \in redeemed : r[1] \in 1..(made + 1) /\ \A m \in Live' : row'[m].token # r[1]
    BY <1>1, <1>3, <1>4, <2>0 DEF TokensFresh
  <2>5. \A h \in Hosts : host[h].step = "register" => host[h].env \in 1..(made + 1)
    BY <2>0 DEF TokensFresh
  <2> QED
    BY <2>1, <2>3, <2>4, <2>5 DEF TokensFresh, JoinTokenOnce
<1>6. CredsKnown'
  <2>1. \A m \in Live' : row'[m].cred <= Cardinality(redeemed)
    BY <1>1, <1>3, <1>4, RowForms DEF CredsKnown
  <2>2. ASSUME NEW y, Issued(y) PROVE Issued(y)'
    <3>1. y \in Known => y.cred # 0
      BY DEF Known
    <3>2. \A m \in Live' : y \in Known /\ row'[m].cred = y.cred => y.node = m
      BY <1>1, <1>3, <1>4, <2>2, <3>1 DEF Issued
    <3> QED
      BY <2>2, <3>2 DEF Issued
  <2>3. \A h \in Hosts : Issued(host[h].id)' /\ Issued(host[h].saved)'
    <3>1. \A y : Issued(y) => Issued(y)'
      BY <2>2
    <3> SUFFICES ASSUME NEW h \in Hosts PROVE Issued(host[h].id)' /\ Issued(host[h].saved)'
      OBVIOUS
    <3>2. PICK y, z : y = host[h].id /\ z = host[h].saved
      OBVIOUS
    <3>3. Issued(y)' /\ Issued(z)'
      BY <3>1, <3>2 DEF CredsKnown
    <3> QED
      BY <3>2, <3>3 DEF Issued
  <2> QED
    BY <2>1, <2>3 DEF CredsKnown
<1>7. SessionsUp'
  BY <1>3 DEF SessionsUp
<1> QED
  BY <1>2, <1>5, <1>6, <1>7

\* A token becomes a credential: it leaves its row, and the credential is new.
LEMMA TokenRedeemed ==
    ASSUME EnrolmentInv, NEW h \in Hosts, NEW lost \in BOOLEAN, Register(h, lost)
    PROVE  EnrolmentInv'
<1> DEFINE c == Cardinality(redeemed) + 1
           t == host[h].env
<1> USE DEF EnrolmentInv
<1>1. PICK n \in Live :
         /\ host[h].step = "register" /\ row[n].token = t
         /\ row' = RedeemJoinToken(n, c)
         /\ redeemed' = redeemed \cup {<<t, c>>}
         /\ IF lost THEN UNCHANGED host /\ outages < MaxOutages /\ outages' = outages + 1
            ELSE /\ host' = [host EXCEPT ![h].step = "save", ![h].id = Identity(n, c)]
                 /\ UNCHANGED outages
         /\ UNCHANGED <<made, attached, deleting>>
  BY DEF Register
<1>2. /\ Cardinality(redeemed) \in Nat /\ c \in Nat \ {0} /\ n \in Joining
      /\ c > Cardinality(redeemed) /\ t \in 1..made /\ made \in Nat
      /\ IsFiniteSet(redeemed)
  BY <1>1, RowForms DEF TokensFresh, EnrolmentTyped
<1>3. /\ IsFiniteSet(redeemed') /\ Cardinality(redeemed') = c
  <2>1. <<t, c>> \notin redeemed
    <3>1. \A r \in redeemed : r[1] # t
      BY <1>1 DEF TokensFresh
    <3>2. <<t, c>>[1] = t
      OBVIOUS
    <3> QED
      BY <3>1, <3>2
  <2> QED
    BY <1>1, <1>2, <2>1, FS_AddElement
<1> HIDE DEF c, t
<1>4. PICK x \in NodeRows : x = [token |-> 0, cred |-> c]
  BY <1>2 DEF NodeRows
<1>5. /\ row' \in [Joining -> NodeRows \cup {NoRow, Deleted}] /\ row'[n] = x
      /\ \A m \in Joining : m # n => row'[m] = row[m]
      /\ x.token = 0 /\ x.cred = c
  BY <1>1, <1>2, <1>4 DEF EnrolmentTyped, RedeemJoinToken
<1>6. Live' = Live
  BY <1>1, <1>5, EnrolmentAssumption DEF Live
<1>7. PICK y : y = Identity(n, c)
  OBVIOUS
<1>8. y \in Known /\ y.node = n /\ y.cred = c
  BY <1>2, <1>7 DEF Known, Identity
<1>9. /\ host' \in [Hosts -> HostRows]
      /\ \A g \in Hosts : g # h => host'[g] = host[g]
      /\ host'[h] = host[h] \/ (/\ host'[h].step = "save" /\ host'[h].id = y
                                /\ host'[h].saved = host[h].saved)
  <2>1. CASE lost
    BY <1>1, <2>1 DEF EnrolmentTyped
  <2>2. CASE ~ lost
    <3>1. PICK r \in HostRows : r = host[h]
      BY DEF EnrolmentTyped
    <3>2. PICK q : q = [step |-> "save", env |-> r.env, saved |-> r.saved, id |-> y]
      OBVIOUS
    <3>3. q \in HostRows /\ q.step = "save" /\ q.id = y /\ q.saved = r.saved
      <4>1. y \in Ids /\ r.saved \in Ids /\ r.env \in Nat
        BY <1>8 DEF HostRows, Ids
      <4> QED
        BY <3>2, <4>1 DEF HostRows, HostSteps
    <3>4. PICK p : p = [r EXCEPT !.step = "save"]
      OBVIOUS
    <3>5. p = [step |-> "save", env |-> r.env, saved |-> r.saved, id |-> r.id]
      BY <3>4 DEF HostRows
    <3>6. [p EXCEPT !.id = y] = q
      BY <3>2, <3>5
    <3>7. host' = [[host EXCEPT ![h] = [host[h] EXCEPT !.step = "save"]] EXCEPT ![h] = [@ EXCEPT !.id = y]]
      BY <1>1, <1>7, <2>2
    <3>8. host \in [Hosts -> HostRows]
      BY DEF EnrolmentTyped
    <3>9. host' = [host EXCEPT ![h] = q]
      BY <3>1, <3>4, <3>6, <3>7, <3>8
    <3> QED
      BY <3>1, <3>3, <3>8, <3>9
  <2> QED
    BY <2>1, <2>2
<1>10. EnrolmentTyped'
  BY <1>1, <1>3, <1>5, <1>9 DEF EnrolmentTyped
<1>11. TokensFresh'
  <2>1. \A m \in Live' : row'[m].token = 0 \/ (m # n /\ row'[m].token = row[m].token)
    BY <1>5, <1>6, RowForms
  <2>2. \A m \in Live' : row'[m].token \in 0..made
    BY <1>2, <1>6, <2>1 DEF TokensFresh
  <2>3. \A m, k \in Live' : row'[m].token = row'[k].token /\ row'[m].token # 0 => m = k
    BY <1>6, <2>1 DEF TokensFresh
  <2>4. \A m \in Live' : row'[m].token # t
    BY <1>1, <1>2, <1>6, <2>1 DEF TokensFresh
  <2>5. \A r \in redeemed' : r[1] \in 1..made /\ \A m \in Live' : row'[m].token # r[1]
    <3>1. \A r \in redeemed : r[1] \in 1..made /\ \A m \in Live' : row'[m].token # r[1]
      BY <1>2, <1>6, <2>1 DEF TokensFresh
    <3> QED
      BY <1>1, <1>2, <2>4, <3>1
  <2>6. \A g \in Hosts : host'[g].step = "register" => host'[g].env \in 1..made
    BY <1>9 DEF TokensFresh
  <2>7. JoinTokenOnce'
    <3>1. \A r \in redeemed : r[1] # t
      BY <1>1 DEF TokensFresh
    <3> QED
      BY <1>1, <3>1 DEF TokensFresh, JoinTokenOnce
  <2> QED
    BY <1>1, <2>2, <2>3, <2>5, <2>6, <2>7 DEF TokensFresh
<1>12. CredsKnown'
  <2>1. \A m \in Live' : row'[m].cred \in Nat /\ row'[m].cred <= c
    BY <1>2, <1>5, <1>6, RowForms DEF CredsKnown
  <2>2. ASSUME NEW z \in Ids, Issued(z) PROVE Issued(z)'
    <3>1. z.cred \in Nat /\ z.cred # c
      BY <1>2, <2>2 DEF Issued, Ids, Known, Nobody, Torn
    <3>2. \A m \in Live' : z \in Known /\ row'[m].cred = z.cred => z.node = m
      BY <1>5, <1>6, <2>2, <3>1, RowForms DEF Issued
    <3>3. z.cred <= c
      BY <1>2, <2>2, <3>1 DEF Issued
    <3> QED
      BY <1>3, <3>2, <3>3 DEF Issued
  <2>3. Issued(y)'
    <3>1. \A m \in Live' : row'[m].cred = c => m = n
      BY <1>2, <1>5, <1>6, RowForms DEF CredsKnown
    <3> QED
      BY <1>2, <1>3, <1>8, <3>1 DEF Issued
  <2>4. ASSUME NEW g \in Hosts PROVE Issued(host[g].id)' /\ Issued(host[g].saved)'
    <3>1. PICK v \in Ids, w \in Ids : v = host[g].id /\ w = host[g].saved
      BY DEF EnrolmentTyped, HostRows
    <3>2. Issued(v)' /\ Issued(w)'
      BY <2>2, <3>1 DEF CredsKnown
    <3>3. host'[g].id \in {v, y} /\ host'[g].saved = w
      BY <1>9, <3>1
    <3> QED
      BY <2>3, <3>2, <3>3 DEF Issued
  <2>5. \A g \in Hosts : host'[g].step \in Identified => host'[g].id \in Known
    BY <1>8, <1>9 DEF CredsKnown
  <2> QED
    BY <1>3, <2>1, <2>4, <2>5 DEF CredsKnown
<1>13. SessionsUp'
  <2>1. \A m \in Joining : attached[m] # h
    BY <1>1 DEF SessionsUp
  <2> QED
    BY <1>1, <1>6, <1>9, <2>1 DEF SessionsUp
<1> QED
  BY <1>10, <1>11, <1>12, <1>13

\* A stream says Hello: its agent's session replaces the one of another.
LEMMA StreamAttached ==
    ASSUME EnrolmentInv, NEW h \in Hosts, attach(h) PROVE EnrolmentInv'
<1> DEFINE n == host[h].id.node
<1> USE DEF EnrolmentInv
<1>1. /\ host[h].step = "hello" /\ attached' = [attached EXCEPT ![n] = h]
      /\ host' = [g \in Hosts |-> IF g = h THEN [host[g] EXCEPT !.step = "up"]
                                  ELSE IF attached[n] = g THEN [host[g] EXCEPT !.step = "dial"]
                                  ELSE host[g]]
      /\ UNCHANGED <<row, made, redeemed, deleting>>
  BY DEF attach
<1>2. n \in Joining
  BY <1>1 DEF CredsKnown, Identified, Known
<1> HIDE DEF n
<1>3. \A g \in Hosts :
         /\ host'[g] \in HostRows /\ host'[g].id = host[g].id /\ host'[g].saved = host[g].saved
         /\ host'[g].env = host[g].env
         /\ host'[g].step = IF g = h THEN "up" ELSE IF attached[n] = g THEN "dial" ELSE host[g].step
  <2> SUFFICES ASSUME NEW g \in Hosts
               PROVE  /\ host'[g] \in HostRows /\ host'[g].id = host[g].id
                      /\ host'[g].saved = host[g].saved /\ host'[g].env = host[g].env
                      /\ host'[g].step = IF g = h THEN "up"
                                         ELSE IF attached[n] = g THEN "dial" ELSE host[g].step
    OBVIOUS
  <2>1. PICK r \in HostRows : r = host[g]
    BY DEF EnrolmentTyped
  <2>2. \A s \in HostSteps : LET q == [r EXCEPT !.step = s] IN
           q \in HostRows /\ q.id = r.id /\ q.saved = r.saved /\ q.env = r.env /\ q.step = s
    BY DEF HostRows
  <2>3. host'[g] = IF g = h THEN [r EXCEPT !.step = "up"]
                   ELSE IF attached[n] = g THEN [r EXCEPT !.step = "dial"] ELSE r
    BY <1>1, <2>1
  <2>4. PICK s \in HostSteps : s = "up"
    BY DEF HostSteps
  <2>5. PICK t \in HostSteps : t = "dial"
    BY DEF HostSteps
  <2>6. host'[g] = IF g = h THEN [r EXCEPT !.step = s]
                   ELSE IF attached[n] = g THEN [r EXCEPT !.step = t] ELSE r
    BY <2>3, <2>4, <2>5
  <2> QED
    BY <2>1, <2>2, <2>4, <2>5, <2>6
<1>4. EnrolmentTyped' /\ Live' = Live
  <2>1. host' \in [Hosts -> HostRows]
    BY <1>1, <1>3
  <2>2. attached' \in [Joining -> Hosts \cup {"none"}]
    BY <1>1 DEF EnrolmentTyped
  <2> QED
    BY <1>1, <2>1, <2>2 DEF EnrolmentTyped, Live
<1>5. TokensFresh'
  <2>1. \A g \in Hosts : host'[g].step = "register" => host'[g].env \in 1..made
    BY <1>3 DEF TokensFresh
  <2> QED
    BY <1>1, <1>4, <2>1 DEF TokensFresh, JoinTokenOnce
<1>6. CredsKnown'
  <2>1. \A g \in Hosts : host'[g].step \in Identified => host[g].step \in Identified
    BY <1>1, <1>2, <1>3 DEF SessionsUp, Identified
  <2>2. \A g \in Hosts : host'[g].step \in Identified => host'[g].id \in Known
    BY <1>3, <2>1 DEF CredsKnown
  <2>3. \A g \in Hosts : Issued(host[g].id)' /\ Issued(host[g].saved)'
    BY <1>1, <1>3, <1>4 DEF CredsKnown, Issued
  <2> QED
    BY <1>1, <1>4, <2>2, <2>3 DEF CredsKnown
<1>7. SessionsUp'
  <2>1. attached'[n] = h /\ \A m \in Joining : m # n => attached'[m] = attached[m]
    BY <1>1, <1>2 DEF EnrolmentTyped
  <2>2. \A m \in Joining : m # n => attached[m] # h
    BY <1>1 DEF SessionsUp
  <2>3. \A m \in Joining, g \in Hosts : m # n /\ attached[m] = g => attached[n] # g
    BY <1>2 DEF SessionsUp
  <2>4. ASSUME NEW m \in Joining, NEW g \in Hosts, attached'[m] = g
        PROVE  host'[g].step = "up" /\ host'[g].id.node = m
    <3>1. CASE m = n
      BY <1>3, <2>1, <2>4, <3>1 DEF n
    <3>2. CASE m # n
      BY <1>3, <2>1, <2>2, <2>3, <2>4, <3>2 DEF SessionsUp
    <3> QED
      BY <3>1, <3>2
  <2>5. ASSUME PromptHello
        PROVE  /\ \A g \in Hosts : host'[g].step = "hello" => host'[g].id.node \in Live \cup deleting
               /\ \A m \in Joining : attached'[m] # "none" => m \in Live \cup deleting
    BY <1>1, <1>3, <2>1, <2>5 DEF SessionsUp, n
  <2> QED
    BY <1>1, <1>4, <2>4, <2>5 DEF SessionsUp
<1> QED
  BY <1>4, <1>5, <1>6, <1>7

\* A node is deleted: what is known of its credential stays true of the others.
LEMMA NodeDeleted ==
    ASSUME EnrolmentInv, NEW n \in Joining, deleteNode(n) PROVE EnrolmentInv'
<1> USE DEF EnrolmentInv
<1>1. /\ n \in Live /\ row' = [row EXCEPT ![n] = Deleted] /\ deleting' = deleting \cup {n}
      /\ UNCHANGED <<made, redeemed, host, attached>>
  BY DEF deleteNode
<1>2. EnrolmentTyped' /\ row'[n] = Deleted /\ \A m \in Joining : m # n => row'[m] = row[m]
  BY <1>1 DEF EnrolmentTyped
<1>3. Live' = Live \ {n}
  BY <1>2 DEF Live
<1>4. \A m \in Live' : m \in Live /\ row'[m] = row[m]
  BY <1>2, <1>3, RowForms
<1>5. TokensFresh'
  BY <1>1, <1>4 DEF TokensFresh, JoinTokenOnce
<1>6. CredsKnown'
  <2>1. \A h \in Hosts : Issued(host[h].id)' /\ Issued(host[h].saved)'
    BY <1>1, <1>4 DEF CredsKnown, Issued
  <2> QED
    BY <1>1, <1>4, <2>1 DEF CredsKnown
<1>7. SessionsUp'
  BY <1>1, <1>3 DEF SessionsUp
<1> QED
  BY <1>2, <1>5, <1>6, <1>7

\* The session of a deleted node is closed, and its agent dials again.
LEMMA SessionClosed ==
    ASSUME EnrolmentInv, NEW n \in Joining, CloseSession(n) PROVE EnrolmentInv'
<1> USE DEF EnrolmentInv
<1>1. /\ PromptHello => \A h \in Hosts : ~ (host[h].step = "hello" /\ host[h].id.node = n)
      /\ attached' = [attached EXCEPT ![n] = "none"] /\ deleting' = deleting \ {n}
      /\ host' = [h \in Hosts |->
                    IF attached[n] = h THEN [host[h] EXCEPT !.step = "dial"] ELSE host[h]]
      /\ UNCHANGED <<row, made, redeemed>>
  BY DEF CloseSession
<1>2. \A g \in Hosts :
         /\ host'[g] \in HostRows /\ host'[g].id = host[g].id /\ host'[g].saved = host[g].saved
         /\ host'[g].env = host[g].env
         /\ host'[g].step = IF attached[n] = g THEN "dial" ELSE host[g].step
  <2> SUFFICES ASSUME NEW g \in Hosts
               PROVE  /\ host'[g] \in HostRows /\ host'[g].id = host[g].id
                      /\ host'[g].saved = host[g].saved /\ host'[g].env = host[g].env
                      /\ host'[g].step = IF attached[n] = g THEN "dial" ELSE host[g].step
    OBVIOUS
  <2>1. PICK r \in HostRows : r = host[g]
    BY DEF EnrolmentTyped
  <2>2. \A s \in HostSteps : LET q == [r EXCEPT !.step = s] IN
           q \in HostRows /\ q.id = r.id /\ q.saved = r.saved /\ q.env = r.env /\ q.step = s
    BY DEF HostRows
  <2>3. PICK t \in HostSteps : t = "dial"
    BY DEF HostSteps
  <2>4. host'[g] = IF attached[n] = g THEN [r EXCEPT !.step = t] ELSE r
    BY <1>1, <2>1, <2>3
  <2> QED
    BY <2>1, <2>2, <2>3, <2>4
<1>3. EnrolmentTyped' /\ Live' = Live
  <2>1. host' \in [Hosts -> HostRows]
    BY <1>1, <1>2
  <2>2. attached' \in [Joining -> Hosts \cup {"none"}]
    BY <1>1 DEF EnrolmentTyped
  <2> QED
    BY <1>1, <2>1, <2>2 DEF EnrolmentTyped, Live
<1>4. TokensFresh'
  <2>1. \A g \in Hosts : host'[g].step = "register" => host'[g].env \in 1..made
    BY <1>2 DEF TokensFresh
  <2> QED
    BY <1>1, <1>3, <2>1 DEF TokensFresh, JoinTokenOnce
<1>5. CredsKnown'
  <2>1. \A g \in Hosts : host'[g].step \in Identified => host[g].step \in Identified
    BY <1>2 DEF SessionsUp, Identified
  <2>2. \A g \in Hosts : host'[g].step \in Identified => host'[g].id \in Known
    BY <1>2, <2>1 DEF CredsKnown
  <2>3. \A g \in Hosts : Issued(host[g].id)' /\ Issued(host[g].saved)'
    BY <1>1, <1>2, <1>3 DEF CredsKnown, Issued
  <2> QED
    BY <1>1, <1>3, <2>2, <2>3 DEF CredsKnown
<1>6. SessionsUp'
  <2>1. attached'[n] = "none" /\ \A m \in Joining : m # n => attached'[m] = attached[m]
    BY <1>1 DEF EnrolmentTyped
  <2>2. \A m \in Joining, g \in Hosts : m # n /\ attached[m] = g => attached[n] # g
    BY DEF SessionsUp
  <2>3. ASSUME NEW m \in Joining, NEW g \in Hosts, attached'[m] = g
        PROVE  host'[g].step = "up" /\ host'[g].id.node = m
    <3>1. m # n
      BY <2>1, <2>3, EnrolmentAssumption
    <3> QED
      BY <1>2, <2>1, <2>2, <2>3, <3>1 DEF SessionsUp
  <2>4. ASSUME PromptHello
        PROVE  /\ \A g \in Hosts : host'[g].step = "hello" =>
                                      host'[g].id.node \in Live \cup (deleting \ {n})
               /\ \A m \in Joining : attached'[m] # "none" => m \in Live \cup (deleting \ {n})
    BY <1>1, <1>2, <2>1, <2>4 DEF SessionsUp
  <2> QED
    BY <1>1, <1>3, <2>3, <2>4 DEF SessionsUp
<1> QED
  BY <1>3, <1>4, <1>5, <1>6

\* Every step of operators, agents and Core keeps the invariant.
LEMMA EnrolmentInvStep == EnrolmentInv /\ [EnrolmentNext]_nvars => EnrolmentInv'
<1> SUFFICES ASSUME EnrolmentInv, [EnrolmentNext]_nvars PROVE EnrolmentInv'
  OBVIOUS
<1>0. EnrolmentTyped /\ TokensFresh /\ CredsKnown /\ SessionsUp
  BY DEF EnrolmentInv
<1>1. ASSUME NEW n \in Joining, createNode(n) PROVE EnrolmentInv'
  <2>1. PICK x : x = [token |-> made + 1, cred |-> 0]
    OBVIOUS
  <2>2. x \in NodeRows /\ x.token = made + 1 /\ x.cred = 0
    BY <1>0, <2>1 DEF NodeRows, EnrolmentTyped
  <2>3. /\ row' = [row EXCEPT ![n] = x] /\ made' = made + 1
        /\ UNCHANGED <<redeemed, host, attached, deleting>>
    BY <1>1, <2>1 DEF createNode
  <2> QED
    BY <2>2, <2>3, TokenIssued
<1>2. ASSUME NEW n \in Joining, resetJoinToken(n) PROVE EnrolmentInv'
  <2>1. n \in Live /\ row[n] \in NodeRows
    BY <1>0, <1>2, RowForms DEF resetJoinToken
  <2>2. PICK r \in NodeRows : r = row[n]
    BY <2>1
  <2>3. PICK x : x = [r EXCEPT !.token = made + 1]
    OBVIOUS
  <2>4. x \in NodeRows /\ x.token = made + 1 /\ x.cred = r.cred
    BY <1>0, <2>3 DEF NodeRows, EnrolmentTyped
  <2>5. /\ row' = [row EXCEPT ![n] = x] /\ made' = made + 1
        /\ UNCHANGED <<redeemed, host, attached, deleting>>
    BY <1>2, <2>2, <2>3 DEF resetJoinToken
  <2> QED
    BY <2>1, <2>2, <2>4, <2>5, TokenIssued
<1>3. ASSUME NEW h \in Hosts, NEW x \in HostRows, host[h].step # "up", host' = [host EXCEPT ![h] = x],
             UNCHANGED <<row, made, redeemed, attached, deleting>>,
             x.id \in {host[h].id, host[h].saved, Nobody, Torn},
             x.saved \in {host[h].id, host[h].saved, Nobody, Torn},
             x.step = "register" => x.env \in 1..made,
             x.step \in Identified => x.id \in Known,
             x.step = "hello" => x.id.node \in Live
      PROVE  EnrolmentInv'
  <2>1. \A n \in Joining : attached'[n] # h /\ attached'[n] \in {attached[n], "none"}
    BY <1>0, <1>3 DEF SessionsUp
  <2>2. attached' \in [Joining -> Hosts \cup {"none"}]
    BY <1>0, <1>3 DEF EnrolmentTyped
  <2> QED
    BY <1>3, <2>1, <2>2, HostMoved
<1>4. ASSUME NEW h \in Hosts, NEW t \in 0..made, ensureRegistered(h, t) PROVE EnrolmentInv'
  <2>1. PICK r \in HostRows : r = host[h]
    BY <1>0 DEF EnrolmentTyped
  <2>2. CASE r.saved \notin {Nobody, Torn}
    <3>1. PICK x : x = [step |-> "dial", env |-> 0, saved |-> r.saved, id |-> r.saved]
      OBVIOUS
    <3>2. x \in HostRows /\ x.id = r.saved /\ x.saved = r.saved /\ x.step = "dial"
          /\ r.saved \in Known
      BY <2>2, <3>1 DEF HostRows, HostSteps, Ids
    <3>3. host' = [host EXCEPT ![h] = x] /\ host[h].step = "down"
          /\ UNCHANGED <<row, made, redeemed, attached, deleting>>
      BY <1>4, <2>1, <2>2, <3>1 DEF ensureRegistered
    <3> QED
      BY <1>3, <2>1, <3>2, <3>3
  <2>3. CASE r.saved \in {Nobody, Torn}
    <3>1. PICK x : x = [step |-> "register", env |-> t, saved |-> r.saved, id |-> Nobody]
      OBVIOUS
    <3>2. t \in 1..made /\ t \in Nat
      BY <1>0, <1>4, <2>1, <2>3 DEF ensureRegistered, EnrolmentTyped
    <3>3. x \in HostRows /\ x.id = Nobody /\ x.saved = r.saved /\ x.step = "register" /\ x.env = t
      BY <3>1, <3>2 DEF HostRows, HostSteps, Ids
    <3>4. host' = [host EXCEPT ![h] = x] /\ host[h].step = "down"
          /\ UNCHANGED <<row, made, redeemed, attached, deleting>>
      BY <1>4, <2>1, <2>3, <3>1 DEF ensureRegistered
    <3> QED
      BY <1>3, <2>1, <3>2, <3>3, <3>4 DEF Identified
  <2> QED
    BY <2>2, <2>3
<1>5. ASSUME NEW h \in Hosts, LosesVolume(h) PROVE EnrolmentInv'
  <2>1. PICK r \in HostRows : r = host[h]
    BY <1>0 DEF EnrolmentTyped
  <2>2. PICK x : x = [r EXCEPT !.saved = Nobody]
    OBVIOUS
  <2>3. x \in HostRows /\ x.id = r.id /\ x.saved = Nobody /\ x.step = r.step
    BY <2>2 DEF HostRows, Ids
  <2>4. host' = [host EXCEPT ![h] = x] /\ host[h].step = "down"
        /\ UNCHANGED <<row, made, redeemed, attached, deleting>>
    BY <1>5, <2>1, <2>2 DEF LosesVolume
  <2> QED
    BY <1>3, <2>1, <2>3, <2>4 DEF Identified
<1>6. ASSUME NEW h \in Hosts, NEW s \in HostSteps, Goes(h, s)
      PROVE  \E x \in HostRows : /\ host' = [host EXCEPT ![h] = x] /\ x.id = host[h].id
                                 /\ x.saved = host[h].saved /\ x.env = host[h].env /\ x.step = s
  <2>1. PICK r \in HostRows : r = host[h]
    BY <1>0 DEF EnrolmentTyped
  <2>2. PICK x : x = [r EXCEPT !.step = s]
    OBVIOUS
  <2>3. x \in HostRows /\ x.id = r.id /\ x.saved = r.saved /\ x.env = r.env /\ x.step = s
    BY <2>2 DEF HostRows
  <2>4. host' = [host EXCEPT ![h] = x]
    BY <1>6, <2>1, <2>2 DEF Goes
  <2> QED
    BY <2>1, <2>3, <2>4
<1>7. ASSUME NEW h \in Hosts, RegisterRejected(h) PROVE EnrolmentInv'
  <2>1. PICK s \in HostSteps : s = "down"
    BY DEF HostSteps
  <2>2. PICK x \in HostRows : /\ host' = [host EXCEPT ![h] = x] /\ x.id = host[h].id
                              /\ x.saved = host[h].saved /\ x.step = s
    <3>1. Goes(h, s)
      BY <1>7, <2>1 DEF RegisterRejected
    <3> QED
      BY <1>6, <3>1
  <2>3. host[h].step # "up" /\ UNCHANGED <<row, made, redeemed, attached, deleting>>
    BY <1>7 DEF RegisterRejected
  <2> QED
    BY <1>3, <2>1, <2>2, <2>3 DEF Identified
<1>8. ASSUME NEW h \in Hosts, saveState(h) PROVE EnrolmentInv'
  <2>1. PICK r \in HostRows : r = host[h]
    BY <1>0 DEF EnrolmentTyped
  <2>2. r.step \in {"save", "saving"} /\ r.id \in Known /\ host[h].step # "up"
        /\ UNCHANGED <<row, made, redeemed, attached, deleting>>
    BY <1>0, <1>8, <2>1 DEF saveState, CredsKnown, Identified
  <2>3. CASE r.step = "save"
    <3>1. PICK x : x = [step |-> "saving", env |-> r.env, saved |-> Torn, id |-> r.id]
      OBVIOUS
    <3>2. x \in HostRows /\ x.id = r.id /\ x.saved = Torn /\ x.step = "saving"
      <4>1. r.env \in Nat /\ Torn \in Ids /\ r.id \in Ids /\ "saving" \in HostSteps
        BY DEF HostRows, HostSteps, Ids
      <4> QED
        BY <3>1, <4>1 DEF HostRows
    <3>3. PICK p : p = [r EXCEPT !.step = "saving"]
      OBVIOUS
    <3>4. p = [step |-> "saving", env |-> r.env, saved |-> r.saved, id |-> r.id]
      BY <3>3 DEF HostRows
    <3>5. [p EXCEPT !.saved = Torn] = x
      BY <3>1, <3>4
    <3>6. host' = [[host EXCEPT ![h] = [host[h] EXCEPT !.step = "saving"]]
                        EXCEPT ![h] = [@ EXCEPT !.saved = Torn]]
      BY <1>8, <2>1, <2>3 DEF saveState
    <3>7. host' = [host EXCEPT ![h] = x]
      BY <1>0, <2>1, <3>3, <3>5, <3>6 DEF EnrolmentTyped
    <3> QED
      BY <1>3, <2>1, <2>2, <3>2, <3>7
  <2>4. CASE r.step = "saving"
    <3>1. PICK x : x = [step |-> "dial", env |-> r.env, saved |-> r.id, id |-> r.id]
      OBVIOUS
    <3>2. x \in HostRows /\ x.id = r.id /\ x.saved = r.id /\ x.step = "dial"
      <4>1. r.env \in Nat /\ r.id \in Ids /\ "dial" \in HostSteps
        BY DEF HostRows, HostSteps, Ids
      <4> QED
        BY <3>1, <4>1 DEF HostRows
    <3>3. PICK p : p = [r EXCEPT !.step = "dial"]
      OBVIOUS
    <3>4. p = [step |-> "dial", env |-> r.env, saved |-> r.saved, id |-> r.id]
      BY <3>3 DEF HostRows
    <3>5. [p EXCEPT !.saved = r.id] = x
      BY <3>1, <3>4
    <3>6. host' = [[host EXCEPT ![h] = [host[h] EXCEPT !.step = "dial"]]
                        EXCEPT ![h] = [@ EXCEPT !.saved = r.id]]
      BY <1>8, <2>1, <2>4 DEF saveState
    <3>7. host' = [host EXCEPT ![h] = x]
      BY <1>0, <2>1, <3>3, <3>5, <3>6 DEF EnrolmentTyped
    <3> QED
      BY <1>3, <2>1, <2>2, <3>2, <3>7
  <2> QED
    BY <2>2, <2>3, <2>4
<1>9. ASSUME NEW h \in Hosts, authenticate(h) PROVE EnrolmentInv'
  <2>1. host[h].step = "dial" /\ UNCHANGED <<row, made, redeemed, attached, deleting>>
        /\ host[h].id \in Known
    BY <1>0, <1>9 DEF authenticate, CredsKnown, Identified
  <2>2. PICK s \in HostSteps :
           s = IF \E n \in Live : row[n].cred = host[h].id.cred THEN "hello" ELSE "down"
    BY DEF HostSteps
  <2>3. PICK x \in HostRows : /\ host' = [host EXCEPT ![h] = x] /\ x.id = host[h].id
                              /\ x.saved = host[h].saved /\ x.step = s
    <3>1. Goes(h, s)
      BY <1>9, <2>2 DEF authenticate
    <3> QED
      BY <1>6, <3>1
  <2>4. s = "hello" => host[h].id.node \in Live
    BY <1>0, <2>1, <2>2 DEF CredsKnown, Issued
  <2> QED
    BY <1>3, <2>1, <2>2, <2>3, <2>4
<1>10. ASSUME NEW h \in Hosts, NEW s \in {"dial", "down"}, Leaves(h, s) PROVE EnrolmentInv'
  <2>1. /\ s = "dial" => host[h].step \in {"hello", "up"}
        /\ attached' = [n \in Joining |-> IF attached[n] = h THEN "none" ELSE attached[n]]
        /\ UNCHANGED <<row, made, redeemed, deleting>>
    BY <1>10 DEF Leaves
  <2>2. PICK x \in HostRows : /\ host' = [host EXCEPT ![h] = x] /\ x.id = host[h].id
                              /\ x.saved = host[h].saved /\ x.step = s
    <3>1. Goes(h, s) /\ s \in HostSteps
      BY <1>10 DEF Leaves, HostSteps
    <3> QED
      BY <1>6, <3>1
  <2>3. /\ attached' \in [Joining -> Hosts \cup {"none"}]
        /\ \A n \in Joining : attached'[n] # h /\ attached'[n] \in {attached[n], "none"}
    BY <1>0, <2>1, EnrolmentAssumption DEF EnrolmentTyped
  <2>4. s = "dial" => host[h].id \in Known
    BY <1>0, <2>1 DEF CredsKnown, Identified
  <2> QED
    BY <2>1, <2>2, <2>3, <2>4, HostMoved DEF Identified
<1>11. CASE UNCHANGED nvars
  BY <1>0, <1>11 DEF nvars, EnrolmentInv, EnrolmentTyped, TokensFresh, JoinTokenOnce, CredsKnown,
                     Issued, SessionsUp, Live
<1> QED
  BY <1>1, <1>2, <1>4, <1>5, <1>7, <1>8, <1>9, <1>10, <1>11, NodeDeleted, SessionClosed,
     TokenRedeemed, StreamAttached DEF EnrolmentNext

\* Nothing is enrolled at the start.
LEMMA EnrolmentInvInit == EnrolmentInit => EnrolmentInv
<1> SUFFICES ASSUME EnrolmentInit PROVE EnrolmentInv
  OBVIOUS
<1>1. PICK x : x = [step |-> "down", env |-> 0, saved |-> Nobody, id |-> Nobody]
  OBVIOUS
<1>2. x \in HostRows /\ x.step = "down" /\ x.id = Nobody /\ x.saved = Nobody
  BY <1>1 DEF HostRows, HostSteps, Ids
<1>3. host \in [Hosts -> HostRows] /\ \A h \in Hosts : host[h] = x
  BY <1>1, <1>2 DEF EnrolmentInit
<1>4. redeemed = {} /\ IsFiniteSet(redeemed) /\ Cardinality(redeemed) = 0
  BY FS_EmptySet DEF EnrolmentInit
<1>5. Live = {}
  BY DEF EnrolmentInit, Live
<1>6. Nobody.cred = 0
  BY DEF Nobody
<1>7. EnrolmentTyped
  BY <1>3, <1>4 DEF EnrolmentInit, EnrolmentTyped
<1>8. TokensFresh
  BY <1>2, <1>3, <1>4, <1>5 DEF EnrolmentInit, TokensFresh, JoinTokenOnce
<1>9. CredsKnown
  BY <1>2, <1>3, <1>4, <1>5, <1>6 DEF CredsKnown, Issued, Identified
<1>10. SessionsUp
  BY <1>2, <1>3, EnrolmentAssumption DEF EnrolmentInit, SessionsUp
<1> QED
  BY <1>7, <1>8, <1>9, <1>10 DEF EnrolmentInv

\* A join token is redeemed once, whoever holds copies of it and whatever answers are lost;
\* and, when every stream says Hello before its deletion closes the session, no session of a
\* deleted node stays.  RedeemJoinToken (store.go), deleteNode (api.go) and Connect
\* (node/service.go), for every number of hosts, nodes and tokens.
THEOREM NodesEnrolOnce ==
    EnrolmentSpec => [](JoinTokenOnce /\ (PromptHello => SessionsHaveNodes))
<1>1. EnrolmentInv => JoinTokenOnce /\ (PromptHello => SessionsHaveNodes)
  BY DEF EnrolmentInv, TokensFresh, SessionsUp, SessionsHaveNodes
<1> QED
  BY EnrolmentInvInit, EnrolmentInvStep, <1>1, PTL DEF EnrolmentSpec

-----------------------------------------------------------------------------
(* AdminAuth.  Rows name accounts that exist, a request in flight carries     *)
(* what its write needs, a code that is left was never used, and a mailed     *)
(* code is the one of the login it is stored under.                           *)

AccountsTyped == admin \in [Admins -> AdminRows \cup {None}]

FactorOK(f) ==
    /\ f = [id |-> f.id, admin |-> f.admin, kind |-> f.kind, confirmed |-> f.confirmed]
    /\ f.admin \in Admins /\ f.kind \in Kinds

FactorsOwned == \A f \in factors : FactorOK(f) /\ GetAdmin(f.admin)

CodesUnused ==
    /\ recovery \in [Admins -> SUBSET RecoveryCodes]
    /\ spent \in [Admins -> [RecoveryCodes -> Nat]]
    /\ \A a \in Admins : ~ GetAdmin(a) => recovery[a] = {}
    /\ \A a \in Admins : \A t \in RecoveryCodes :
          spent[a][t] <= 1 /\ (t \in recovery[a] => spent[a][t] = 0)

ChallengeOK(v) ==
    v # NoChallenge =>
        /\ v = [purpose |-> v.purpose, admin |-> v.admin, data |-> v.data, attempts |-> v.attempts]
        /\ v.purpose \in Purposes /\ v.admin \in Admins /\ GetAdmin(v.admin)
        /\ v.attempts \in 0..(MaxChallengeAttempts - 1)

ChallengesOwned ==
    /\ challenge = [k \in Keys |-> challenge[k]]
    /\ \A k \in Keys : ChallengeOK(challenge[k])
    /\ \A t \in Tokens : challenge[EmailKey(t)].purpose = "email_code" =>
                            challenge[EmailKey(t)].data = t

Bought(a, how, proof) ==
    how # "password" => /\ proof.purpose = "login" /\ proof.admin = a
                        /\ how = "email-code" => proof.code = proof.login

SessionsOwned ==
    \A s \in session : s.admin \in Admins /\ GetAdmin(s.admin) /\ Bought(s.admin, s.how, s.proof)

RequestOK(q) ==
    q # Idle =>
        /\ q.admin \in Admins
        /\ q.op = "verify" => q.login \in Tokens /\ q.purpose = "login"
        /\ q.op = "totp" => FactorOK(q.factor) /\ q.factor.admin = q.admin
        /\ q.op = "password" => q.new \in Passwords
        /\ q.op = "update" => q.role \in Roles /\ q.disabled \in BOOLEAN

RequestsTyped == req = [r \in Requests |-> req[r]] /\ \A r \in Requests : RequestOK(req[r])

AdminInv ==
    /\ AccountsTyped /\ FactorsOwned /\ CodesUnused /\ ChallengesOwned /\ SessionsOwned
    /\ RequestsTyped /\ WayBackIn

\* No account goes.
Alive == \A a \in Admins : GetAdmin(a) => GetAdmin(a)'

\* At most one request moves, and none that is about to write recovery codes.
RequestMoves ==
    \/ req' = req
    \/ \E r \in Requests : \E q : req' = [req EXCEPT ![r] = q] /\ req[r].op # "codes" /\ RequestOK(q)

\* What is stored under a token, or under an admin's id, has a key.
LEMMA KeyForms ==
    /\ \A t \in Tokens : Plain(t) \in Keys /\ EmailKey(t) \in Keys /\ WebAuthnKey(t) \in Keys
    /\ \A a \in Admins : VerifyKey(a) \in Keys
    /\ \A t, u : EmailKey(t) # Plain(u) /\ EmailKey(t) # WebAuthnKey(u) /\ EmailKey(t) # VerifyKey(u)
    /\ \A t, u : EmailKey(t) = EmailKey(u) => t = u
<1>1. \A t, k : [of |-> t, kind |-> k].of = t /\ [of |-> t, kind |-> k].kind = k
  OBVIOUS
<1>2. /\ \A t \in Tokens : \A k \in {"plain", "email", "webauthn"} : [of |-> t, kind |-> k] \in Keys
      /\ \A a \in Admins : [of |-> a, kind |-> "verify"] \in Keys
  BY DEF Keys
<1> QED
  BY <1>1, <1>2 DEF Plain, EmailKey, WebAuthnKey, VerifyKey

\* The empty challenge has no purpose.
LEMMA NoChallengeForm ==
    /\ NoChallenge.purpose = "none" /\ NoChallenge.attempts = 0 /\ ChallengeOK(NoChallenge)
    /\ 0 \in 0..(MaxChallengeAttempts - 1)
  BY AdminAssumption DEF NoChallenge, ChallengeOK

\* Challenges that are deleted, expire or stay.
LEMMA ChallengesDropped ==
    ASSUME ChallengesOwned, Alive, NEW ks, challenge' = DeleteChallenge(ks) \/ challenge' = challenge
    PROVE  ChallengesOwned'
<1>1. /\ challenge' = [k \in Keys |-> challenge'[k]]
      /\ \A k \in Keys : challenge'[k] \in {NoChallenge, challenge[k]}
  BY DEF DeleteChallenge, ChallengesOwned
<1>2. \A k \in Keys : ChallengeOK(challenge[k])'
  <2>1. \A v : ChallengeOK(v) => ChallengeOK(v)'
    BY DEF ChallengeOK, Alive
  <2> SUFFICES ASSUME NEW k \in Keys PROVE ChallengeOK(challenge[k])'
    OBVIOUS
  <2>2. PICK v : v = challenge'[k]
    OBVIOUS
  <2>3. ChallengeOK(v)
    BY <1>1, <2>2, NoChallengeForm DEF ChallengesOwned
  <2> QED
    BY <2>1, <2>2, <2>3 DEF ChallengeOK
<1>3. \A t \in Tokens : challenge'[EmailKey(t)].purpose = "email_code" =>
                            challenge'[EmailKey(t)].data = t
  BY <1>1, KeyForms, NoChallengeForm DEF ChallengesOwned
<1> QED
  BY <1>1, <1>2, <1>3 DEF ChallengesOwned

\* A new challenge for an account that exists.
LEMMA ChallengeCreated ==
    ASSUME ChallengesOwned, UNCHANGED admin, NEW k, NEW a \in Admins, GetAdmin(a),
           NEW purpose \in Purposes, NEW data,
           \A t \in Tokens : k = EmailKey(t) => purpose = "email_code" /\ data = t,
           challenge' = CreateChallenge(k, a, purpose, data)
    PROVE  ChallengesOwned'
<1>1. PICK v : v = [purpose |-> purpose, admin |-> a, data |-> data, attempts |-> 0]
  OBVIOUS
<1>2. ChallengeOK(v) /\ v.data = data
  BY <1>1, NoChallengeForm DEF ChallengeOK
<1>3. challenge' = [challenge EXCEPT ![k] = v]
  BY <1>1 DEF CreateChallenge
<1>4. /\ challenge' = [x \in Keys |-> challenge'[x]]
      /\ \A x \in Keys : challenge'[x] = IF x = k THEN v ELSE challenge[x]
  BY <1>3 DEF ChallengesOwned
<1>5. \A x \in Keys : ChallengeOK(challenge'[x])
  BY <1>2, <1>4 DEF ChallengesOwned
<1>6. \A t \in Tokens : challenge'[EmailKey(t)].purpose = "email_code" =>
                            challenge'[EmailKey(t)].data = t
  BY <1>2, <1>4, KeyForms DEF ChallengesOwned
<1> QED
  BY <1>4, <1>5, <1>6 DEF ChallengesOwned, ChallengeOK, GetAdmin

\* A wrong answer: the challenge counts it, or burns.
LEMMA ChallengeFailed ==
    ASSUME ChallengesOwned, UNCHANGED admin, NEW k \in Keys, NEW also, FailChallenge(k, also)
    PROVE  ChallengesOwned'
<1>1. PICK old : old = challenge[k]
  OBVIOUS
<1>2. PICK v : v = IF old = NoChallenge \/ old.attempts + 1 >= MaxChallengeAttempts
                   THEN NoChallenge ELSE [old EXCEPT !.attempts = old.attempts + 1]
  OBVIOUS
<1>3. challenge' = [DeleteChallenge(also) EXCEPT ![k] = v]
  BY <1>1, <1>2 DEF FailChallenge
<1>4. ChallengeOK(v) /\ (v.purpose = "email_code" => old.purpose = "email_code" /\ v.data = old.data)
  <2>1. CASE v = NoChallenge
    BY <2>1, NoChallengeForm
  <2>2. CASE v # NoChallenge
    <3>1. ChallengeOK(old) /\ old # NoChallenge /\ ~ (old.attempts + 1 >= MaxChallengeAttempts)
          /\ v = [old EXCEPT !.attempts = old.attempts + 1]
      BY <1>1, <1>2, <2>2 DEF ChallengesOwned
    <3>2. PICK p, a, d, n : old = [purpose |-> p, admin |-> a, data |-> d, attempts |-> n]
      BY <3>1 DEF ChallengeOK
    <3>3. v = [purpose |-> p, admin |-> a, data |-> d, attempts |-> n + 1]
      BY <3>1, <3>2
    <3>4. /\ p \in Purposes /\ a \in Admins /\ GetAdmin(a) /\ n \in 0..(MaxChallengeAttempts - 1)
          /\ n + 1 \in 0..(MaxChallengeAttempts - 1)
      BY <3>1, <3>2, AdminAssumption DEF ChallengeOK
    <3> QED
      BY <3>2, <3>3, <3>4 DEF ChallengeOK
  <2> QED
    BY <2>1, <2>2
<1>5. /\ challenge' = [x \in Keys |-> challenge'[x]]
      /\ \A x \in Keys : (challenge'[x] = v /\ x = k) \/ challenge'[x] \in {NoChallenge, challenge[x]}
  BY <1>3 DEF DeleteChallenge
<1>6. \A x \in Keys : ChallengeOK(challenge'[x])
  BY <1>4, <1>5, NoChallengeForm DEF ChallengesOwned
<1>7. \A t \in Tokens : challenge'[EmailKey(t)].purpose = "email_code" =>
                            challenge'[EmailKey(t)].data = t
  BY <1>1, <1>4, <1>5, KeyForms, NoChallengeForm DEF ChallengesOwned
<1> QED
  BY <1>5, <1>6, <1>7 DEF ChallengesOwned, ChallengeOK, GetAdmin

\* A session that was paid for.
LEMMA SessionIssued ==
    ASSUME SessionsOwned, UNCHANGED admin, NEW a \in Admins, NEW how, NEW proof,
           Bought(a, how, proof), IssueSession(a, how, proof)
    PROVE  SessionsOwned'
<1>1. CASE UNCHANGED session
  BY <1>1 DEF SessionsOwned, GetAdmin
<1>2. CASE GetAdmin(a) /\ session' = session \cup {[id |-> Least(FreshSessions), admin |-> a,
                                                    how |-> how, proof |-> proof]}
  <2>1. PICK s : s = [id |-> Least(FreshSessions), admin |-> a, how |-> how, proof |-> proof]
    OBVIOUS
  <2>2. s.admin = a /\ s.how = how /\ s.proof = proof
    BY <2>1
  <2>3. session' = session \cup {s}
    BY <1>2, <2>1
  <2> QED
    BY <1>2, <2>2, <2>3 DEF SessionsOwned, GetAdmin
<1> QED
  BY <1>1, <1>2 DEF IssueSession

\* Requests that begin, move on or end.
LEMMA RequestsMoved ==
    ASSUME RequestsTyped, RequestMoves
    PROVE  /\ RequestsTyped'
           /\ \A r \in Requests : req[r].op = "codes" => req'[r] = req[r]
<1>1. CASE req' = req
  BY <1>1 DEF RequestsTyped
<1>2. ASSUME NEW r \in Requests, NEW q, req' = [req EXCEPT ![r] = q], req[r].op # "codes", RequestOK(q)
      PROVE  /\ RequestsTyped'
             /\ \A x \in Requests : req[x].op = "codes" => req'[x] = req[x]
  <2>1. /\ req' = [x \in Requests |-> req'[x]]
        /\ \A x \in Requests : req'[x] = IF x = r THEN q ELSE req[x]
    BY <1>2 DEF RequestsTyped
  <2>2. \A x \in Requests : RequestOK(req'[x])
    BY <1>2, <2>1 DEF RequestsTyped
  <2> QED
    BY <1>2, <2>1, <2>2 DEF RequestsTyped
<1> QED
  BY <1>1, <1>2 DEF RequestMoves

\* Steps that add no factor and touch no recovery code.
LEMMA AdminQuiet ==
    ASSUME AdminInv, AccountsTyped', Alive, factors' \subseteq factors, UNCHANGED <<recovery, spent>>,
           ChallengesOwned', SessionsOwned', RequestMoves
    PROVE  AdminInv'
<1>1. FactorsOwned'
  BY DEF AdminInv, FactorsOwned, FactorOK, Alive
<1>2. CodesUnused'
  BY DEF AdminInv, CodesUnused, Alive
<1>3. RequestsTyped' /\ \A r \in Requests : req[r].op = "codes" => req'[r] = req[r]
  BY RequestsMoved DEF AdminInv
<1>4. WayBackIn'
  BY <1>3 DEF AdminInv, WayBackIn, ConfirmedMFACredentials
<1> QED
  BY <1>1, <1>2, <1>3, <1>4 DEF AdminInv

\* The same, for the steps that leave the accounts alone.
LEMMA AdminUntouched ==
    ASSUME AdminInv, UNCHANGED <<admin, factors, recovery, spent>>, ChallengesOwned', SessionsOwned',
           RequestMoves
    PROVE  AdminInv'
<1>1. AccountsTyped' /\ Alive
  BY DEF AdminInv, AccountsTyped, Alive, GetAdmin
<1> QED
  BY <1>1, AdminQuiet

\* Sessions that end or stay.
LEMMA SessionsKept ==
    ASSUME SessionsOwned, Alive, session' \subseteq session PROVE SessionsOwned'
  BY DEF SessionsOwned, Alive, Bought

\* A handler answers.
LEMMA RequestEnded ==
    ASSUME NEW r \in Requests, End(r), req[r].op # "codes" PROVE RequestMoves
<1>1. RequestOK(Idle)
  BY DEF RequestOK
<1>2. req' = [req EXCEPT ![r] = Idle]
  BY DEF End
<1> QED
  BY <1>1, <1>2, Zenon DEF RequestMoves

\* A handler has read what it needs, and its write is to come.
LEMMA RequestBegun ==
    ASSUME NEW r \in Requests, NEW q, Begin(r, q), RequestOK(q), Free(r) \/ req[r].op # "codes"
    PROVE  RequestMoves
<1>1. req[r].op # "codes"
  BY DEF Free, Idle
<1>2. req' = [req EXCEPT ![r] = q]
  BY DEF Begin
<1> QED
  BY <1>1, <1>2, Zenon DEF RequestMoves

\* Signing in with a password, signing out, and what expires.
LEMMA PasswordKeeps == ASSUME AdminInv, PasswordStep PROVE AdminInv'
<1> USE DEF AdminInv
<1>1. ASSUME NEW r \in Requests, FinishLogin(r) PROVE AdminInv'
  <2>1. /\ req[r].op = "login" /\ End(r) /\ IssueSession(req[r].admin, "password", NoProof)
        /\ UNCHANGED <<admin, factors, recovery, challenge, spent>>
    BY <1>1 DEF FinishLogin
  <2>2. req[r].admin \in Admins
    BY <2>1 DEF RequestsTyped, RequestOK, Idle
  <2>3. Bought(req[r].admin, "password", NoProof)
    BY DEF Bought
  <2>4. SessionsOwned'
    BY <2>1, <2>2, <2>3, SessionIssued
  <2>5. ChallengesOwned'
    BY <2>1, ChallengesDropped DEF Alive, GetAdmin
  <2> QED
    BY <2>1, <2>4, <2>5, RequestEnded, AdminUntouched
<1>2. ASSUME NEW r \in Requests, NEW a \in Admins, NEW p \in Passwords, Login(r, a, p) PROVE AdminInv'
  <2>1. PICK q : q = [op |-> "login", admin |-> a, mfa |-> ConfirmedMFACredentials(a) # {}]
    OBVIOUS
  <2>2. q.op = "login" /\ q.admin = a
    BY <2>1
  <2>3. RequestOK(q)
    BY <2>2 DEF RequestOK
  <2>4. Free(r) /\ Begin(r, q) /\ UNCHANGED <<admin, factors, recovery, challenge, session, spent>>
    BY <1>2, <2>1 DEF Login
  <2>5. ChallengesOwned' /\ SessionsOwned'
    BY <2>4, ChallengesDropped, SessionsKept DEF Alive, GetAdmin
  <2> QED
    BY <2>3, <2>4, <2>5, RequestBegun, AdminUntouched
<1>3. ASSUME NEW s \in session, Logout(s) \/ ExpireSession(s) PROVE AdminInv'
  <2>1. session' \subseteq session /\ UNCHANGED <<admin, factors, recovery, challenge, req, spent>>
    BY <1>3 DEF Logout, ExpireSession
  <2>2. ChallengesOwned' /\ SessionsOwned'
    BY <2>1, ChallengesDropped, SessionsKept DEF Alive, GetAdmin
  <2> QED
    BY <2>1, <2>2, AdminUntouched DEF RequestMoves
<1>4. ASSUME NEW k \in Keys, ExpireChallenge(k) PROVE AdminInv'
  <2>1. /\ challenge' = DeleteChallenge({k})
        /\ UNCHANGED <<admin, factors, recovery, session, req, spent>>
    BY <1>4 DEF ExpireChallenge
  <2>2. ChallengesOwned' /\ SessionsOwned'
    BY <2>1, ChallengesDropped, SessionsKept DEF Alive, GetAdmin
  <2> QED
    BY <2>1, <2>2, AdminUntouched DEF RequestMoves
<1> QED
  BY <1>1, <1>2, <1>3, <1>4 DEF PasswordStep

\* What a login challenge that is accepted gives.
LEMMA SpentForms ==
    ASSUME AdminInv, NEW t \in Tokens, SpendChallenge(t)
    PROVE  /\ challenge[Plain(t)].purpose = "login" /\ challenge[Plain(t)].admin \in Admins
           /\ GetAdmin(challenge[Plain(t)].admin)
<1>1. challenge[Plain(t)].purpose = "login"
  BY DEF SpendChallenge, GetChallenge
<1>2. challenge[Plain(t)] # NoChallenge
  BY <1>1, NoChallengeForm
<1> QED
  BY <1>1, <1>2, KeyForms DEF AdminInv, ChallengesOwned, ChallengeOK

\* What a request that was let past its login challenge carries.
LEMMA VerifyForms ==
    ASSUME AdminInv, NEW r \in Requests, req[r].op = "verify"
    PROVE  /\ req[r].admin \in Admins /\ req[r].login \in Tokens /\ req[r].purpose = "login"
           /\ \A how, code : (how = "email-code" => code = req[r].login)
                                 => Bought(req[r].admin, how, Proof(req[r], code))
<1>1. req[r].admin \in Admins /\ req[r].login \in Tokens /\ req[r].purpose = "login"
  <2>1. req[r] # Idle
    BY DEF Idle
  <2> QED
    BY <2>1 DEF AdminInv, RequestsTyped, RequestOK
<1>2. PICK c : c = req[r]
  OBVIOUS
<1>3. \A code : /\ Proof(c, code).admin = c.admin /\ Proof(c, code).purpose = c.purpose
                /\ Proof(c, code).login = c.login /\ Proof(c, code).code = code
  BY DEF Proof
<1> QED
  BY <1>1, <1>2, <1>3 DEF Bought

\* A recovery code is used: it is gone from the set, and counted once.
LEMMA CodeUsed ==
    ASSUME AdminInv, NEW a \in Admins, NEW code \in recovery[a], UNCHANGED <<admin, factors>>,
           recovery' = UseRecoveryCode(a, code), spent' = [spent EXCEPT ![a][code] = @ + 1],
           ChallengesOwned', SessionsOwned', RequestMoves
    PROVE  AdminInv'
<1> USE DEF AdminInv
<1>1. code \in RecoveryCodes /\ spent[a][code] = 0 /\ spent[a] \in [RecoveryCodes -> Nat]
  BY DEF CodesUnused
<1>2. /\ recovery' \in [Admins -> SUBSET RecoveryCodes] /\ recovery'[a] = recovery[a] \ {code}
      /\ \A b \in Admins : b # a => recovery'[b] = recovery[b]
  BY DEF CodesUnused, UseRecoveryCode
<1>3. /\ spent' \in [Admins -> [RecoveryCodes -> Nat]] /\ spent'[a][code] = 1
      /\ \A t \in RecoveryCodes : t # code => spent'[a][t] = spent[a][t]
      /\ \A b \in Admins : b # a => spent'[b] = spent[b]
  <2>1. PICK f : f = [spent[a] EXCEPT ![code] = spent[a][code] + 1]
    OBVIOUS
  <2>2. f \in [RecoveryCodes -> Nat] /\ f[code] = 1 /\ \A t \in RecoveryCodes : t # code => f[t] = spent[a][t]
    BY <1>1, <2>1
  <2>3. spent' = [spent EXCEPT ![a] = f]
    BY <2>1
  <2> QED
    BY <2>2, <2>3 DEF CodesUnused
<1>4. CodesUnused'
  BY <1>1, <1>2, <1>3 DEF CodesUnused, GetAdmin
<1>5. RequestsTyped' /\ \A r \in Requests : req[r].op = "codes" => req'[r] = req[r]
  BY RequestsMoved
<1>6. WayBackIn'
  BY <1>1, <1>2, <1>3, <1>5 DEF WayBackIn, ConfirmedMFACredentials
<1>7. AccountsTyped' /\ FactorsOwned'
  BY DEF AccountsTyped, FactorsOwned, FactorOK, GetAdmin
<1> QED
  BY <1>4, <1>5, <1>6, <1>7

\* Signing in with a second factor.
LEMMA FactorKeeps == ASSUME AdminInv, FactorStep PROVE AdminInv'
<1>0. /\ AccountsTyped /\ FactorsOwned /\ CodesUnused /\ ChallengesOwned /\ SessionsOwned
      /\ RequestsTyped /\ WayBackIn
  BY DEF AdminInv
<1>1. ASSUME NEW r \in Requests, StartMFA(r) PROVE AdminInv'
  <2>1. /\ req[r].op = "login" /\ End(r)
        /\ UNCHANGED <<admin, factors, recovery, session, spent>>
    BY <1>1 DEF StartMFA
  <2>2. req[r].admin \in Admins
    BY <1>0, <2>1 DEF RequestsTyped, RequestOK, Idle
  <2>3. ChallengesOwned'
    <3>1. CASE UNCHANGED challenge
      BY <1>0, <2>1, <3>1, ChallengesDropped DEF Alive, GetAdmin
    <3>2. CASE /\ GetAdmin(req[r].admin)
               /\ challenge' = CreateChallenge(Plain(Least(FreshTokens)), req[r].admin, "login", 0)
      <4>1. "login" \in Purposes
        BY DEF Purposes
      <4>2. \A t \in Tokens : Plain(Least(FreshTokens)) # EmailKey(t)
        BY KeyForms
      <4> QED
        BY <1>0, <2>1, <2>2, <3>2, <4>1, <4>2, ChallengeCreated
    <3> QED
      BY <1>1, <3>1, <3>2 DEF StartMFA
  <2>4. SessionsOwned'
    BY <1>0, <2>1, SessionsKept DEF Alive, GetAdmin
  <2> QED
    BY <2>1, <2>3, <2>4, RequestEnded, AdminUntouched
<1>2. ASSUME NEW r \in Requests, NEW t \in Tokens, VerifyMFA(r, t) PROVE AdminInv'
  <2>1. PICK q : q = [op |-> "verify", admin |-> challenge[Plain(t)].admin, login |-> t,
                      purpose |-> challenge[Plain(t)].purpose]
    OBVIOUS
  <2>2. /\ q.op = "verify" /\ q.admin = challenge[Plain(t)].admin /\ q.login = t
        /\ q.purpose = challenge[Plain(t)].purpose
    BY <2>1
  <2>3. /\ Free(r) /\ SpendChallenge(t) /\ Begin(r, q)
        /\ UNCHANGED <<admin, factors, recovery, challenge, session, spent>>
    BY <1>2, <2>1 DEF VerifyMFA
  <2>4. RequestOK(q)
    BY <2>2, <2>3, SpentForms DEF RequestOK
  <2>5. ChallengesOwned' /\ SessionsOwned'
    BY <1>0, <2>3, ChallengesDropped, SessionsKept DEF Alive, GetAdmin
  <2> QED
    BY <2>3, <2>4, <2>5, RequestBegun, AdminUntouched
<1>3. ASSUME NEW r \in Requests, NEW code, VerifyRecoveryCode(r, code) PROVE AdminInv'
  <2>1. req[r].op = "verify" /\ End(r) /\ UNCHANGED <<admin, factors>>
    BY <1>3 DEF VerifyRecoveryCode
  <2>2. RequestMoves
    BY <2>1, RequestEnded
  <2>3. CASE /\ code \in recovery[req[r].admin]
             /\ recovery' = UseRecoveryCode(req[r].admin, code)
             /\ challenge' = DeleteChallenge({Plain(req[r].login)})
             /\ IssueSession(req[r].admin, "recovery-code", Proof(req[r], 0))
             /\ spent' = [spent EXCEPT ![req[r].admin][code] = @ + 1]
    <3>1. ChallengesOwned'
      BY <1>0, <2>1, <2>3, ChallengesDropped DEF Alive, GetAdmin
    <3>2. req[r].admin \in Admins /\ Bought(req[r].admin, "recovery-code", Proof(req[r], 0))
      BY <2>1, VerifyForms
    <3>3. SessionsOwned'
      BY <1>0, <2>1, <2>3, <3>2, SessionIssued
    <3> QED
      BY <2>1, <2>2, <2>3, <3>1, <3>2, <3>3, CodeUsed
  <2>4. CASE FailChallenge(Plain(req[r].login), {}) /\ UNCHANGED <<recovery, session, spent>>
    <3>1. Plain(req[r].login) \in Keys
      BY <2>1, VerifyForms, KeyForms
    <3>2. ChallengesOwned'
      BY <1>0, <2>1, <2>4, <3>1, ChallengeFailed
    <3>3. SessionsOwned'
      BY <1>0, <2>1, <2>4, SessionsKept DEF Alive, GetAdmin
    <3> QED
      BY <2>1, <2>2, <2>4, <3>2, <3>3, AdminUntouched
  <2> QED
    BY <1>3, <2>3, <2>4 DEF VerifyRecoveryCode
<1>4. ASSUME NEW r \in Requests, NEW code, VerifyTOTPCode(r, code) PROVE AdminInv'
  <2>1. req[r].op = "verify" /\ End(r) /\ UNCHANGED <<admin, factors, recovery, spent>>
    BY <1>4 DEF VerifyTOTPCode
  <2>2. RequestMoves
    BY <2>1, RequestEnded
  <2>3. CASE /\ challenge' = DeleteChallenge({Plain(req[r].login)})
             /\ IssueSession(req[r].admin, "totp", Proof(req[r], 0))
    <3>1. ChallengesOwned'
      BY <1>0, <2>1, <2>3, ChallengesDropped DEF Alive, GetAdmin
    <3>2. req[r].admin \in Admins /\ Bought(req[r].admin, "totp", Proof(req[r], 0))
      BY <2>1, VerifyForms
    <3>3. SessionsOwned'
      BY <1>0, <2>1, <2>3, <3>2, SessionIssued
    <3> QED
      BY <2>1, <2>2, <3>1, <3>3, AdminUntouched
  <2>4. CASE FailChallenge(Plain(req[r].login), {}) /\ UNCHANGED session
    <3>1. Plain(req[r].login) \in Keys
      BY <2>1, VerifyForms, KeyForms
    <3>2. ChallengesOwned'
      BY <1>0, <2>1, <2>4, <3>1, ChallengeFailed
    <3>3. SessionsOwned'
      BY <1>0, <2>1, <2>4, SessionsKept DEF Alive, GetAdmin
    <3> QED
      BY <2>1, <2>2, <3>2, <3>3, AdminUntouched
  <2> QED
    BY <1>4, <2>3, <2>4 DEF VerifyTOTPCode
<1>5. ASSUME NEW r \in Requests, NEW code, VerifyEmailCode(r, code) PROVE AdminInv'
  <2>1. req[r].op = "verify" /\ End(r) /\ UNCHANGED <<admin, factors, recovery, spent>>
    BY <1>5 DEF VerifyEmailCode
  <2>2. RequestMoves
    BY <2>1, RequestEnded
  <2>3. req[r].login \in Tokens /\ EmailKey(req[r].login) \in Keys
    BY <2>1, VerifyForms, KeyForms
  <2>4. CASE UNCHANGED <<challenge, session>>
    <3>1. ChallengesOwned' /\ SessionsOwned'
      BY <1>0, <2>1, <2>4, ChallengesDropped, SessionsKept DEF Alive, GetAdmin
    <3> QED
      BY <2>1, <2>2, <3>1, AdminUntouched
  <2>5. CASE FailChallenge(EmailKey(req[r].login), {}) /\ UNCHANGED session
    <3>1. ChallengesOwned'
      BY <1>0, <2>1, <2>3, <2>5, ChallengeFailed
    <3>2. SessionsOwned'
      BY <1>0, <2>1, <2>5, SessionsKept DEF Alive, GetAdmin
    <3> QED
      BY <2>1, <2>2, <3>1, <3>2, AdminUntouched
  <2>6. CASE /\ GetChallenge(EmailKey(req[r].login), "email_code")
             /\ challenge[EmailKey(req[r].login)].data = code
             /\ challenge' = DeleteChallenge({EmailKey(req[r].login), Plain(req[r].login)})
             /\ IssueSession(req[r].admin, "email-code", Proof(req[r], code))
    <3>1. ChallengesOwned'
      BY <1>0, <2>1, <2>6, ChallengesDropped DEF Alive, GetAdmin
    <3>2. code = req[r].login
      BY <1>0, <2>3, <2>6 DEF ChallengesOwned, GetChallenge
    <3>3. req[r].admin \in Admins /\ Bought(req[r].admin, "email-code", Proof(req[r], code))
      BY <2>1, <3>2, VerifyForms
    <3>4. SessionsOwned'
      BY <1>0, <2>1, <2>6, <3>3, SessionIssued
    <3> QED
      BY <2>1, <2>2, <3>1, <3>4, AdminUntouched
  <2> QED
    BY <1>5, <2>4, <2>5, <2>6 DEF VerifyEmailCode
<1>6. ASSUME NEW t \in Tokens, DropChallenge(t) PROVE AdminInv'
  <2>1. /\ challenge' = DeleteChallenge({Plain(t)})
        /\ UNCHANGED <<admin, factors, recovery, session, req, spent>>
    BY <1>6 DEF DropChallenge
  <2>2. ChallengesOwned' /\ SessionsOwned'
    BY <1>0, <2>1, ChallengesDropped, SessionsKept DEF Alive, GetAdmin
  <2> QED
    BY <2>1, <2>2, AdminUntouched DEF RequestMoves
<1>7. ASSUME NEW t \in Tokens, SendEmailCode(t) PROVE AdminInv'
  <2>1. /\ SpendChallenge(t)
        /\ challenge' = CreateChallenge(EmailKey(t), challenge[Plain(t)].admin, "email_code", t)
        /\ UNCHANGED <<admin, factors, recovery, session, req, spent>>
    BY <1>7 DEF SendEmailCode
  <2>2. /\ challenge[Plain(t)].admin \in Admins /\ GetAdmin(challenge[Plain(t)].admin)
        /\ "email_code" \in Purposes
    BY <2>1, SpentForms DEF Purposes
  <2>3. \A u \in Tokens : EmailKey(t) = EmailKey(u) => "email_code" = "email_code" /\ t = u
    BY KeyForms
  <2>4. ChallengesOwned'
    BY <1>0, <2>1, <2>2, <2>3, ChallengeCreated
  <2>5. SessionsOwned'
    BY <1>0, <2>1, SessionsKept DEF Alive, GetAdmin
  <2> QED
    BY <2>1, <2>4, <2>5, AdminUntouched DEF RequestMoves
<1>8. ASSUME NEW t \in Tokens, BeginPasskeyLogin(t) PROVE AdminInv'
  <2>1. /\ SpendChallenge(t)
        /\ challenge' = CreateChallenge(WebAuthnKey(t), challenge[Plain(t)].admin, "webauthn_login", t)
        /\ UNCHANGED <<admin, factors, recovery, session, req, spent>>
    BY <1>8 DEF BeginPasskeyLogin
  <2>2. /\ challenge[Plain(t)].admin \in Admins /\ GetAdmin(challenge[Plain(t)].admin)
        /\ "webauthn_login" \in Purposes
    BY <2>1, SpentForms DEF Purposes
  <2>3. \A u \in Tokens : WebAuthnKey(t) # EmailKey(u)
    BY KeyForms
  <2>4. ChallengesOwned'
    BY <1>0, <2>1, <2>2, <2>3, ChallengeCreated
  <2>5. SessionsOwned'
    BY <1>0, <2>1, SessionsKept DEF Alive, GetAdmin
  <2> QED
    BY <2>1, <2>4, <2>5, AdminUntouched DEF RequestMoves
<1>9. ASSUME NEW t \in Tokens, NEW response, FinishPasskeyLogin(t, response) PROVE AdminInv'
  <2>1. SpendChallenge(t) /\ UNCHANGED <<admin, factors, recovery, req, spent>>
    BY <1>9 DEF FinishPasskeyLogin
  <2>2. PICK a : a = challenge[Plain(t)].admin
    OBVIOUS
  <2>3. a \in Admins /\ challenge[Plain(t)].purpose = "login"
    BY <2>1, <2>2, SpentForms
  <2>4. PICK proof : proof = [admin |-> a, purpose |-> challenge[Plain(t)].purpose, login |-> t, code |-> 0]
    OBVIOUS
  <2>5. Bought(a, "passkey", proof)
    BY <2>3, <2>4 DEF Bought
  <2>6. CASE challenge' = DeleteChallenge({WebAuthnKey(t), Plain(t)}) /\ IssueSession(a, "passkey", proof)
    <3>1. ChallengesOwned'
      BY <1>0, <2>1, <2>6, ChallengesDropped DEF Alive, GetAdmin
    <3>2. SessionsOwned'
      BY <1>0, <2>1, <2>3, <2>5, <2>6, SessionIssued
    <3> QED
      BY <2>1, <3>1, <3>2, AdminUntouched DEF RequestMoves
  <2>7. CASE FailChallenge(Plain(t), {WebAuthnKey(t)}) /\ UNCHANGED session
    <3>1. ChallengesOwned'
      BY <1>0, <2>1, <2>7, KeyForms, ChallengeFailed
    <3>2. SessionsOwned'
      BY <1>0, <2>1, <2>7, SessionsKept DEF Alive, GetAdmin
    <3> QED
      BY <2>1, <3>1, <3>2, AdminUntouched DEF RequestMoves
  <2> QED
    BY <1>9, <2>2, <2>4, <2>6, <2>7 DEF FinishPasskeyLogin
<1> QED
  BY <1>1, <1>2, <1>3, <1>4, <1>5, <1>6, <1>7, <1>8, <1>9 DEF FactorStep

\* A row of admins rewritten in one or two columns.
LEMMA AdminRowForms ==
    ASSUME NEW v \in AdminRows
    PROVE  /\ v # None
           /\ \A p \in Passwords : [v EXCEPT !.pw = p] \in AdminRows
           /\ \A b \in BOOLEAN : [v EXCEPT !.verified = b] \in AdminRows
           /\ \A e \in Emails \cup {None} : [v EXCEPT !.email = e] \in AdminRows
           /\ \A role \in Roles : [v EXCEPT !.role = role] \in AdminRows
           /\ \A d \in BOOLEAN : [v EXCEPT !.disabled = d] \in AdminRows
           /\ v.role \in Roles /\ v.pw \in Passwords
  BY AdminAssumption DEF AdminRows

\* A row of admins written.
LEMMA AccountWritten ==
    ASSUME AccountsTyped, NEW a \in Admins, NEW v \in AdminRows, admin' = [admin EXCEPT ![a] = v]
    PROVE  AccountsTyped' /\ Alive
<1>1. v # None
  BY AdminRowForms
<1> QED
  BY <1>1 DEF AccountsTyped, Alive, GetAdmin

\* A deletion takes every row of the account along.
LEMMA AdminDeleted ==
    ASSUME AdminInv, NEW r \in Requests, DeleteAdminRow(r) PROVE AdminInv'
<1> USE DEF AdminInv
<1>1. PICK a : a = req[r].admin
  OBVIOUS
<1>2. /\ req[r].op = "delete" /\ End(r)
      /\ admin' = [admin EXCEPT ![a] = None] /\ factors' = {f \in factors : f.admin # a}
      /\ recovery' = [recovery EXCEPT ![a] = {}]
      /\ challenge' = DeleteChallenge({k \in Keys : challenge[k].admin = a})
      /\ session' = {s \in session : s.admin # a}
      /\ spent' = [spent EXCEPT ![a] = [t \in RecoveryCodes |-> 0]]
  BY <1>1 DEF DeleteAdminRow
<1>3. a \in Admins
  BY <1>1, <1>2 DEF RequestsTyped, RequestOK, Idle
<1>4. /\ AccountsTyped' /\ \A b \in Admins : b # a /\ GetAdmin(b) => GetAdmin(b)'
  BY <1>2, <1>3 DEF AccountsTyped, GetAdmin
<1>5. FactorsOwned'
  BY <1>2, <1>4 DEF FactorsOwned, FactorOK
<1>6. CodesUnused'
  <2>1. /\ recovery' \in [Admins -> SUBSET RecoveryCodes] /\ recovery'[a] = {}
        /\ \A b \in Admins : b # a => recovery'[b] = recovery[b]
    BY <1>2, <1>3 DEF CodesUnused
  <2>2. /\ spent' \in [Admins -> [RecoveryCodes -> Nat]]
        /\ \A t \in RecoveryCodes : spent'[a][t] = 0
        /\ \A b \in Admins : b # a => spent'[b] = spent[b]
    BY <1>2, <1>3 DEF CodesUnused
  <2> QED
    BY <1>4, <2>1, <2>2 DEF CodesUnused
<1>7. ChallengesOwned'
  <2>1. /\ challenge' = [k \in Keys |-> challenge'[k]]
        /\ \A k \in Keys : challenge'[k] = NoChallenge
                             \/ (challenge'[k] = challenge[k] /\ challenge[k].admin # a)
    BY <1>2 DEF DeleteChallenge, ChallengesOwned
  <2>2. \A k \in Keys : ChallengeOK(challenge[k])'
    <3> SUFFICES ASSUME NEW k \in Keys PROVE ChallengeOK(challenge[k])'
      OBVIOUS
    <3>1. CASE challenge'[k] = NoChallenge
      BY <3>1 DEF ChallengeOK
    <3>2. CASE challenge'[k] = challenge[k] /\ challenge[k].admin # a
      BY <1>4, <3>2 DEF ChallengesOwned, ChallengeOK
    <3> QED
      BY <2>1, <3>1, <3>2
  <2>3. \A t \in Tokens : challenge'[EmailKey(t)].purpose = "email_code" =>
                              challenge'[EmailKey(t)].data = t
    BY <2>1, KeyForms, NoChallengeForm DEF ChallengesOwned
  <2> QED
    BY <2>1, <2>2, <2>3 DEF ChallengesOwned
<1>8. SessionsOwned'
  BY <1>2, <1>4 DEF SessionsOwned, Bought
<1>9. RequestsTyped' /\ \A q \in Requests : req[q].op = "codes" => req'[q] = req[q]
  BY <1>2, RequestEnded, RequestsMoved
<1>10. WayBackIn'
  <2>1. ConfirmedMFACredentials(a)' = {}
    BY <1>2 DEF ConfirmedMFACredentials
  <2>2. \A b \in Admins : b # a => /\ ConfirmedMFACredentials(b)' = ConfirmedMFACredentials(b)
                                   /\ recovery'[b] = recovery[b] /\ spent'[b] = spent[b]
    BY <1>2, <1>3 DEF ConfirmedMFACredentials, CodesUnused
  <2> QED
    BY <1>9, <2>1, <2>2 DEF WayBackIn
<1> QED
  BY <1>4, <1>5, <1>6, <1>7, <1>8, <1>9, <1>10

\* Managing accounts.
LEMMA AccountKeeps == ASSUME AdminInv, AccountStep PROVE AdminInv'
<1>0. /\ AccountsTyped /\ FactorsOwned /\ CodesUnused /\ ChallengesOwned /\ SessionsOwned
      /\ RequestsTyped /\ WayBackIn
  BY DEF AdminInv
<1>1. ASSUME NEW r \in Requests, NEW q, RequestOK(q), Free(r), Begin(r, q),
             UNCHANGED <<admin, factors, recovery, challenge, session, spent>>
      PROVE  AdminInv'
  <2>1. ChallengesOwned' /\ SessionsOwned'
    BY <1>0, <1>1, ChallengesDropped, SessionsKept DEF Alive, GetAdmin
  <2> QED
    BY <1>1, <2>1, RequestBegun, AdminUntouched
<1>2. ASSUME AccountsTyped', Alive, UNCHANGED <<factors, recovery, challenge, spent>>,
             session' \subseteq session, RequestMoves
      PROVE  AdminInv'
  <2>1. ChallengesOwned' /\ SessionsOwned'
    BY <1>0, <1>2, ChallengesDropped, SessionsKept
  <2> QED
    BY <1>2, <2>1, AdminQuiet
<1>3. ASSUME NEW by, NEW a \in Admins, NEW role \in NewRoles, CreateAdmin(by, a, role) PROVE AdminInv'
  <2>1. PICK v : v = NewAdmin(role, 1)
    OBVIOUS
  <2>2. v \in AdminRows
    BY <2>1, AdminAssumption DEF NewAdmin, AdminRows
  <2>3. admin' = [admin EXCEPT ![a] = v] /\ UNCHANGED <<factors, recovery, challenge, session, req, spent>>
    BY <1>3, <2>1 DEF CreateAdmin
  <2> QED
    BY <1>0, <1>2, <2>2, <2>3, AccountWritten DEF RequestMoves
<1>4. ASSUME NEW r \in Requests, NEW by, NEW a \in Admins, NEW role \in NewRoles, NEW d \in BOOLEAN,
             UpdateAdmin(r, by, a, role, d)
      PROVE  AdminInv'
  <2>1. PICK q : q = [op |-> "update", admin |-> a, role |-> role, disabled |-> d]
    OBVIOUS
  <2>2. q.op = "update" /\ q.admin = a /\ q.role \in Roles /\ q.disabled \in BOOLEAN
    BY <2>1, AdminAssumption
  <2>3. RequestOK(q)
    BY <2>2 DEF RequestOK
  <2>4. Free(r) /\ Begin(r, q) /\ UNCHANGED <<admin, factors, recovery, challenge, session, spent>>
    BY <1>4, <2>1 DEF UpdateAdmin
  <2> QED
    BY <1>1, <2>3, <2>4
<1>5. ASSUME NEW r \in Requests, NEW by, NEW a \in Admins, DeleteAdmin(r, by, a) PROVE AdminInv'
  <2>1. PICK q : q = [op |-> "delete", admin |-> a]
    OBVIOUS
  <2>2. q.op = "delete" /\ q.admin = a
    BY <2>1
  <2>3. RequestOK(q)
    BY <2>2 DEF RequestOK
  <2>4. Free(r) /\ Begin(r, q) /\ UNCHANGED <<admin, factors, recovery, challenge, session, spent>>
    BY <1>5, <2>1 DEF DeleteAdmin
  <2> QED
    BY <1>1, <2>3, <2>4
<1>6. ASSUME NEW r \in Requests, NEW by, NEW a \in Admins, NEW p \in Passwords, NEW n \in Passwords,
             ChangePassword(r, by, a, p, n)
      PROVE  AdminInv'
  <2>1. PICK q : q = [op |-> "password", admin |-> a, new |-> n]
    OBVIOUS
  <2>2. q.op = "password" /\ q.admin = a /\ q.new \in Passwords
    BY <2>1
  <2>3. RequestOK(q)
    BY <2>2 DEF RequestOK
  <2>4. Free(r) /\ Begin(r, q) /\ UNCHANGED <<admin, factors, recovery, challenge, session, spent>>
    BY <1>6, <2>1 DEF ChangePassword
  <2> QED
    BY <1>1, <2>3, <2>4
<1>7. ASSUME NEW r \in Requests, UpdateAdminRole(r) PROVE AdminInv'
  <2>1. PICK a, role, d : a = req[r].admin /\ role = req[r].role /\ d = req[r].disabled
    OBVIOUS
  <2>2. /\ req[r].op = "update" /\ End(r) /\ UNCHANGED <<factors, recovery, challenge, session, spent>>
        /\ admin' = IF GetAdmin(a) THEN [admin EXCEPT ![a].role = role, ![a].disabled = d] ELSE admin
    BY <1>7, <2>1 DEF UpdateAdminRole
  <2>3. a \in Admins /\ role \in Roles /\ d \in BOOLEAN
    BY <1>0, <2>1, <2>2 DEF RequestsTyped, RequestOK, Idle
  <2>4. RequestMoves
    BY <2>2, RequestEnded
  <2>5. CASE ~ GetAdmin(a)
    BY <1>0, <1>2, <2>2, <2>4, <2>5 DEF AccountsTyped, Alive, GetAdmin
  <2>6. CASE GetAdmin(a)
    <3>1. PICK v \in AdminRows : v = admin[a]
      BY <1>0, <2>3, <2>6 DEF AccountsTyped, GetAdmin
    <3>2. PICK u : u = [v EXCEPT !.role = role]
      OBVIOUS
    <3>3. u \in AdminRows
      BY <2>3, <3>2, AdminRowForms
    <3>4. PICK w : w = [u EXCEPT !.disabled = d]
      OBVIOUS
    <3>5. w \in AdminRows
      BY <2>3, <3>3, <3>4, AdminRowForms
    <3>6. admin' = [admin EXCEPT ![a].role = role, ![a].disabled = d]
      BY <2>2, <2>6
    <3>7. admin' = [[admin EXCEPT ![a] = [admin[a] EXCEPT !.role = role]] EXCEPT ![a] = [@ EXCEPT !.disabled = d]]
      BY <3>6
    <3>8. admin' = [admin EXCEPT ![a] = w]
      BY <1>0, <2>3, <3>1, <3>2, <3>4, <3>7 DEF AccountsTyped
    <3> QED
      BY <1>0, <1>2, <2>2, <2>3, <2>4, <3>5, <3>8, AccountWritten
  <2> QED
    BY <2>5, <2>6
<1>8. ASSUME NEW r \in Requests, SetAdminPassword(r) PROVE AdminInv'
  <2>1. PICK a, p : a = req[r].admin /\ p = req[r].new
    OBVIOUS
  <2>2. /\ req[r].op = "password" /\ End(r) /\ UNCHANGED <<factors, recovery, challenge, spent>>
        /\ admin' = IF GetAdmin(a) THEN [admin EXCEPT ![a].pw = p] ELSE admin
        /\ session' \subseteq session
    BY <1>8, <2>1 DEF SetAdminPassword
  <2>3. a \in Admins /\ p \in Passwords
    BY <1>0, <2>1, <2>2 DEF RequestsTyped, RequestOK, Idle
  <2>4. RequestMoves
    BY <2>2, RequestEnded
  <2>5. CASE ~ GetAdmin(a)
    BY <1>0, <1>2, <2>2, <2>4, <2>5 DEF AccountsTyped, Alive, GetAdmin
  <2>6. CASE GetAdmin(a)
    <3>1. PICK v \in AdminRows : v = admin[a]
      BY <1>0, <2>3, <2>6 DEF AccountsTyped, GetAdmin
    <3>2. PICK w : w = [v EXCEPT !.pw = p]
      OBVIOUS
    <3>3. w \in AdminRows
      BY <2>3, <3>2, AdminRowForms
    <3>4. admin' = [admin EXCEPT ![a] = w]
      BY <2>2, <2>6, <3>1, <3>2
    <3> QED
      BY <1>0, <1>2, <2>2, <2>3, <2>4, <3>3, <3>4, AccountWritten
  <2> QED
    BY <2>5, <2>6
<1> QED
  BY <1>3, <1>4, <1>5, <1>6, <1>7, <1>8, AdminDeleted DEF AccountStep

\* A caller with a session has an account.
LEMMA SignedInForms == ASSUME NEW a, SignedIn(a) PROVE GetAdmin(a)
  BY DEF SignedIn, AdminBySession

\* A new set of codes.
LEMMA CodesReplaced ==
    ASSUME CodesUnused, NEW a \in Admins, GetAdmin(a), ReplaceRecoveryCodes(a), UNCHANGED admin
    PROVE  /\ CodesUnused' /\ recovery'[a] # {}
           /\ \A b \in Admins : b # a => recovery'[b] = recovery[b] /\ spent'[b] = spent[b]
<1>1. /\ recovery' \in [Admins -> SUBSET RecoveryCodes] /\ recovery'[a] = RecoveryCodes
      /\ \A b \in Admins : b # a => recovery'[b] = recovery[b]
  BY DEF ReplaceRecoveryCodes, CodesUnused
<1>2. /\ spent' \in [Admins -> [RecoveryCodes -> Nat]]
      /\ \A t \in RecoveryCodes : spent'[a][t] = 0
      /\ \A b \in Admins : b # a => spent'[b] = spent[b]
  BY DEF ReplaceRecoveryCodes, CodesUnused
<1>3. RecoveryCodes # {}
  BY AdminAssumption DEF RecoveryCodes
<1>4. CodesUnused'
  BY <1>1, <1>2 DEF CodesUnused, GetAdmin
<1> QED
  BY <1>1, <1>2, <1>3, <1>4

\* A factor is stored, and if it counts its request is about to write codes.
LEMMA FactorStored ==
    ASSUME AdminInv, AccountsTyped', Alive, UNCHANGED <<recovery, spent, session>>, ChallengesOwned',
           NEW f, FactorOK(f), GetAdmin(f.admin), factors' \subseteq factors \cup {f},
           RequestMoves,
           f.confirmed => \E r \in Requests : req'[r].op = "codes" /\ req'[r].admin = f.admin
    PROVE  AdminInv'
<1> USE DEF AdminInv
<1>1. FactorsOwned'
  BY DEF FactorsOwned, FactorOK, Alive
<1>2. CodesUnused'
  BY DEF CodesUnused, Alive
<1>3. SessionsOwned'
  BY SessionsKept
<1>4. RequestsTyped' /\ \A r \in Requests : req[r].op = "codes" => req'[r] = req[r]
  BY RequestsMoved
<1>5. WayBackIn'
  BY <1>4 DEF WayBackIn, ConfirmedMFACredentials
<1> QED
  BY <1>1, <1>2, <1>3, <1>4, <1>5

\* A request turns to the codes of an account.
LEMMA CodesNext ==
    ASSUME RequestsTyped, NEW r \in Requests, NEW a \in Admins, req[r].op # "codes",
           Begin(r, [op |-> "codes", admin |-> a])
    PROVE  RequestMoves /\ \E x \in Requests : req'[x].op = "codes" /\ req'[x].admin = a
<1>1. PICK q : q = [op |-> "codes", admin |-> a]
  OBVIOUS
<1>2. q.op = "codes" /\ q.admin = a
  BY <1>1
<1>3. RequestOK(q) /\ Begin(r, q)
  BY <1>1, <1>2 DEF RequestOK
<1>4. req'[r] = q
  BY <1>3 DEF Begin, RequestsTyped
<1> QED
  BY <1>2, <1>3, <1>4, RequestBegun

\* Enrolling factors.
LEMMA EnrolKeeps == ASSUME AdminInv, EnrolStep PROVE AdminInv'
<1>0. /\ AccountsTyped /\ FactorsOwned /\ CodesUnused /\ ChallengesOwned /\ SessionsOwned
      /\ RequestsTyped /\ WayBackIn
  BY DEF AdminInv
<1>1. ASSUME NEW a \in Admins, BeginTOTP(a) PROVE AdminInv'
  <2>1. PICK f : f = [id |-> Least(FreshFactors), admin |-> a, kind |-> "totp", confirmed |-> FALSE]
    OBVIOUS
  <2>2. FactorOK(f) /\ f.admin = a /\ ~ f.confirmed
    BY <2>1 DEF FactorOK, Kinds
  <2>3. factors' = factors \cup {f} /\ UNCHANGED <<admin, recovery, challenge, session, req, spent>>
        /\ GetAdmin(a)
    BY <1>1, <2>1, SignedInForms DEF BeginTOTP
  <2>4. AccountsTyped' /\ Alive
    BY <1>0, <2>3 DEF AccountsTyped, Alive, GetAdmin
  <2>5. ChallengesOwned'
    BY <1>0, <2>3, <2>4, ChallengesDropped
  <2> QED
    BY <2>2, <2>3, <2>4, <2>5, FactorStored DEF RequestMoves
<1>2. ASSUME NEW a \in Admins, BeginPasskeyRegistration(a) PROVE AdminInv'
  <2>1. /\ GetAdmin(a) /\ UNCHANGED <<admin, factors, recovery, session, req, spent>>
        /\ challenge' = CreateChallenge(Plain(Least(FreshTokens)), a, "webauthn_register", 0)
    BY <1>2, SignedInForms DEF BeginPasskeyRegistration
  <2>2. "webauthn_register" \in Purposes /\ \A t \in Tokens : Plain(Least(FreshTokens)) # EmailKey(t)
    BY KeyForms DEF Purposes
  <2>3. ChallengesOwned'
    BY <1>0, <2>1, <2>2, ChallengeCreated
  <2>4. SessionsOwned'
    BY <1>0, <2>1, SessionsKept DEF Alive, GetAdmin
  <2> QED
    BY <2>1, <2>3, <2>4, AdminUntouched DEF RequestMoves
<1>3. ASSUME NEW a \in Admins, GetAdmin(a), ReplaceRecoveryCodes(a), RequestsTyped',
             \A r \in Requests : req[r].op = "codes" => req'[r] = req[r] \/ req[r].admin = a,
             UNCHANGED <<admin, factors, challenge, session>>
      PROVE  AdminInv'
  <2>1. /\ CodesUnused' /\ recovery'[a] # {}
        /\ \A b \in Admins : b # a => recovery'[b] = recovery[b] /\ spent'[b] = spent[b]
    BY <1>0, <1>3, CodesReplaced
  <2>2. AccountsTyped' /\ FactorsOwned' /\ Alive
    BY <1>0, <1>3 DEF AccountsTyped, FactorsOwned, FactorOK, Alive, GetAdmin
  <2>3. ChallengesOwned' /\ SessionsOwned'
    BY <1>0, <1>3, <2>2, ChallengesDropped, SessionsKept
  <2>4. WayBackIn'
    BY <1>0, <1>3, <2>1 DEF WayBackIn, ConfirmedMFACredentials
  <2> QED
    BY <1>3, <2>1, <2>2, <2>3, <2>4 DEF AdminInv
<1>4. ASSUME NEW a \in Admins, RegenerateRecoveryCodes(a) PROVE AdminInv'
  <2>1. GetAdmin(a) /\ ReplaceRecoveryCodes(a) /\ UNCHANGED <<admin, factors, challenge, session, req>>
    BY <1>4, SignedInForms DEF RegenerateRecoveryCodes
  <2>2. RequestsTyped' /\ \A r \in Requests : req'[r] = req[r]
    BY <1>0, <2>1 DEF RequestsTyped
  <2> QED
    BY <1>3, <2>1, <2>2
<1>5. ASSUME NEW r \in Requests, AfterFirstFactor(r) PROVE AdminInv'
  <2>1. PICK a : a = req[r].admin
    OBVIOUS
  <2>2. /\ req[r].op = "codes" /\ End(r) /\ UNCHANGED <<admin, factors, challenge, session>>
        /\ IF recovery[a] = {} /\ GetAdmin(a) THEN ReplaceRecoveryCodes(a) ELSE UNCHANGED <<recovery, spent>>
    BY <1>5, <2>1 DEF AfterFirstFactor
  <2>3. a \in Admins
    BY <1>0, <2>1, <2>2 DEF RequestsTyped, RequestOK, Idle
  <2>4. RequestsTyped' /\ \A x \in Requests : x # r => req'[x] = req[x]
    <3>1. req' = [req EXCEPT ![r] = Idle]
      BY <2>2 DEF End
    <3>2. RequestOK(Idle)
      BY DEF RequestOK
    <3>3. /\ req' = [x \in Requests |-> req'[x]]
          /\ \A x \in Requests : req'[x] = IF x = r THEN Idle ELSE req[x]
      BY <1>0, <3>1 DEF RequestsTyped
    <3>4. \A x \in Requests : RequestOK(req'[x])
      BY <1>0, <3>2, <3>3 DEF RequestsTyped
    <3> QED
      BY <3>3, <3>4 DEF RequestsTyped
  <2>5. CASE recovery[a] = {} /\ GetAdmin(a)
    BY <1>3, <2>1, <2>2, <2>3, <2>4, <2>5
  <2>6. CASE ~ (recovery[a] = {} /\ GetAdmin(a))
    <3>1. /\ AccountsTyped' /\ FactorsOwned' /\ CodesUnused' /\ Alive
      BY <1>0, <2>2, <2>6 DEF AccountsTyped, FactorsOwned, FactorOK, CodesUnused, Alive, GetAdmin
    <3>2. ChallengesOwned' /\ SessionsOwned'
      BY <1>0, <2>2, <3>1, ChallengesDropped, SessionsKept
    <3>3. recovery[a] # {} \/ ConfirmedMFACredentials(a) = {}
      BY <1>0, <2>6 DEF FactorsOwned, ConfirmedMFACredentials
    <3>4. WayBackIn'
      BY <1>0, <2>1, <2>2, <2>4, <2>6, <3>3 DEF WayBackIn, ConfirmedMFACredentials
    <3> QED
      BY <2>4, <3>1, <3>2, <3>4 DEF AdminInv
  <2> QED
    BY <2>5, <2>6
<1>6. ASSUME NEW a \in Admins, NEW f \in factors, DeleteMFA(a, f) PROVE AdminInv'
  <2>1. factors' \subseteq factors /\ UNCHANGED <<admin, recovery, challenge, session, req, spent>>
    BY <1>6 DEF DeleteMFA
  <2>2. AccountsTyped' /\ Alive
    BY <1>0, <2>1 DEF AccountsTyped, Alive, GetAdmin
  <2>3. ChallengesOwned' /\ SessionsOwned'
    BY <1>0, <2>1, <2>2, ChallengesDropped, SessionsKept
  <2> QED
    BY <2>1, <2>2, <2>3, AdminQuiet DEF RequestMoves
<1>7. ASSUME NEW r \in Requests, NEW a \in Admins, NEW f \in factors, NEW c, ConfirmTOTP(r, a, f, c)
      PROVE  AdminInv'
  <2>1. PICK q : q = [op |-> "totp", admin |-> a, factor |-> f]
    OBVIOUS
  <2>2. q.op = "totp" /\ q.admin = a /\ q.factor = f
    BY <2>1
  <2>3. /\ Free(r) /\ Begin(r, q) /\ f.admin = a
        /\ UNCHANGED <<admin, factors, recovery, challenge, session, spent>>
    BY <1>7, <2>1 DEF ConfirmTOTP
  <2>4. RequestOK(q)
    BY <1>0, <2>2, <2>3 DEF RequestOK, FactorsOwned
  <2>5. ChallengesOwned' /\ SessionsOwned'
    BY <1>0, <2>3, ChallengesDropped, SessionsKept DEF Alive, GetAdmin
  <2> QED
    BY <2>3, <2>4, <2>5, RequestBegun, AdminUntouched
<1>8. ASSUME NEW r \in Requests, PutConfirmedTOTP(r) PROVE AdminInv'
  <2>1. PICK a, f : a = req[r].admin /\ f = req[r].factor
    OBVIOUS
  <2>2. req[r].op = "totp" /\ UNCHANGED <<admin, recovery, challenge, session, spent>>
    BY <1>8 DEF PutConfirmedTOTP
  <2>3. a \in Admins /\ FactorOK(f) /\ f.admin = a
    BY <1>0, <2>1, <2>2 DEF RequestsTyped, RequestOK, Idle
  <2>4. AccountsTyped' /\ Alive
    BY <1>0, <2>2 DEF AccountsTyped, Alive, GetAdmin
  <2>5. ChallengesOwned' /\ SessionsOwned'
    BY <1>0, <2>2, <2>4, ChallengesDropped, SessionsKept
  <2>6. CASE End(r) /\ UNCHANGED factors
    BY <2>2, <2>5, <2>6, RequestEnded, AdminUntouched
  <2>7. CASE /\ GetAdmin(a) /\ factors' = (factors \ {f}) \cup {[f EXCEPT !.confirmed = TRUE]}
             /\ Begin(r, [op |-> "codes", admin |-> a])
    <3>1. PICK g : g = [f EXCEPT !.confirmed = TRUE]
      OBVIOUS
    <3>2. PICK i, k, b : f = [id |-> i, admin |-> a, kind |-> k, confirmed |-> b]
      BY <2>3 DEF FactorOK
    <3>3. g = [id |-> i, admin |-> a, kind |-> k, confirmed |-> TRUE]
      BY <3>1, <3>2
    <3>4. FactorOK(g) /\ g.admin = a
      BY <2>3, <3>2, <3>3 DEF FactorOK
    <3>5. factors' \subseteq factors \cup {g}
      BY <2>7, <3>1
    <3>6. RequestMoves /\ \E x \in Requests : req'[x].op = "codes" /\ req'[x].admin = a
      BY <1>0, <2>2, <2>3, <2>7, CodesNext
    <3> QED
      BY <2>2, <2>4, <2>5, <2>7, <3>4, <3>5, <3>6, FactorStored
  <2> QED
    BY <1>8, <2>1, <2>6, <2>7 DEF PutConfirmedTOTP
<1>9. ASSUME NEW r \in Requests, NEW a \in Admins, NEW t \in Tokens, NEW ok \in BOOLEAN,
             FinishPasskeyRegistration(r, a, t, ok)
      PROVE  AdminInv'
  <2>1. /\ Free(r) /\ GetAdmin(a) /\ challenge' = DeleteChallenge({Plain(t)})
        /\ UNCHANGED <<admin, recovery, session, spent>>
    BY <1>9, SignedInForms DEF FinishPasskeyRegistration
  <2>2. AccountsTyped' /\ Alive
    BY <1>0, <2>1 DEF AccountsTyped, Alive, GetAdmin
  <2>3. ChallengesOwned' /\ SessionsOwned'
    BY <1>0, <2>1, <2>2, ChallengesDropped, SessionsKept
  <2>4. CASE UNCHANGED <<factors, req>>
    BY <2>1, <2>3, <2>4, AdminUntouched DEF RequestMoves
  <2>5. CASE /\ factors' = factors \cup {[id |-> Least(FreshFactors), admin |-> a,
                                          kind |-> "passkey", confirmed |-> TRUE]}
             /\ Begin(r, [op |-> "codes", admin |-> a])
    <3>1. PICK f : f = [id |-> Least(FreshFactors), admin |-> a, kind |-> "passkey", confirmed |-> TRUE]
      OBVIOUS
    <3>2. FactorOK(f) /\ f.admin = a
      BY <3>1 DEF FactorOK, Kinds
    <3>3. factors' \subseteq factors \cup {f}
      BY <2>5, <3>1
    <3>4. req[r].op # "codes"
      BY <2>1 DEF Free, Idle
    <3>5. RequestMoves /\ \E x \in Requests : req'[x].op = "codes" /\ req'[x].admin = a
      BY <1>0, <2>5, <3>4, CodesNext
    <3> QED
      BY <2>1, <2>2, <2>3, <3>2, <3>3, <3>5, FactorStored
  <2> QED
    BY <1>9, <2>4, <2>5 DEF FinishPasskeyRegistration
<1>10. ASSUME NEW r \in Requests, NEW a \in Admins, NEW e \in Emails, SetAdminEmail(r, a, e) PROVE AdminInv'
  <2>1. PICK q : q = [op |-> "send", admin |-> a, email |-> e]
    OBVIOUS
  <2>2. q.op = "send" /\ q.admin = a
    BY <2>1
  <2>3. RequestOK(q)
    BY <2>2 DEF RequestOK
  <2>4. /\ Free(r) /\ Begin(r, q) /\ GetAdmin(a)
        /\ admin' = [admin EXCEPT ![a].email = e, ![a].verified = FALSE]
        /\ UNCHANGED <<factors, recovery, challenge, session, spent>>
    BY <1>10, <2>1, SignedInForms DEF SetAdminEmail
  <2>5. PICK v \in AdminRows : v = admin[a]
    BY <1>0, <2>4 DEF AccountsTyped, GetAdmin
  <2>6. PICK u : u = [v EXCEPT !.email = e]
    OBVIOUS
  <2>7. u \in AdminRows
    BY <2>6, AdminRowForms
  <2>8. PICK w : w = [u EXCEPT !.verified = FALSE]
    OBVIOUS
  <2>9. w \in AdminRows
    BY <2>7, <2>8, AdminRowForms
  <2>10. admin' = [[admin EXCEPT ![a] = [admin[a] EXCEPT !.email = e]] EXCEPT ![a] = [@ EXCEPT !.verified = FALSE]]
    BY <2>4
  <2>11. admin' = [admin EXCEPT ![a] = w]
    BY <1>0, <2>5, <2>6, <2>8, <2>10 DEF AccountsTyped
  <2>12. AccountsTyped' /\ Alive
    BY <1>0, <2>9, <2>11, AccountWritten
  <2>13. ChallengesOwned' /\ SessionsOwned'
    BY <1>0, <2>4, <2>12, ChallengesDropped, SessionsKept
  <2> QED
    BY <2>3, <2>4, <2>12, <2>13, RequestBegun, AdminQuiet
<1>11. ASSUME NEW r \in Requests, SendEmailVerification(r) PROVE AdminInv'
  <2>1. PICK a, e : a = req[r].admin /\ e = req[r].email
    OBVIOUS
  <2>2. /\ req[r].op = "send" /\ End(r) /\ UNCHANGED <<admin, factors, recovery, session, spent>>
        /\ IF GetAdmin(a) THEN challenge' = CreateChallenge(VerifyKey(a), a, "email_verify", e)
           ELSE UNCHANGED challenge
    BY <1>11, <2>1 DEF SendEmailVerification
  <2>3. a \in Admins
    BY <1>0, <2>1, <2>2 DEF RequestsTyped, RequestOK, Idle
  <2>4. ChallengesOwned'
    <3>1. CASE ~ GetAdmin(a)
      BY <1>0, <2>2, <3>1, ChallengesDropped DEF Alive, GetAdmin
    <3>2. CASE GetAdmin(a)
      <4>1. "email_verify" \in Purposes /\ \A t \in Tokens : VerifyKey(a) # EmailKey(t)
        BY KeyForms DEF Purposes
      <4> QED
        BY <1>0, <2>2, <2>3, <3>2, <4>1, ChallengeCreated
    <3> QED
      BY <3>1, <3>2
  <2>5. SessionsOwned'
    BY <1>0, <2>2, SessionsKept DEF Alive, GetAdmin
  <2> QED
    BY <2>2, <2>4, <2>5, RequestEnded, AdminUntouched
<1>12. ASSUME NEW r \in Requests, NEW a \in Admins, NEW code, ConfirmEmail(r, a, code) PROVE AdminInv'
  <2>1. Free(r) /\ UNCHANGED <<admin, factors, recovery, session, spent>>
    BY <1>12 DEF ConfirmEmail
  <2>2. SessionsOwned'
    BY <1>0, <2>1, SessionsKept DEF Alive, GetAdmin
  <2>3. CASE FailChallenge(VerifyKey(a), {}) /\ UNCHANGED req
    <3>1. ChallengesOwned'
      BY <1>0, <2>1, <2>3, KeyForms, ChallengeFailed
    <3> QED
      BY <2>1, <2>2, <2>3, <3>1, AdminUntouched DEF RequestMoves
  <2>4. CASE challenge' = DeleteChallenge({VerifyKey(a)}) /\ Begin(r, [op |-> "email", admin |-> a])
    <3>1. PICK q : q = [op |-> "email", admin |-> a]
      OBVIOUS
    <3>2. q.op = "email" /\ q.admin = a
      BY <3>1
    <3>3. RequestOK(q) /\ Begin(r, q)
      BY <2>4, <3>1, <3>2 DEF RequestOK
    <3>4. ChallengesOwned'
      BY <1>0, <2>1, <2>4, ChallengesDropped DEF Alive, GetAdmin
    <3> QED
      BY <2>1, <2>2, <3>3, <3>4, RequestBegun, AdminUntouched
  <2> QED
    BY <1>12, <2>3, <2>4 DEF ConfirmEmail
<1>13. ASSUME NEW r \in Requests, MarkEmailVerified(r) PROVE AdminInv'
  <2>1. PICK a : a = req[r].admin
    OBVIOUS
  <2>2. req[r].op = "email" /\ UNCHANGED <<recovery, challenge, session, spent>>
    BY <1>13 DEF MarkEmailVerified
  <2>3. a \in Admins
    BY <1>0, <2>1, <2>2 DEF RequestsTyped, RequestOK, Idle
  <2>4. CASE End(r) /\ UNCHANGED <<admin, factors>>
    <3>1. ChallengesOwned' /\ SessionsOwned'
      BY <1>0, <2>2, <2>4, ChallengesDropped, SessionsKept DEF Alive, GetAdmin
    <3> QED
      BY <2>2, <2>4, <3>1, RequestEnded, AdminUntouched
  <2>5. CASE /\ GetAdmin(a) /\ admin' = [admin EXCEPT ![a].verified = TRUE]
             /\ factors' = factors \cup {[id |-> Least(FreshFactors), admin |-> a,
                                          kind |-> "email", confirmed |-> TRUE]}
             /\ Begin(r, [op |-> "codes", admin |-> a])
    <3>1. PICK v \in AdminRows : v = admin[a]
      BY <1>0, <2>3, <2>5 DEF AccountsTyped, GetAdmin
    <3>2. PICK w : w = [v EXCEPT !.verified = TRUE]
      OBVIOUS
    <3>3. w \in AdminRows
      BY <3>2, AdminRowForms
    <3>4. admin' = [admin EXCEPT ![a] = w]
      BY <2>5, <3>1, <3>2
    <3>5. AccountsTyped' /\ Alive
      BY <1>0, <2>3, <3>3, <3>4, AccountWritten
    <3>6. PICK f : f = [id |-> Least(FreshFactors), admin |-> a, kind |-> "email", confirmed |-> TRUE]
      OBVIOUS
    <3>7. FactorOK(f) /\ f.admin = a
      BY <2>3, <3>6 DEF FactorOK, Kinds
    <3>8. factors' \subseteq factors \cup {f}
      BY <2>5, <3>6
    <3>9. RequestMoves /\ \E x \in Requests : req'[x].op = "codes" /\ req'[x].admin = a
      BY <1>0, <2>2, <2>3, <2>5, CodesNext
    <3>10. ChallengesOwned'
      BY <1>0, <2>2, <3>5, ChallengesDropped
    <3> QED
      BY <2>2, <2>5, <3>5, <3>7, <3>8, <3>9, <3>10, FactorStored
  <2> QED
    BY <1>13, <2>1, <2>4, <2>5 DEF MarkEmailVerified
<1> QED
  BY <1>1, <1>2, <1>4, <1>5, <1>6, <1>7, <1>8, <1>9, <1>10, <1>11, <1>12, <1>13 DEF EnrolStep

\* The accounts, factors and codes a panel starts with.
LEMMA AdminInvInit == AdminInit => AdminInv
<1> SUFFICES ASSUME AdminInit PROVE AdminInv
  OBVIOUS
<1>1. PICK enrolled \in Enrolments :
         /\ admin = [a \in Admins |->
                       [NewAdmin(FirstRole, 1) EXCEPT
                          !.email = IF "email" \in enrolled[a] THEN CHOOSE e \in Emails : TRUE ELSE None,
                          !.verified = "email" \in enrolled[a]]]
         /\ factors = UNION {{[id |-> 0, admin |-> a, kind |-> k, confirmed |-> TRUE]
                               : k \in enrolled[a]} : a \in Admins}
         /\ recovery = [a \in Admins |-> IF enrolled[a] = {} THEN {} ELSE RecoveryCodes]
  BY DEF AdminInit
<1>2. enrolled \in [Admins -> SUBSET Kinds]
  BY AdminAssumption
<1>3. \A a \in Admins : admin[a] \in AdminRows
  <2> SUFFICES ASSUME NEW a \in Admins PROVE admin[a] \in AdminRows
    OBVIOUS
  <2>1. PICK v : v = NewAdmin(FirstRole, 1)
    OBVIOUS
  <2>2. v \in AdminRows
    BY <2>1, AdminAssumption DEF NewAdmin, AdminRows
  <2>3. PICK e : e = IF "email" \in enrolled[a] THEN CHOOSE x \in Emails : TRUE ELSE None
    OBVIOUS
  <2>4. e \in Emails \cup {None}
    BY <2>3, AdminAssumption
  <2>5. PICK u : u = [v EXCEPT !.email = e]
    OBVIOUS
  <2>6. u \in AdminRows
    BY <2>2, <2>4, <2>5, AdminRowForms
  <2>7. admin[a] = [NewAdmin(FirstRole, 1) EXCEPT
                      !.email = IF "email" \in enrolled[a] THEN CHOOSE x \in Emails : TRUE ELSE None,
                      !.verified = "email" \in enrolled[a]]
    BY <1>1
  <2>8. admin[a] = [v EXCEPT !.email = e, !.verified = "email" \in enrolled[a]]
    BY <2>1, <2>3, <2>7, Zenon
  <2>9. PICK b \in BOOLEAN : b = ("email" \in enrolled[a])
    <3>1. ("email" \in enrolled[a]) \in BOOLEAN
      OBVIOUS
    <3> QED
      BY <3>1, Zenon
  <2>10. admin[a] = [v EXCEPT !.email = e, !.verified = b]
    BY <2>8, <2>9, Zenon
  <2>11. admin[a] = [u EXCEPT !.verified = b]
    BY <2>5, <2>10
  <2> QED
    BY <2>6, <2>11, AdminRowForms
<1>4. AccountsTyped /\ \A a \in Admins : GetAdmin(a)
  BY <1>1, <1>3, AdminRowForms DEF AccountsTyped, GetAdmin
<1>5. \A f \in factors : \E a \in Admins : \E k \in enrolled[a] :
          f = [id |-> 0, admin |-> a, kind |-> k, confirmed |-> TRUE]
  BY <1>1
<1>6. FactorsOwned
  BY <1>2, <1>4, <1>5 DEF FactorsOwned, FactorOK
<1>7. CodesUnused
  <2>1. recovery \in [Admins -> SUBSET RecoveryCodes]
    BY <1>1
  <2>2. /\ spent \in [Admins -> [RecoveryCodes -> Nat]]
        /\ \A a \in Admins : \A t \in RecoveryCodes : spent[a][t] = 0
    BY DEF AdminInit
  <2> QED
    BY <1>4, <2>1, <2>2 DEF CodesUnused
<1>8. ChallengesOwned
  BY KeyForms, NoChallengeForm DEF AdminInit, ChallengesOwned
<1>9. SessionsOwned /\ RequestsTyped
  BY DEF AdminInit, SessionsOwned, RequestsTyped, RequestOK
<1>10. WayBackIn
  <2>1. \A a \in Admins : ConfirmedMFACredentials(a) # {} => enrolled[a] # {}
    BY <1>5 DEF ConfirmedMFACredentials
  <2>2. RecoveryCodes # {}
    BY AdminAssumption DEF RecoveryCodes
  <2> QED
    BY <1>1, <2>1, <2>2 DEF WayBackIn
<1> QED
  BY <1>4, <1>6, <1>7, <1>8, <1>9, <1>10 DEF AdminInv

\* Every step of signing in, managing accounts and enrolling keeps the invariant.
LEMMA AdminInvStep == AdminInv /\ [AdminNext]_avars => AdminInv'
<1> SUFFICES ASSUME AdminInv, [AdminNext]_avars PROVE AdminInv'
  OBVIOUS
<1>1. CASE UNCHANGED avars
  <2>1. UNCHANGED <<admin, factors, recovery, challenge, session, req, spent>>
    BY <1>1 DEF avars
  <2>2. ChallengesOwned' /\ SessionsOwned'
    BY <2>1, ChallengesDropped, SessionsKept DEF AdminInv, Alive, GetAdmin
  <2> QED
    BY <2>1, <2>2, AdminUntouched DEF RequestMoves
<1> QED
  BY <1>1, PasswordKeeps, FactorKeeps, AccountKeeps, EnrolKeeps DEF AdminNext

\* The invariant gives what the run checks.
LEMMA AdminInvGives ==
    AdminInv => AdminTypeOK /\ RecoveryCodeOnce /\ SecondFactorBound /\ WayBackIn
<1> SUFFICES ASSUME AdminInv PROVE AdminTypeOK /\ RecoveryCodeOnce /\ SecondFactorBound /\ WayBackIn
  OBVIOUS
<1> USE DEF AdminInv
<1>1. \A a \in Admins : GetAdmin(a) => admin[a].role \in Roles /\ admin[a].pw \in Passwords
  BY AdminRowForms DEF AccountsTyped, GetAdmin
<1>2. \A k \in Keys : /\ challenge[k].purpose \in Purposes
                      /\ challenge[k].attempts \in 0..(MaxChallengeAttempts - 1)
                      /\ challenge[k] # NoChallenge => GetAdmin(challenge[k].admin)
  BY NoChallengeForm DEF ChallengesOwned, ChallengeOK, Purposes
<1>3. AdminTypeOK
  BY <1>1, <1>2 DEF AdminTypeOK, FactorsOwned, FactorOK, CodesUnused, SessionsOwned
<1>4. RecoveryCodeOnce
  BY DEF CodesUnused, RecoveryCodeOnce
<1>5. SecondFactorBound
  BY DEF SessionsOwned, Bought, SecondFactorBound
<1> QED
  BY <1>3, <1>4, <1>5

\* A session got with a second factor was bought by a login challenge of its own account,
\* and an emailed code by one mailed for that login.  verifyMFA, sendEmailCode and
\* finishPasskeyLogin (api/mfa.go, passkey.go), for every number of accounts and requests.
THEOREM FactorsBound == AdminSpec => []SecondFactorBound
  BY AdminInvInit, AdminInvStep, AdminInvGives, PTL DEF AdminSpec

\* An account whose login asks for a factor has a way back in.  afterFirstFactor and the
\* handlers that enrol, remove and use (api/mfa.go), for every interleaving of them.
THEOREM NobodyLockedOut == AdminSpec => []WayBackIn
  BY AdminInvInit, AdminInvStep, AdminInvGives, PTL DEF AdminSpec

\* A recovery code and a join token are good for one use.  UseRecoveryCode (store/auth.go)
\* and RedeemJoinToken (store/store.go), whoever presents them at the same time.
THEOREM UsedOnce == AdminSpec /\ EnrolmentSpec => []SpentOnce
<1>1. AdminSpec => []RecoveryCodeOnce
  BY AdminInvInit, AdminInvStep, AdminInvGives, PTL DEF AdminSpec
<1>2. EnrolmentSpec => []JoinTokenOnce
  BY NodesEnrolOnce, PTL
<1>3. RecoveryCodeOnce /\ JoinTokenOnce => SpentOnce
  BY DEF SpentOnce
<1> QED
  BY <1>1, <1>2, <1>3, PTL

-----------------------------------------------------------------------------
(* Portal.  An account belongs to a subscriber and an address to one account; *)
(* a subscriber's id does not come back, so what a request in flight means is *)
(* either what it was when the request read it, or gone.                      *)

AccountsHeld ==
    /\ subscriber \cap gone = {}
    /\ account \in [Subscribers -> AccountRows \cup {NoValue}]
    /\ \A u \in Subscribers : account[u] # NoValue => u \in subscriber
    /\ \A u, v \in Subscribers : u # v /\ account[u] # NoValue /\ account[v] # NoValue =>
                                    account[u].email # account[v].email

PortalSessionsHeld == \A s \in psession : s.user \in Subscribers /\ account[s.user] # NoValue

LinksHeld ==
    /\ link \in [Ptokens -> Subscribers \cup {NoValue}]
    /\ \A t \in Ptokens : link[t] # NoValue => link[t] \in subscriber

CallOK(q) ==
    /\ q.op \in {"register", "account"} => q.email \in Addresses /\ q.pw \in Secrets
    /\ q.op \in {"account", "session", "password", "claim"} => q.user \in Subscribers
    /\ q.op \in {"password", "claim"} => q.pw \in Secrets
    /\ q.op = "session" => /\ q.user \in subscriber \cup gone
                           /\ q.user \in subscriber => account[q.user] # NoValue
    /\ q.op = "claim" => /\ q.token \in Ptokens /\ q.creates \in BOOLEAN
                         /\ q.creates => q.email \in Addresses

CallsHeld == preq = [c \in Calls |-> preq[c]] /\ \A c \in Calls : CallOK(preq[c])

PortalInv == AccountsHeld /\ PortalSessionsHeld /\ LinksHeld /\ CallsHeld

\* What no step of the portal does to an account, and to who exists.
AddressStays ==
    \A u \in Subscribers : account[u] # NoValue /\ u \in subscriber' =>
        account'[u] # NoValue /\ account'[u].email = account[u].email

IdsStay ==
    /\ subscriber \cup gone \subseteq subscriber' \cup gone'
    /\ \A u \in subscriber \cup gone : u \in subscriber' => u \in subscriber

\* What a request read stays good for what it will write.
LEMMA CallKept ==
    ASSUME AddressStays, IdsStay, NEW q, CallOK(q) PROVE CallOK(q)'
  BY DEF AddressStays, IdsStay, CallOK

\* One request moves, or none.
LEMMA CallsMoved ==
    ASSUME CallsHeld, AddressStays, IdsStay, NEW c, NEW q, CallOK(q)',
           PortalBegin(c, q) \/ preq' = preq
    PROVE  CallsHeld'
<1>1. \A x \in Calls : CallOK(preq[x])'
  <2> SUFFICES ASSUME NEW x \in Calls PROVE CallOK(preq[x])'
    OBVIOUS
  <2>1. PICK p : p = preq'[x]
    OBVIOUS
  <2>2. p = preq[x] \/ p = q
    BY <2>1 DEF CallsHeld, PortalBegin
  <2>3. CallOK(p)'
    BY <2>2, CallKept DEF CallsHeld
  <2> QED
    BY <2>1, <2>3 DEF CallOK
<1>2. preq' = [x \in Calls |-> preq'[x]]
  BY DEF CallsHeld, PortalBegin
<1> QED
  BY <1>1, <1>2 DEF CallsHeld

\* A request that is idle means nothing.
LEMMA WaitingOK == CallOK(Waiting) /\ Waiting.op = "idle"
  BY DEF CallOK, Waiting

\* A request that is answered has nothing left to write.
LEMMA CallsEnded ==
    ASSUME CallsHeld, AddressStays, IdsStay, NEW c, PortalEnd(c) \/ preq' = preq PROVE CallsHeld'
<1>1. CallOK(Waiting)'
  BY WaitingOK, CallKept
<1>2. PICK q : q = Waiting
  OBVIOUS
<1>3. CallOK(q)' /\ (PortalBegin(c, q) \/ preq' = preq)
  BY <1>1, <1>2 DEF CallOK, PortalBegin, PortalEnd
<1> QED
  BY <1>3, CallsMoved

\* Steps that write no account and no subscriber.
LEMMA PortalQuiet ==
    ASSUME PortalInv, UNCHANGED <<subscriber, account, gone>>
    PROVE  /\ AccountsHeld' /\ AddressStays /\ IdsStay
           /\ \A q : CallOK(q) => CallOK(q)'
           /\ psession' \subseteq psession => PortalSessionsHeld'
           /\ link' = link => LinksHeld'
<1>1. AddressStays /\ IdsStay
  BY DEF AddressStays, IdsStay
<1> QED
  BY <1>1, CallKept DEF PortalInv, AccountsHeld, PortalSessionsHeld, LinksHeld

\* An account is created under a free address, or keeps the one it has.
LEMMA AccountPut ==
    ASSUME AccountsHeld, NEW u \in Subscribers, NEW v \in AccountRows, u \in subscriber,
           \/ account[u] # NoValue /\ v.email = account[u].email
           \/ account[u] = NoValue /\ UserAccountByEmail(v.email) = {},
           account' = [account EXCEPT ![u] = v], UNCHANGED <<subscriber, gone>>
    PROVE  /\ AccountsHeld' /\ AddressStays /\ IdsStay /\ account'[u] # NoValue
           /\ \A w \in Subscribers : account[w] # NoValue => account'[w] # NoValue
<1>1. v # NoValue
  BY PortalAssumption
<1>2. /\ account' \in [Subscribers -> AccountRows \cup {NoValue}] /\ account'[u] = v
      /\ \A w \in Subscribers : w # u => account'[w] = account[w]
  BY DEF AccountsHeld
<1>3. \A w \in Subscribers : w # u /\ account[w] # NoValue => account[w].email # v.email
  BY DEF AccountsHeld, UserAccountByEmail
<1> QED
  BY <1>1, <1>2, <1>3 DEF AccountsHeld, AddressStays, IdsStay

\* Every step of the portal keeps the invariant, and moves no address.
LEMMA PortalInvStep == PortalInv /\ [PortalNext]_pvars => PortalInv' /\ AddressStays
<1> SUFFICES ASSUME PortalInv, [PortalNext]_pvars PROVE PortalInv' /\ AddressStays
  OBVIOUS
<1>0. AccountsHeld /\ PortalSessionsHeld /\ LinksHeld /\ CallsHeld
  BY DEF PortalInv
<1>1. ASSUME NEW c \in Calls, NEW q, CallOK(q), PortalBegin(c, q),
             UNCHANGED <<subscriber, account, gone>>, psession' \subseteq psession, link' = link
      PROVE  PortalInv' /\ AddressStays
  <2>1. /\ AccountsHeld' /\ AddressStays /\ IdsStay /\ CallOK(q)'
        /\ PortalSessionsHeld' /\ LinksHeld'
    BY <1>1, PortalQuiet
  <2>2. CallsHeld'
    BY <1>0, <1>1, <2>1, CallsMoved
  <2> QED
    BY <2>1, <2>2 DEF PortalInv
<1>2. ASSUME NEW c \in Calls, NEW e \in Addresses, NEW p \in Secrets, NEW ok, PortalRegister(c, e, p, ok)
      PROVE  PortalInv' /\ AddressStays
  <2>1. PICK q : q = [op |-> "register", email |-> e, pw |-> p]
    OBVIOUS
  <2>2. q.op = "register" /\ q.email = e /\ q.pw = p
    BY <2>1
  <2>3. CallOK(q) /\ PortalBegin(c, q) /\ UNCHANGED <<subscriber, account, psession, link, gone>>
    BY <1>2, <2>1, <2>2 DEF CallOK, PortalRegister
  <2> QED
    BY <1>1, <2>3
<1>3. ASSUME NEW c \in Calls, NEW e \in Addresses, NEW p \in Secrets, PortalLogin(c, e, p)
      PROVE  PortalInv' /\ AddressStays
  <2>1. PICK u \in UserAccountByEmail(e) : PortalBegin(c, [op |-> "session", user |-> u])
    BY <1>3 DEF PortalLogin
  <2>2. u \in Subscribers /\ account[u] # NoValue /\ u \in subscriber
    BY <1>0 DEF UserAccountByEmail, AccountsHeld
  <2>3. PICK q : q = [op |-> "session", user |-> u]
    OBVIOUS
  <2>4. q.op = "session" /\ q.user = u
    BY <2>3
  <2>5. CallOK(q) /\ PortalBegin(c, q) /\ UNCHANGED <<subscriber, account, psession, link, gone>>
    BY <1>3, <2>1, <2>2, <2>3, <2>4 DEF CallOK, PortalLogin
  <2> QED
    BY <1>1, <2>5
<1>4. ASSUME NEW c \in Calls, NEW u \in Subscribers, CreateSubscriber(c, u) PROVE PortalInv' /\ AddressStays
  <2>1. PICK e, p : e = preq[c].email /\ p = preq[c].pw
    OBVIOUS
  <2>2. /\ preq[c].op = "register" /\ u \notin subscriber \cup gone /\ subscriber' = subscriber \cup {u}
        /\ PortalBegin(c, [op |-> "account", user |-> u, email |-> e, pw |-> p])
        /\ UNCHANGED <<account, psession, link, gone>>
    BY <1>4, <2>1 DEF CreateSubscriber
  <2>3. e \in Addresses /\ p \in Secrets
    BY <1>0, <2>1, <2>2 DEF CallsHeld, CallOK
  <2>4. AccountsHeld' /\ AddressStays /\ IdsStay
    BY <1>0, <2>2 DEF AccountsHeld, AddressStays, IdsStay
  <2>5. PortalSessionsHeld' /\ LinksHeld'
    BY <1>0, <2>2 DEF PortalSessionsHeld, LinksHeld
  <2>6. PICK q : q = [op |-> "account", user |-> u, email |-> e, pw |-> p]
    OBVIOUS
  <2>7. q.op = "account" /\ q.user = u /\ q.email = e /\ q.pw = p
    BY <2>6
  <2>8. CallOK(q)' /\ PortalBegin(c, q)
    BY <2>2, <2>3, <2>6, <2>7 DEF CallOK
  <2>9. CallsHeld'
    BY <1>0, <2>4, <2>8, CallsMoved
  <2> QED
    BY <2>4, <2>5, <2>9 DEF PortalInv
<1>5. ASSUME NEW c \in Calls, CreateSubscriberAccount(c) PROVE PortalInv' /\ AddressStays
  <2>1. PICK u, e, p : u = preq[c].user /\ e = preq[c].email /\ p = preq[c].pw
    OBVIOUS
  <2>2. /\ preq[c].op = "account" /\ PortalEnd(c)
        /\ account' = IF CanCreateAccount(u, e) THEN [account EXCEPT ![u] = NewAccount(e, p)] ELSE account
        /\ UNCHANGED <<subscriber, psession, link, gone>>
    BY <1>5, <2>1 DEF CreateSubscriberAccount
  <2>3. u \in Subscribers /\ e \in Addresses /\ p \in Secrets
    BY <1>0, <2>1, <2>2 DEF CallsHeld, CallOK
  <2>4. AccountsHeld' /\ AddressStays /\ IdsStay
        /\ \A w \in Subscribers : account[w] # NoValue => account'[w] # NoValue
    <3>1. CASE ~ CanCreateAccount(u, e)
      BY <1>0, <2>2, <3>1 DEF AccountsHeld, AddressStays, IdsStay
    <3>2. CASE CanCreateAccount(u, e)
      <4>1. PICK v : v = NewAccount(e, p)
        OBVIOUS
      <4>2. v \in AccountRows /\ v.email = e
        BY <2>3, <4>1 DEF NewAccount, AccountRows
      <4>3. u \in subscriber /\ account[u] = NoValue /\ UserAccountByEmail(v.email) = {}
        BY <3>2, <4>2 DEF CanCreateAccount
      <4>4. account' = [account EXCEPT ![u] = v] /\ UNCHANGED <<subscriber, gone>>
        BY <2>2, <3>2, <4>1
      <4> QED
        BY <1>0, <2>3, <4>2, <4>3, <4>4, AccountPut
    <3> QED
      BY <3>1, <3>2
  <2>5. PortalSessionsHeld' /\ LinksHeld'
    BY <1>0, <2>2, <2>4 DEF PortalSessionsHeld, LinksHeld
  <2>6. CallsHeld'
    BY <1>0, <2>2, <2>4, CallsEnded
  <2> QED
    BY <2>4, <2>5, <2>6 DEF PortalInv
<1>6. ASSUME NEW c \in Calls, IssuePortalSession(c) PROVE PortalInv' /\ AddressStays
  <2>1. PICK u : u = preq[c].user
    OBVIOUS
  <2>2. preq[c].op = "session" /\ PortalEnd(c) /\ UNCHANGED <<subscriber, account, link, gone>>
    BY <1>6 DEF IssuePortalSession
  <2>3. u \in Subscribers /\ (u \in subscriber => account[u] # NoValue)
    BY <1>0, <2>1, <2>2 DEF CallsHeld, CallOK
  <2>4. AccountsHeld' /\ AddressStays /\ IdsStay /\ LinksHeld'
        /\ (psession' \subseteq psession => PortalSessionsHeld')
    BY <2>2, PortalQuiet
  <2>5. PortalSessionsHeld'
    <3>1. CASE UNCHANGED psession
      BY <2>4, <3>1
    <3>2. CASE u \in subscriber /\ psession' = psession \cup {[token |-> ptoken', user |-> u]}
      <4>1. PICK s : s = [token |-> ptoken', user |-> u]
        OBVIOUS
      <4>2. s.user = u /\ psession' = psession \cup {s}
        BY <3>2, <4>1
      <4> QED
        BY <1>0, <2>2, <2>3, <3>2, <4>2 DEF PortalSessionsHeld
    <3> QED
      BY <1>6, <2>1, <3>1, <3>2 DEF IssuePortalSession
  <2>6. CallsHeld'
    BY <1>0, <2>2, <2>4, CallsEnded
  <2> QED
    BY <2>4, <2>5, <2>6 DEF PortalInv
<1>7. ASSUME NEW c \in Calls, NEW s \in psession, NEW p \in Secrets, NEW n \in Secrets,
             PortalChangePassword(c, s, p, n)
      PROVE  PortalInv' /\ AddressStays
  <2>1. PICK q : q = [op |-> "password", user |-> s.user, pw |-> n]
    OBVIOUS
  <2>2. q.op = "password" /\ q.user = s.user /\ q.pw = n /\ s.user \in Subscribers
    BY <1>0, <2>1 DEF PortalSessionsHeld
  <2>3. CallOK(q) /\ PortalBegin(c, q) /\ UNCHANGED <<subscriber, account, psession, link, gone>>
    BY <1>7, <2>1, <2>2 DEF CallOK, PortalChangePassword
  <2> QED
    BY <1>1, <2>3
<1>8. ASSUME NEW u \in Subscribers, NEW v \in AccountRows, account[u] # NoValue, v.email = account[u].email,
             account' = [account EXCEPT ![u] = v], UNCHANGED <<subscriber, link, gone>>,
             psession' \subseteq psession
      PROVE  /\ AccountsHeld' /\ AddressStays /\ IdsStay /\ PortalSessionsHeld' /\ LinksHeld'
             /\ account'[u] # NoValue
  <2>1. u \in subscriber
    BY <1>0, <1>8 DEF AccountsHeld
  <2>2. /\ AccountsHeld' /\ AddressStays /\ IdsStay /\ account'[u] # NoValue
        /\ \A w \in Subscribers : account[w] # NoValue => account'[w] # NoValue
    BY <1>0, <1>8, <2>1, AccountPut
  <2> QED
    BY <1>0, <1>8, <2>2 DEF PortalSessionsHeld, LinksHeld
<1>9. ASSUME NEW c \in Calls, SetUserAccountPassword(c) PROVE PortalInv' /\ AddressStays
  <2>1. PICK u, p : u = preq[c].user /\ p = preq[c].pw
    OBVIOUS
  <2>2. /\ preq[c].op = "password" /\ PortalEnd(c) /\ psession' \subseteq psession
        /\ account' = IF account[u] = NoValue THEN account ELSE [account EXCEPT ![u].pw = p]
        /\ UNCHANGED <<subscriber, link, gone>>
    BY <1>9, <2>1 DEF SetUserAccountPassword
  <2>3. u \in Subscribers /\ p \in Secrets
    BY <1>0, <2>1, <2>2 DEF CallsHeld, CallOK
  <2>4. AccountsHeld' /\ AddressStays /\ IdsStay /\ PortalSessionsHeld' /\ LinksHeld'
    <3>1. CASE account[u] = NoValue
      BY <2>2, <3>1, PortalQuiet
    <3>2. CASE account[u] # NoValue
      <4>1. PICK v \in AccountRows : v = account[u]
        BY <1>0, <2>3, <3>2 DEF AccountsHeld
      <4>2. PICK w : w = [v EXCEPT !.pw = p]
        OBVIOUS
      <4>3. w \in AccountRows /\ w.email = v.email
        BY <2>3, <4>2 DEF AccountRows
      <4>4. account' = [account EXCEPT ![u] = w]
        BY <2>2, <3>2, <4>1, <4>2
      <4> QED
        BY <1>8, <2>2, <2>3, <3>2, <4>1, <4>3, <4>4
    <3> QED
      BY <3>1, <3>2
  <2>5. CallsHeld'
    BY <1>0, <2>2, <2>4, CallsEnded
  <2> QED
    BY <2>4, <2>5 DEF PortalInv
<1>10. ASSUME NEW c \in Calls, NEW t \in Ptokens, NEW e \in Addresses \cup {NoValue}, NEW p \in Secrets,
              PortalClaim(c, t, e, p)
       PROVE  PortalInv' /\ AddressStays
  <2>1. PICK q : q = [op |-> "claim", token |-> t, user |-> link[t], email |-> e, pw |-> p,
                      creates |-> account[link[t]] = NoValue]
    OBVIOUS
  <2>2. /\ q.op = "claim" /\ q.token = t /\ q.user = link[t] /\ q.email = e /\ q.pw = p
        /\ q.creates \in BOOLEAN /\ (q.creates => account[link[t]] = NoValue)
    BY <2>1
  <2>3. /\ link[t] \in Subscribers /\ (account[link[t]] = NoValue => e \in Addresses)
        /\ PortalBegin(c, q) /\ UNCHANGED <<subscriber, account, psession, link, gone>>
    BY <1>0, <1>10, <2>1 DEF PortalClaim, LinksHeld
  <2>4. CallOK(q)
    BY <2>2, <2>3 DEF CallOK
  <2> QED
    BY <1>1, <2>3, <2>4
<1>11. ASSUME NEW c \in Calls, FinishClaim(c) PROVE PortalInv' /\ AddressStays
  <2>1. PICK q : q = preq[c]
    OBVIOUS
  <2>2. q.op = "claim" /\ UNCHANGED <<subscriber, gone>>
    BY <1>11, <2>1 DEF FinishClaim
  <2>3. /\ q.user \in Subscribers /\ q.pw \in Secrets /\ q.creates \in BOOLEAN
        /\ q.creates => q.email \in Addresses
    BY <1>0, <2>1, <2>2 DEF CallsHeld, CallOK
  <2>4. CASE PortalEnd(c) /\ UNCHANGED <<account, link, psession>>
    <3>1. AccountsHeld' /\ AddressStays /\ IdsStay /\ PortalSessionsHeld' /\ LinksHeld'
      BY <2>2, <2>4, PortalQuiet
    <3>2. CallsHeld'
      BY <1>0, <2>4, <3>1, CallsEnded
    <3> QED
      BY <3>1, <3>2 DEF PortalInv
  <2>5. CASE /\ ClaimWrites(q)
             /\ account' = [account EXCEPT ![q.user] = ClaimedAccount(q)]
             /\ link' = [link EXCEPT ![q.token] = NoValue]
             /\ psession' = {s \in psession : s.user # q.user}
             /\ PortalBegin(c, [op |-> "session", user |-> q.user])
    <3>1. PICK v : v = ClaimedAccount(q)
      OBVIOUS
    <3>2. /\ v \in AccountRows /\ q.user \in subscriber
          /\ \/ account[q.user] # NoValue /\ v.email = account[q.user].email
             \/ account[q.user] = NoValue /\ UserAccountByEmail(v.email) = {}
      <4>1. CASE q.creates
        <5>1. v = NewAccount(q.email, q.pw) /\ CanCreateAccount(q.user, q.email)
          BY <2>5, <3>1, <4>1 DEF ClaimedAccount, ClaimWrites
        <5>2. v \in AccountRows /\ v.email = q.email
          BY <2>3, <4>1, <5>1 DEF NewAccount, AccountRows
        <5> QED
          BY <5>1, <5>2 DEF CanCreateAccount
      <4>2. CASE ~ q.creates
        <5>1. account[q.user] # NoValue /\ v = [account[q.user] EXCEPT !.pw = q.pw]
          BY <2>5, <3>1, <4>2 DEF ClaimedAccount, ClaimWrites
        <5>2. PICK w \in AccountRows : w = account[q.user]
          BY <1>0, <2>3, <5>1 DEF AccountsHeld
        <5>3. v = [w EXCEPT !.pw = q.pw]
          BY <5>1, <5>2
        <5>4. v \in AccountRows /\ v.email = w.email
          BY <2>3, <5>3 DEF AccountRows
        <5> QED
          BY <1>0, <2>3, <5>1, <5>2, <5>4 DEF AccountsHeld
      <4> QED
        BY <4>1, <4>2
    <3>3. account' = [account EXCEPT ![q.user] = v]
      BY <2>5, <3>1
    <3>4. /\ AccountsHeld' /\ AddressStays /\ IdsStay /\ account'[q.user] # NoValue
          /\ \A w \in Subscribers : account[w] # NoValue => account'[w] # NoValue
      BY <1>0, <2>2, <2>3, <3>2, <3>3, AccountPut
    <3>5. PortalSessionsHeld' /\ LinksHeld'
      BY <1>0, <2>2, <2>5, <3>4 DEF PortalSessionsHeld, LinksHeld
    <3>6. PICK n : n = [op |-> "session", user |-> q.user]
      OBVIOUS
    <3>7. n.op = "session" /\ n.user = q.user
      BY <3>6
    <3>8. CallOK(n)' /\ PortalBegin(c, n)
      BY <2>2, <2>3, <2>5, <3>2, <3>4, <3>6, <3>7 DEF CallOK
    <3>9. CallsHeld'
      BY <1>0, <3>4, <3>8, CallsMoved
    <3> QED
      BY <3>4, <3>5, <3>9 DEF PortalInv
  <2> QED
    BY <1>11, <2>1, <2>4, <2>5 DEF FinishClaim
<1>12. ASSUME UNCHANGED <<subscriber, account, gone, preq>>, psession' \subseteq psession, LinksHeld'
       PROVE  PortalInv' /\ AddressStays
  <2>1. AccountsHeld' /\ AddressStays /\ IdsStay /\ PortalSessionsHeld'
    BY <1>12, PortalQuiet
  <2>2. CallsHeld'
    BY <1>0, <1>12, <2>1, CallsEnded
  <2> QED
    BY <1>12, <2>1, <2>2 DEF PortalInv
<1>13. ASSUME NEW s \in psession, PortalLogout(s) PROVE PortalInv' /\ AddressStays
  <2>1. UNCHANGED <<subscriber, account, gone, preq, link>> /\ psession' \subseteq psession
    BY <1>13 DEF PortalLogout
  <2>2. LinksHeld'
    BY <1>0, <2>1 DEF LinksHeld
  <2> QED
    BY <1>12, <2>1, <2>2
<1>14. ASSUME NEW u \in Subscribers, IssuePortalLink(u) PROVE PortalInv' /\ AddressStays
  <2>1. /\ u \in subscriber /\ link' = [link EXCEPT ![ptoken'] = u]
        /\ UNCHANGED <<subscriber, account, gone, preq, psession>>
    BY <1>14 DEF IssuePortalLink
  <2>2. LinksHeld'
    BY <1>0, <2>1 DEF LinksHeld
  <2> QED
    BY <1>12, <2>1, <2>2
<1>15. ASSUME NEW u \in Subscribers, DeleteSubscriber(u) PROVE PortalInv' /\ AddressStays
  <2>1. /\ subscriber' = subscriber \ {u} /\ gone' = gone \cup {u}
        /\ account' = [account EXCEPT ![u] = NoValue] /\ psession' = {s \in psession : s.user # u}
        /\ link' = [t \in Ptokens |-> IF link[t] = u THEN NoValue ELSE link[t]]
        /\ preq' = preq
    BY <1>15 DEF DeleteSubscriber
  <2>2. /\ account' \in [Subscribers -> AccountRows \cup {NoValue}] /\ account'[u] = NoValue
        /\ \A w \in Subscribers : w # u => account'[w] = account[w]
    BY <1>0, <2>1 DEF AccountsHeld
  <2>3. AccountsHeld' /\ AddressStays /\ IdsStay
    BY <1>0, <2>1, <2>2 DEF AccountsHeld, AddressStays, IdsStay
  <2>4. PortalSessionsHeld'
    BY <1>0, <2>1, <2>2 DEF PortalSessionsHeld
  <2>5. LinksHeld'
    BY <1>0, <2>1 DEF LinksHeld
  <2>6. CallsHeld'
    BY <1>0, <2>1, <2>3, CallsEnded
  <2> QED
    BY <2>3, <2>4, <2>5, <2>6 DEF PortalInv
<1>16. ASSUME NEW u \in Subscribers, NEW d \in BOOLEAN, SetPortalAccess(u, d) PROVE PortalInv' /\ AddressStays
  <2>1. /\ account[u] # NoValue /\ account' = [account EXCEPT ![u].disabled = d]
        /\ psession' \subseteq psession /\ UNCHANGED <<subscriber, link, preq, gone>>
    BY <1>16 DEF SetPortalAccess
  <2>2. PICK v \in AccountRows : v = account[u]
    BY <1>0, <2>1 DEF AccountsHeld
  <2>3. PICK w : w = [v EXCEPT !.disabled = d]
    OBVIOUS
  <2>4. w \in AccountRows /\ w.email = v.email
    BY <2>3 DEF AccountRows
  <2>5. account' = [account EXCEPT ![u] = w]
    BY <2>1, <2>2, <2>3
  <2>6. AccountsHeld' /\ AddressStays /\ IdsStay /\ PortalSessionsHeld' /\ LinksHeld'
    BY <1>8, <2>1, <2>2, <2>4, <2>5
  <2>7. CallsHeld'
    BY <1>0, <2>1, <2>6, CallsEnded
  <2> QED
    BY <2>6, <2>7 DEF PortalInv
<1>17. CASE PortalExpiry
  <2>1. UNCHANGED <<subscriber, account, preq, gone>> /\ psession' \subseteq psession
    BY <1>17 DEF PortalExpiry
  <2>2. LinksHeld'
    BY <1>0, <1>17 DEF PortalExpiry, LinksHeld
  <2> QED
    BY <1>12, <2>1, <2>2
<1>18. CASE UNCHANGED pvars
  <2>1. UNCHANGED <<subscriber, account, gone, preq, link, psession>>
    BY <1>18 DEF pvars
  <2>2. LinksHeld'
    BY <1>0, <2>1 DEF LinksHeld
  <2> QED
    BY <1>12, <2>1, <2>2
<1> QED
  BY <1>2, <1>3, <1>4, <1>5, <1>6, <1>7, <1>9, <1>10, <1>11, <1>13, <1>14, <1>15, <1>16, <1>17, <1>18
     DEF PortalNext

\* A portal nobody has used.
LEMMA PortalInvInit == PortalInit => PortalInv
<1> SUFFICES ASSUME PortalInit PROVE PortalInv
  OBVIOUS
<1>1. AccountsHeld /\ PortalSessionsHeld /\ LinksHeld
  BY DEF PortalInit, AccountsHeld, PortalSessionsHeld, LinksHeld
<1>2. CallsHeld
  BY WaitingOK DEF PortalInit, CallsHeld
<1> QED
  BY <1>1, <1>2 DEF PortalInv

\* The address of an account stays what it was first set to, and belongs to one account.
\* portalClaim, portalRegister and createSubscriber (api/portal_auth.go), for every
\* interleaving of claims and registrations.
THEOREM AddressesStay == PortalSpec => AddressNeverMoves
<1> DEFINE Moves ==
      /\ \A u \in Subscribers :
            account[u] # NoValue /\ u \in subscriber' =>
                account'[u] # NoValue /\ account'[u].email = account[u].email
      /\ \A u, v \in Subscribers :
            u # v /\ account'[u] # NoValue /\ account'[v] # NoValue =>
                account'[u].email # account'[v].email
<1>1. PortalInv /\ [PortalNext]_pvars => [Moves]_pvars
  <2> SUFFICES ASSUME PortalInv, [PortalNext]_pvars PROVE Moves
    OBVIOUS
  <2>1. PortalInv' /\ AddressStays
    BY PortalInvStep
  <2> QED
    BY <2>1 DEF PortalInv, AccountsHeld, AddressStays
<1>2. PortalInv /\ [PortalNext]_pvars => PortalInv'
  BY PortalInvStep
<1> HIDE DEF Moves
<1>3. PortalSpec => [][Moves]_pvars
  BY <1>1, <1>2, PortalInvInit, PTL DEF PortalSpec
<1> QED
  BY <1>3 DEF Moves, AddressNeverMoves

\* Every row has its owner: what refers to an admin, a subscriber or a node that was
\* deleted went with it, also when a request in flight wrote after the deletion
\* (store/auth.go, store/portal.go, store/store.go: ON DELETE CASCADE, and the handlers).
\* The streams of nodes say Hello before a deletion closes their session.
THEOREM OwnersExist ==
    ASSUME PromptHello = TRUE
    PROVE  AdminSpec /\ PortalSpec /\ EnrolmentSpec => []RowsHaveOwners
<1>1. AdminSpec => []AdminTypeOK
  BY AdminInvInit, AdminInvStep, AdminInvGives, PTL DEF AdminSpec
<1>2. PortalSpec => []PortalTypeOK
  <2>1. PortalInv => PortalTypeOK
    <3> SUFFICES ASSUME PortalInv PROVE PortalTypeOK
      OBVIOUS
    <3>1. \A v \in AccountRows : v.email \in Addresses /\ v.pw \in Secrets
      BY DEF AccountRows
    <3> QED
      BY <3>1 DEF PortalInv, AccountsHeld, PortalSessionsHeld, LinksHeld, PortalTypeOK
  <2>2. PortalInv /\ [PortalNext]_pvars => PortalInv'
    BY PortalInvStep
  <2> QED
    BY <2>1, <2>2, PortalInvInit, PTL DEF PortalSpec
<1>3. EnrolmentSpec => []SessionsHaveNodes
  <2>1. JoinTokenOnce /\ (PromptHello => SessionsHaveNodes) => SessionsHaveNodes
    OBVIOUS
  <2> QED
    BY <2>1, NodesEnrolOnce, PTL
<1>4. AdminTypeOK /\ PortalTypeOK /\ SessionsHaveNodes => RowsHaveOwners
  BY DEF RowsHaveOwners
<1> QED
  BY <1>1, <1>2, <1>3, <1>4, PTL
=============================================================================
