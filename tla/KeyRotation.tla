---------------------------- MODULE KeyRotation ----------------------------
(* Secrets at rest (secret/secret.go), the mode of Core that seals them again under a   *)
(* new CHIRAL_SECRET_KEY (store/rotate.go, rotateSecretKey of main.go), and the repair   *)
(* every start makes (store/repair.go).  Contents are "raw" or "clamped", the two forms  *)
(* of an x25519 scalar; other columns hold either.                                       *)
EXTENDS FiniteSets

CONSTANTS
    SealedCells,    \* values in the columns sealedColumns lists
    PublicCells,    \* variable components that are not secret
    ScalarCells,    \* the sealed cells that hold an x25519 private key
    Ciphers,        \* keys an operator may choose
    NoKey           \* CHIRAL_SECRET_KEY is not set

ASSUME KeyAssumption ==
    /\ ScalarCells \subseteq SealedCells /\ SealedCells \cap PublicCells = {}
    /\ NoKey \notin Ciphers /\ Ciphers \cap {"none", "bare", "plain"} = {}

VARIABLES
    cell,       \* the database: cell -> Blank or [seal, text, name]
    key,        \* CHIRAL_SECRET_KEY, as the operator has it
    panel,      \* "off", "repair" or "serve"
    repaired,   \* the scalars this start has looked at
    rotation,   \* the rotation under way
    target,     \* CHIRAL_SECRET_KEY_NEW until a rotation to it has reported
    meant,      \* what was last written to a cell (history)
    rotated     \* whether a rotation has reported (history)

kvars == <<cell, key, panel, repaired, rotation, target, meant, rotated>>

Cells == SealedCells \cup PublicCells
Texts == {"raw", "clamped"}
Blank == [seal |-> "none"]
NoRotation == [step |-> "none"]

-----------------------------------------------------------------------------
(* A Box: what sealing records, and who can open it *)

Enabled(k) == k # NoKey

\* Sealing binds the value to the name of its row; without a key it is only marked plain.
Seal(k, c, text) == [seal |-> IF Enabled(k) THEN k ELSE "plain", text |-> text, name |-> c]
Bare(c, text) == [seal |-> "bare", text |-> text, name |-> c]

Owns(k, v) == Enabled(k) /\ v.seal = k

\* Values in the clear open under every key, a sealed one under its own and in its own row.
Opens(k, c, v) == v.seal \in {"bare", "plain"} \/ (Owns(k, v) /\ v.name = c)

\* What reading a cell gives: a public component is not opened at all.
Reads(k, c, v) ==
    IF v = Blank THEN "nothing"
    ELSE IF c \in PublicCells THEN (IF v.seal = "bare" THEN v.text ELSE "ciphertext")
    ELSE IF Opens(k, c, v) THEN v.text ELSE "error"

\* Databases from before there were prefixes hold bare values.
KeyInit ==
    /\ cell \in [Cells -> {Blank}] \cup {[c \in Cells |-> Bare(c, "raw")]}
    /\ key \in Ciphers \cup {NoKey} /\ panel = "off" /\ repaired = {}
    /\ rotation = NoRotation /\ target = NoKey /\ rotated = FALSE
    /\ meant = [c \in Cells |-> IF cell[c] = Blank THEN "nothing" ELSE "raw"]

-----------------------------------------------------------------------------
(* The panel *)

\* rotateSecretKey "must have the database to itself", and an operator whose rotation did
\* not report runs it again before anything else: neither is enforced.
Start ==
    /\ panel = "off" /\ rotation = NoRotation /\ target = NoKey
    /\ panel' = "repair" /\ repaired' = {}
    /\ UNCHANGED <<cell, key, rotation, target, meant, rotated>>

\* RepairX25519Clamping, one UPDATE per scalar that is readable and not canonical.
RepairX25519Clamping(c) ==
    /\ panel = "repair" /\ c \in ScalarCells \ repaired
    /\ repaired' = repaired \cup {c}
    /\ IF cell[c] # Blank /\ Opens(key, c, cell[c]) /\ cell[c].text = "raw"
       THEN /\ cell' = [cell EXCEPT ![c] = Seal(key, c, "clamped")]
            /\ meant' = [meant EXCEPT ![c] = "clamped"]
       ELSE UNCHANGED <<cell, meant>>
    /\ UNCHANGED <<key, panel, rotation, target, rotated>>

Serving ==
    /\ panel = "repair" /\ repaired = ScalarCells /\ panel' = "serve"
    /\ UNCHANGED <<cell, key, repaired, rotation, target, meant, rotated>>

\* A handler stores a value: sealed, or as it is when it is public.
Write(c, text) ==
    /\ panel = "serve"
    /\ cell' = [cell EXCEPT ![c] = IF c \in PublicCells THEN Bare(c, text) ELSE Seal(key, c, text)]
    /\ meant' = [meant EXCEPT ![c] = text]
    /\ UNCHANGED <<key, panel, repaired, rotation, target, rotated>>

\* The panel is stopped, or dies: what it wrote is there.
Stop ==
    /\ panel # "off" /\ panel' = "off"
    /\ UNCHANGED <<cell, key, repaired, rotation, target, meant, rotated>>

\* A panel that ran without a key is given one.
FirstKey(k) ==
    /\ panel = "off" /\ rotation = NoRotation /\ target = NoKey /\ key = NoKey
    /\ key' = k
    /\ UNCHANGED <<cell, panel, repaired, rotation, target, meant, rotated>>

-----------------------------------------------------------------------------
(* core -rotate-secret-key *)

RotateSecretKey(next) ==
    /\ panel = "off" /\ rotation = NoRotation
    /\ next # key /\ target \in {NoKey, next}
    /\ target' = next
    /\ rotation' = [step |-> "columns", db |-> cell, todo |-> {c \in SealedCells : cell[c] # Blank}]
    /\ UNCHANGED <<cell, key, panel, repaired, meant, rotated>>

\* One value: left alone if it is under the new key already, else opened under the current
\* one and sealed again.  A value that does not open rolls everything back.
resealed(c) ==
    IF Owns(target, rotation.db[c]) THEN rotation.db
    ELSE [rotation.db EXCEPT ![c] = Seal(target, c, rotation.db[c].text)]

\* The UPDATE is one of a transaction's: the database keeps what it has.
UpdatedInPlace(db) == db
Updated(db) == cell

rotateColumn(c) ==
    /\ rotation.step = "columns" /\ c \in rotation.todo
    /\ IF Owns(target, rotation.db[c]) \/ Opens(key, c, rotation.db[c])
       THEN /\ rotation' = [rotation EXCEPT !.db = resealed(c), !.todo = @ \ {c}]
            /\ cell' = Updated(resealed(c))
       ELSE rotation' = NoRotation /\ UNCHANGED cell
    /\ UNCHANGED <<key, panel, repaired, target, meant, rotated>>

Commit ==
    /\ rotation.step = "columns" /\ rotation.todo = {}
    /\ cell' = rotation.db /\ rotation' = [step |-> "committed"]
    /\ UNCHANGED <<key, panel, repaired, target, meant, rotated>>

\* "rotation complete": the operator sets CHIRAL_SECRET_KEY to the new key.
Reported ==
    /\ rotation.step = "committed" /\ rotation' = NoRotation
    /\ key' = target /\ target' = NoKey /\ rotated' = TRUE
    /\ UNCHANGED <<cell, panel, repaired, meant>>

\* Killed at any point; an open transaction is rolled back by the next that opens the file.
RotationDies ==
    /\ rotation # NoRotation /\ rotation' = NoRotation
    /\ UNCHANGED <<cell, key, panel, repaired, target, meant, rotated>>

-----------------------------------------------------------------------------
KeyNext ==
    \/ Start \/ Serving \/ Stop \/ Commit \/ Reported \/ RotationDies
    \/ \E c \in SealedCells : RepairX25519Clamping(c) \/ rotateColumn(c)
    \/ \E c \in Cells, t \in Texts : Write(c, t)
    \/ \E k \in Ciphers : FirstKey(k) \/ RotateSecretKey(k)

KeySpec == KeyInit /\ [][KeyNext]_kvars

-----------------------------------------------------------------------------
\* "A half-rotated database is worse than either end state - ... no single value of
\* CHIRAL_SECRET_KEY would start the panel" (rotate.go): wherever a rotation, a start or a
\* write was cut off, one key of those the operator holds reads every value as it was last
\* written, the public ones included; and once a rotation has reported nothing sealed is
\* left in the clear or under another key.
OneKeyReadsAll ==
    /\ \E k \in {key, target} : \A c \in Cells : Reads(k, c, cell[c]) = meant[c]
    /\ rotated /\ target = NoKey => \A c \in SealedCells : cell[c] = Blank \/ Owns(key, cell[c])

=============================================================================
