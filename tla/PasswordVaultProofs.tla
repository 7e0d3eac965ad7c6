-------------------------- MODULE PasswordVaultProofs --------------------------
(***************************************************************************)
(* Theorems of PasswordVault, for every set of rows, passwords and keys.   *)
(***************************************************************************)
EXTENDS PasswordVault, FiniteSetTheorems, TLAPS

USE VaultAssumption

\* A migration or an open store has one of the keys the starts were configured with, and
\* rows are to be migrated only while the migration runs.
KeyInv ==
    /\ store \in {"migrating", "open"} => key \in configured
    /\ store # "migrating" => todo = {}

\* What the row-by-row migration has established so far, whatever crashes came before:
\* each row it has passed is encrypted and read by its key.  An open store has passed all.
PassedInv ==
    store \in {"migrating", "open"} =>
        \A i \in Rows \ todo :
            /\ column[i].form # "plain"
            /\ i \notin forged => Readable(column[i], key)

\* Where the values that a start may fail on come from.
OriginInv ==
    /\ IsFiniteSet(configured)
    /\ \A i \in Ids : column[i].form = "cipher" => column[i].key \in configured
    /\ \A i \in Ids : column[i].form = "forged" => i \in forged

------------------------------------------------------------------------------
(* Values and the cipher *)

LEMMA Forms ==
    /\ \A s : Plain(s).form = "plain"
    /\ \A s, k : Cipher(s, k).form = "cipher" /\ Cipher(s, k).key = k
    /\ Forged.form = "forged" /\ Null.form = "null" /\ NoRow.form = "no row"
  BY DEF Plain, Cipher, Forged, Null, NoRow

LEMMA CipherValue ==
    ASSUME NEW s \in Secrets, NEW k \in Keys
    PROVE  Cipher(s, k) \in Values \ {NoRow}
  BY Forms DEF Values, Cipher

LEMMA GivenForms ==
    ASSUME NEW v \in Given
    PROVE  /\ v \in Values /\ v # NoRow
           /\ v = Forged \/ v = Null \/ \E s \in Secrets : v = Plain(s)
           /\ v.form \in {"plain", "forged", "null"}
  <1>1. v = Forged \/ v = Null \/ \E s \in Secrets : v = Plain(s)
    BY DEF Given
  <1> QED
    BY <1>1, Forms DEF Values

\* The form of a value tells which value it is.
LEMMA ValueForms ==
    ASSUME NEW v \in Values
    PROVE  \/ v.form = "plain" /\ \E s \in Secrets : v = Plain(s)
           \/ v.form = "cipher"
           \/ v.form = "forged" /\ v = Forged
           \/ v.form = "null" /\ v = Null
           \/ v.form = "no row" /\ v = NoRow
  <1>1. CASE v \in Given
    BY <1>1, GivenForms, Forms
  <1>2. CASE v \in [form : {"cipher"}, text : Secrets, key : Keys]
    BY <1>2
  <1>3. CASE v = NoRow
    BY <1>3, Forms
  <1> QED
    BY <1>1, <1>2, <1>3 DEF Values

\* encrypt() gives a value that is no plaintext, and that its key reads unless the
\* password was forged.
LEMMA EncryptedValue ==
    ASSUME NEW v \in Values \ {NoRow}, NEW k \in Keys
    PROVE  LET e == Encrypt(v, k) IN
           /\ e \in Values \ {NoRow}
           /\ e.form \in {"cipher", "forged", "null"}
           /\ v.form \in {"plain", "null"} => Readable(e, k)
           /\ e.form = "forged" => v = Forged
           /\ e.form = "cipher" => e.key = k \/ e = v
           /\ v.form = "plain" => e.form = "cipher" /\ e.key = k
  <1>1. CASE v.form = "plain"
    <2>1. PICK s \in Secrets : v = Plain(s)
      BY <1>1, ValueForms, Forms
    <2>2. Encrypt(v, k) = Cipher(s, k)
      BY <2>1 DEF Encrypt, Plain
    <2>3. /\ Cipher(s, k).form = "cipher" /\ Cipher(s, k).key = k
          /\ Cipher(s, k) \in Values \ {NoRow}
      BY Forms, CipherValue
    <2> QED
      BY <1>1, <2>2, <2>3 DEF Readable
  <1>2. CASE v.form # "plain"
    <2>1. Encrypt(v, k) = v
      BY <1>2 DEF Encrypt
    <2> QED
      BY <1>2, <2>1, ValueForms DEF Readable
  <1> QED
    BY <1>1, <1>2

------------------------------------------------------------------------------
(* Type correctness, with the place where the key and the rows to do come from *)

\* Every variable keeps its type, and the key in use is a configured one.
THEOREM TypeCorrect == Spec => [](TypeOK /\ KeyInv)
  <1>1. Init => TypeOK /\ KeyInv
    <2> SUFFICES ASSUME Init PROVE TypeOK /\ KeyInv
      OBVIOUS
    <2>1. column \in [Ids -> Values]
      BY DEF Init, Values, Given
    <2>2. secret \in [Ids -> Given]
      BY DEF Init, Given
    <2> QED
      BY <2>1, <2>2 DEF Init, TypeOK, KeyInv
  <1>2. TypeOK /\ KeyInv /\ [Next]_vars => TypeOK' /\ KeyInv'
    <2> SUFFICES ASSUME TypeOK, KeyInv, [Next]_vars PROVE TypeOK' /\ KeyInv'
      OBVIOUS
    <2> USE DEF TypeOK, KeyInv, Rows
    <2>1. CASE StartWithoutKey
      BY <2>1 DEF StartWithoutKey
    <2>2. ASSUME NEW k \in Keys, Start(k) PROVE TypeOK' /\ KeyInv'
      BY <2>2 DEF Start
    <2>3. ASSUME NEW i \in Ids, Migrate(i) PROVE TypeOK' /\ KeyInv'
      <3>1. key \in Keys /\ column[i] \in Values \ {NoRow}
        BY <2>3 DEF Migrate
      <3>2. Encrypt(column[i], key) \in Values \ {NoRow}
        BY <3>1, EncryptedValue
      <3> QED
        BY <2>3, <3>2 DEF Migrate
    <2>4. ASSUME NEW i \in Ids, NEW v \in Given, Create(i, v) \/ Update(i, v)
          PROVE  TypeOK' /\ KeyInv'
      <3>1. key \in Keys
        BY <2>4 DEF Create, Update
      <3>2. Encrypt(v, key) \in Values \ {NoRow}
        BY <3>1, EncryptedValue, GivenForms
      <3> QED
        BY <2>4, <3>2 DEF Create, Update, Remember
    <2>5. ASSUME NEW i \in Ids, Delete(i) PROVE TypeOK' /\ KeyInv'
      BY <2>5 DEF Delete, Remember, Values, Given
    <2>6. CASE MigrationFails \/ OpenStore \/ Crash \/ UNCHANGED vars
      BY <2>6 DEF MigrationFails, OpenStore, Crash, vars
    <2> QED
      BY <2>1, <2>2, <2>3, <2>4, <2>5, <2>6 DEF Next
  <1> QED
    BY <1>1, <1>2, PTL DEF Spec

------------------------------------------------------------------------------
(* What an open store has to offer *)

\* Neither a crash nor another key undoes what PassedInv says: a start forgets it and
\* reads every row again.
THEOREM PassedRows == Spec => []PassedInv
  <1>1. Init => PassedInv
    BY DEF Init, PassedInv
  <1>2. TypeOK /\ KeyInv /\ PassedInv /\ [Next]_vars => PassedInv'
    <2> SUFFICES ASSUME TypeOK, KeyInv, PassedInv, [Next]_vars PROVE PassedInv'
      OBVIOUS
    <2> USE DEF TypeOK, KeyInv, Rows
    <2>1. CASE StartWithoutKey
      BY <2>1 DEF StartWithoutKey, PassedInv
    <2>2. ASSUME NEW k \in Keys, Start(k) PROVE PassedInv'
      <3>1. \A i \in Rows' \ todo' : column'[i] = Null
        BY <2>2 DEF Start
      <3> QED
        BY <3>1, Forms DEF PassedInv, Readable
    <2>3. ASSUME NEW i \in Ids, Migrate(i) PROVE PassedInv'
      <3>1. key \in Keys /\ column[i] \in Values \ {NoRow}
        BY <2>3 DEF Migrate
      <3>2. CASE NeedsMigration(column[i])
        <4>1. LET e == Encrypt(column[i], key) IN e.form # "plain" /\ Readable(e, key)
          BY <3>1, <3>2, EncryptedValue DEF NeedsMigration
        <4> QED
          BY <2>3, <3>2, <4>1 DEF Migrate, PassedInv
      <3>3. CASE ~NeedsMigration(column[i])
        BY <2>3, <3>3 DEF Migrate, PassedInv, NeedsMigration
      <3> QED
        BY <3>2, <3>3
    <2>4. ASSUME NEW i \in Ids, NEW v \in Given, Create(i, v) \/ Update(i, v)
          PROVE  PassedInv'
      <3>1. key \in Keys
        BY <2>4 DEF Create, Update
      <3>2. v \in Values \ {NoRow} /\ (v # Forged => v.form \in {"plain", "null"})
        BY GivenForms, Forms
      <3>3. LET e == Encrypt(v, key) IN e.form # "plain" /\ (v # Forged => Readable(e, key))
        BY <3>1, <3>2, EncryptedValue
      <3> QED
        BY <2>4, <3>3 DEF Create, Update, Remember, PassedInv
    <2>5. ASSUME NEW i \in Ids, Delete(i) PROVE PassedInv'
      BY <2>5, Forms DEF Delete, Remember, PassedInv
    <2>6. CASE MigrationFails \/ OpenStore \/ Crash \/ UNCHANGED vars
      BY <2>6 DEF MigrationFails, OpenStore, Crash, vars, PassedInv
    <2> QED
      BY <2>1, <2>2, <2>3, <2>4, <2>5, <2>6 DEF Next
  <1> QED
    BY <1>1, <1>2, TypeCorrect, PTL DEF Spec

\* An open store reads every row, whatever keys and crashes the starts before it saw.
THEOREM OpenReads == Spec => []OpenStoreReadsEveryRow
  <1>1. TypeOK /\ KeyInv /\ PassedInv => OpenStoreReadsEveryRow
    BY Forms DEF TypeOK, KeyInv, PassedInv, OpenStoreReadsEveryRow, Rows, Readable
  <1> QED
    BY <1>1, TypeCorrect, PassedRows, PTL

------------------------------------------------------------------------------
(* What happens to the passwords *)

\* Inductive given the key of a running migration or an open store is a configured one:
\* encrypting once gives what is allowed, and what is encrypted is not encrypted again.
THEOREM NoneLost == Spec => []PasswordsKept
  <1>1. Init => PasswordsKept
    BY DEF Init, PasswordsKept, Rows
  <1>2. TypeOK /\ KeyInv /\ PasswordsKept /\ [Next]_vars => PasswordsKept'
    <2> SUFFICES ASSUME TypeOK, KeyInv, PasswordsKept, [Next]_vars PROVE PasswordsKept'
      OBVIOUS
    <2> USE DEF TypeOK, KeyInv, Rows, PasswordsKept
    <2>1. CASE StartWithoutKey
      BY <2>1 DEF StartWithoutKey
    <2>2. ASSUME NEW k \in Keys, Start(k) PROVE PasswordsKept'
      BY <2>2 DEF Start
    <2>3. ASSUME NEW i \in Ids, Migrate(i) PROVE PasswordsKept'
      <3>1. CASE NeedsMigration(column[i])
        <4>1. key \in configured
          BY <2>3 DEF Migrate
        <4>2. ASSUME i \notin forged PROVE column[i] = secret[i]
          <5>1. ASSUME NEW k \in configured, column[i] = Encrypt(secret[i], k) PROVE FALSE
            <6>1. k \in Keys /\ secret[i] \in Values \ {NoRow}
              BY GivenForms
            <6> QED
              BY <3>1, <5>1, <6>1, EncryptedValue DEF NeedsMigration
          <5> QED
            BY <2>3, <4>2, <5>1 DEF Migrate
        <4> QED
          BY <2>3, <3>1, <4>1, <4>2 DEF Migrate
      <3>2. CASE ~NeedsMigration(column[i])
        BY <2>3, <3>2 DEF Migrate
      <3> QED
        BY <3>1, <3>2
    <2>4. ASSUME NEW i \in Ids, NEW v \in Given, Create(i, v) \/ Update(i, v)
          PROVE  PasswordsKept'
      BY <2>4 DEF Create, Update, Remember
    <2>5. ASSUME NEW i \in Ids, Delete(i) PROVE PasswordsKept'
      BY <2>5 DEF Delete, Remember
    <2>6. CASE MigrationFails \/ OpenStore \/ Crash \/ UNCHANGED vars
      BY <2>6 DEF MigrationFails, OpenStore, Crash, vars
    <2> QED
      BY <2>1, <2>2, <2>3, <2>4, <2>5, <2>6 DEF Next
  <1> QED
    BY <1>1, <1>2, TypeCorrect, PTL DEF Spec

\* A value that its own start cannot read was written under the key of another start, or
\* given with the prefix.
THEOREM Origins == Spec => []OriginInv
  <1>1. Init => OriginInv
    <2> SUFFICES ASSUME Init PROVE OriginInv
      OBVIOUS
    <2>1. ASSUME NEW i \in Ids PROVE column[i].form \notin {"cipher", "forged"}
      <3>1. column[i] \in {Plain(s) : s \in Secrets} \/ column[i] \in {Null, NoRow}
        BY DEF Init
      <3> QED
        BY <3>1, Forms
    <2> QED
      BY <2>1, FS_EmptySet DEF Init, OriginInv
  <1>2. TypeOK /\ KeyInv /\ OriginInv /\ [Next]_vars => OriginInv'
    <2> SUFFICES ASSUME TypeOK, KeyInv, OriginInv, [Next]_vars PROVE OriginInv'
      OBVIOUS
    <2> USE DEF TypeOK, KeyInv, Rows, OriginInv
    <2>1. CASE StartWithoutKey
      BY <2>1 DEF StartWithoutKey
    <2>2. ASSUME NEW k \in Keys, Start(k) PROVE OriginInv'
      BY <2>2, FS_AddElement DEF Start
    <2>3. ASSUME NEW i \in Ids, Migrate(i) PROVE OriginInv'
      <3>1. key \in Keys /\ key \in configured /\ column[i] \in Values \ {NoRow}
        BY <2>3 DEF Migrate
      <3>2. CASE NeedsMigration(column[i])
        <4>1. LET e == Encrypt(column[i], key) IN e.form = "cipher" /\ e.key = key
          BY <3>1, <3>2, EncryptedValue DEF NeedsMigration
        <4> QED
          BY <2>3, <3>1, <3>2, <4>1 DEF Migrate
      <3>3. CASE ~NeedsMigration(column[i])
        BY <2>3, <3>3 DEF Migrate
      <3> QED
        BY <3>2, <3>3
    <2>4. ASSUME NEW i \in Ids, NEW v \in Given, Create(i, v) \/ Update(i, v)
          PROVE  OriginInv'
      <3>1. key \in Keys /\ key \in configured
        BY <2>4 DEF Create, Update
      <3>2. LET e == Encrypt(v, key) IN
            (e.form = "cipher" => e.key = key) /\ (e.form = "forged" => v = Forged)
        BY <3>1, EncryptedValue, GivenForms
      <3> QED
        BY <2>4, <3>1, <3>2 DEF Create, Update, Remember
    <2>5. ASSUME NEW i \in Ids, Delete(i) PROVE OriginInv'
      BY <2>5, Forms DEF Delete, Remember
    <2>6. CASE MigrationFails \/ OpenStore \/ Crash \/ UNCHANGED vars
      BY <2>6 DEF MigrationFails, OpenStore, Crash, vars
    <2> QED
      BY <2>1, <2>2, <2>3, <2>4, <2>5, <2>6 DEF Next
  <1> QED
    BY <1>1, <1>2, TypeCorrect, PTL DEF Spec

\* Once the store is open, the passwords at rest in plaintext are those given with the
\* prefix: every other value was migrated or passed over, and a value with the prefix that
\* is no encrypted one was given so.
THEOREM NothingPlain == Spec => []NoneInPlaintext
  <1>1. PassedInv /\ KeyInv /\ OriginInv => NoneInPlaintext
    <2> SUFFICES ASSUME PassedInv, KeyInv, OriginInv, store = "open",
                        NEW i \in Rows \ forged
                 PROVE  ~InPlaintext(column[i])
      BY DEF NoneInPlaintext
    <2>1. todo = {}
      BY DEF KeyInv
    <2>2. column[i].form # "plain"
      BY <2>1 DEF PassedInv
    <2>3. column[i].form # "forged"
      BY DEF OriginInv, Rows
    <2> QED
      BY <2>2, <2>3 DEF InPlaintext
  <1> QED
    BY <1>1, TypeCorrect, PassedRows, Origins, PTL

LEMMA TwoElements ==
    ASSUME NEW a, NEW b, a # b
    PROVE  Cardinality({a, b}) = 2
  <1>1. IsFiniteSet({a}) /\ Cardinality({a}) = 1
    BY FS_Singleton
  <1>2. Cardinality({a} \union {b}) = IF b \in {a} THEN Cardinality({a}) ELSE Cardinality({a}) + 1
    BY <1>1, FS_AddElement
  <1>3. {a, b} = {a} \union {b}
    OBVIOUS
  <1> QED
    BY <1>1, <1>2, <1>3

\* With one key for all the starts the store is never closed for what an earlier start
\* left behind.
THEOREM SameKey == Spec => []SameKeyReopens
  <1>1. Init => SameKeyReopens
    BY DEF Init, SameKeyReopens
  <1>2. TypeOK /\ KeyInv /\ OriginInv /\ SameKeyReopens /\ [Next]_vars => SameKeyReopens'
    <2> SUFFICES ASSUME TypeOK, KeyInv, OriginInv, SameKeyReopens, [Next]_vars
                 PROVE  SameKeyReopens'
      OBVIOUS
    <2> USE DEF SameKeyReopens
    <2>1. ASSUME NEW i \in Ids, Migrate(i) PROVE SameKeyReopens'
      <3> SUFFICES ASSUME store' = "closed", forged = {} PROVE Cardinality(configured) > 1
        BY <2>1 DEF Migrate
      <3>1. /\ key \in configured
            /\ column[i] \in Values
            /\ ~NeedsMigration(column[i]) /\ ~Readable(column[i], key)
        BY <2>1 DEF Migrate, TypeOK, KeyInv
      <3>2. column[i].form = "cipher" /\ column[i].key # key
        BY <3>1, ValueForms DEF NeedsMigration, Readable, OriginInv
      <3>3. column[i].key \in configured
        BY <3>2 DEF OriginInv
      <3>4. Cardinality({key, column[i].key}) = 2
        BY <3>2, TwoElements
      <3>5. Cardinality({key, column[i].key}) <= Cardinality(configured)
        BY <3>1, <3>3, FS_Subset DEF OriginInv
      <3> QED
        BY <3>4, <3>5, FS_CardinalityType DEF OriginInv
    <2>2. ASSUME NEW i \in Ids, NEW v \in Given, Create(i, v) \/ Update(i, v)
          PROVE  SameKeyReopens'
      BY <2>2 DEF Create, Update
    <2>3. ASSUME NEW k \in Keys, Start(k) PROVE SameKeyReopens'
      BY <2>3 DEF Start
    <2>4. ASSUME NEW i \in Ids, Delete(i) PROVE SameKeyReopens'
      BY <2>4 DEF Delete
    <2>5. CASE StartWithoutKey \/ MigrationFails \/ OpenStore \/ Crash \/ UNCHANGED vars
      BY <2>5 DEF StartWithoutKey, MigrationFails, OpenStore, Crash, vars
    <2> QED
      BY <2>1, <2>2, <2>3, <2>4, <2>5 DEF Next
  <1> QED
    BY <1>1, <1>2, TypeCorrect, Origins, PTL DEF Spec
==============================================================================
