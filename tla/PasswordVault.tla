----------------------------- MODULE PasswordVault -----------------------------
(***************************************************************************)
(* The column pg_password of server_connections: PasswordCipher            *)
(* (serverconf/secrets.py), the statements of ConnectionRepository that    *)
(* read or write the column, and the migration of plaintext passwords that *)
(* http_server.build() runs row by row at every start, with whatever key   *)
(* the environment holds then.  The rest of the row is ConnectionStore's.  *)
(***************************************************************************)
EXTENDS Naturals, FiniteSets

CONSTANTS
    Ids,        \* ids of rows
    Secrets,    \* passwords that do not start with the prefix
    Keys,       \* well-formed values of PROFILE_ENCRYPTION_KEY
    NoKey       \* the variable is unset or malformed

ASSUME VaultAssumption == NoKey \notin Keys

VARIABLES
    column,     \* pg_password of each row
    store,      \* where the process is: build() and then the handlers
    key,        \* the key it started with
    todo,       \* rows the running migration has read and not come to
    (* history *)
    secret,     \* the password last given for a row
    forged,     \* rows given a password that starts with the prefix
    configured, \* the keys of all the starts
    failed      \* a statement of the running or last start's migration failed

vars == <<column, store, key, todo, secret, forged, configured, failed>>

\* "enc:v1:" is part of the value, so it alone decides what a value is taken for.
Plain(s) == [form |-> "plain", text |-> s]
Cipher(s, k) == [form |-> "cipher", text |-> s, key |-> k]
Forged == [form |-> "forged"]       \* starts with the prefix, decrypted by no key
Null == [form |-> "null"]
NoRow == [form |-> "no row"]

Given == {Plain(s) : s \in Secrets} \union {Forged, Null}
Values == Given \union [form : {"cipher"}, text : Secrets, key : Keys] \union {NoRow}

Rows == {i \in Ids : column[i] # NoRow}

TypeOK ==
    /\ column \in [Ids -> Values]
    /\ store \in {"down", "migrating", "open", "closed"}
    /\ key \in Keys \union {NoKey}
    /\ todo \subseteq Rows
    /\ secret \in [Ids -> Given]
    /\ forged \subseteq Ids
    /\ configured \subseteq Keys
    /\ failed \in BOOLEAN

\* A deployment of before the cipher: some rows, with passwords as they were given.
Init ==
    /\ column \in [Ids -> {Plain(s) : s \in Secrets} \union {Null, NoRow}]
    /\ store = "down"
    /\ key = NoKey
    /\ todo = {}
    /\ secret = [i \in Ids |-> IF column[i] = NoRow THEN Null ELSE column[i]]
    /\ forged = {}
    /\ configured = {}
    /\ failed = FALSE

------------------------------------------------------------------------------
(* PasswordCipher *)

\* Variant: None is encrypted like a password.
EncryptNone(v, k) ==
    IF v = Null THEN Cipher("None", k) ELSE IF v.form = "plain" THEN Cipher(v.text, k) ELSE v

\* A value with the prefix is taken for one that is encrypted already.
Encrypt(v, k) == IF v.form = "plain" THEN Cipher(v.text, k) ELSE v

\* decrypt() does not raise.
Readable(v, k) ==
    v.form \in {"null", "plain", "no row"} \/ (v.form = "cipher" /\ v.key = k)

NeedsMigration(v) == v.form = "plain"

------------------------------------------------------------------------------
(* build() *)

\* Variant: without a key the process makes one up.
StartWithoutKeyMakesOne ==
    /\ store = "down"
    /\ key' \in Keys
    /\ todo' = {i \in Rows : column[i] # Null}
    /\ store' = "migrating"
    /\ failed' = FALSE
    /\ UNCHANGED <<column, secret, forged, configured>>

StartWithoutKey ==
    /\ store = "down"
    /\ key' = NoKey
    /\ store' = "closed"
    /\ failed' = FALSE
    /\ UNCHANGED <<column, todo, secret, forged, configured>>

\* SELECT ... WHERE pg_password IS NOT NULL
Start(k) ==
    /\ store = "down"
    /\ key' = k
    /\ todo' = {i \in Rows : column[i] # Null}
    /\ store' = "migrating"
    /\ configured' = configured \union {k}
    /\ failed' = FALSE
    /\ UNCHANGED <<column, secret, forged>>

\* Variant: rows that are encrypted already are passed over.
MigrateUnchecked(i) ==
    /\ store = "migrating"
    /\ i \in todo
    /\ column' = [column EXCEPT ![i] = Encrypt(@, key)]
    /\ todo' = todo \ {i}
    /\ UNCHANGED <<store, key, secret, forged, configured, failed>>

\* One row: rotate it, or show that the key reads it, or give the store up.
Migrate(i) ==
    /\ store = "migrating"
    /\ i \in todo
    /\ \/ /\ NeedsMigration(column[i])
          /\ column' = [column EXCEPT ![i] = Encrypt(@, key)]
          /\ todo' = todo \ {i}
          /\ UNCHANGED store
       \/ /\ ~NeedsMigration(column[i]) /\ Readable(column[i], key)
          /\ todo' = todo \ {i}
          /\ UNCHANGED <<column, store>>
       \/ /\ ~NeedsMigration(column[i]) /\ ~Readable(column[i], key)
          /\ todo' = {}
          /\ store' = "closed"
          /\ UNCHANGED column
    /\ UNCHANGED <<key, secret, forged, configured, failed>>

\* A statement fails: the rows migrated so far stay so, and store = None.
MigrationFails ==
    /\ store = "migrating"
    /\ todo' = {}
    /\ store' = "closed"
    /\ failed' = TRUE
    /\ UNCHANGED <<column, key, secret, forged, configured>>

OpenStore ==
    /\ store = "migrating"
    /\ todo = {}
    /\ store' = "open"
    /\ UNCHANGED <<column, key, todo, secret, forged, configured, failed>>

\* The process ends at any moment; the next start may bring another key.
Crash ==
    /\ store # "down"
    /\ store' = "down"
    /\ todo' = {}
    /\ UNCHANGED <<column, key, secret, forged, configured, failed>>

------------------------------------------------------------------------------
(* create(), update() and delete() on the column.  validate() makes an empty password   *)
(* None; what is returned is decrypted after the statement, so a forged password is     *)
(* stored although the request ends with status 500.                                    *)

Remember(i, v) ==
    /\ secret' = [secret EXCEPT ![i] = v]
    /\ forged' = IF v = Forged THEN forged \union {i} ELSE forged \ {i}

Create(i, v) ==
    /\ store = "open"
    /\ column[i] = NoRow
    /\ column' = [column EXCEPT ![i] = Encrypt(v, key)]
    /\ Remember(i, v)
    /\ UNCHANGED <<store, key, todo, configured, failed>>

\* Variant: the statement without COALESCE.
UpdateToNull(i, v) ==
    /\ store = "open"
    /\ column[i] # NoRow
    /\ column' = [column EXCEPT ![i] = Encrypt(v, key)]
    /\ IF v = Null THEN UNCHANGED <<secret, forged>> ELSE Remember(i, v)
    /\ UNCHANGED <<store, key, todo, configured, failed>>

\* Variant: the value of the statement is not encrypted.
UpdatePlain(i, v) ==
    /\ store = "open"
    /\ column[i] # NoRow /\ v # Null
    /\ column' = [column EXCEPT ![i] = v]
    /\ Remember(i, v)
    /\ UNCHANGED <<store, key, todo, configured, failed>>

\* pg_password=COALESCE(%s, pg_password)
Update(i, v) ==
    /\ store = "open"
    /\ column[i] # NoRow
    /\ \/ v = Null /\ UNCHANGED <<column, secret, forged>>
       \/ /\ v # Null
          /\ column' = [column EXCEPT ![i] = Encrypt(v, key)]
          /\ Remember(i, v)
    /\ UNCHANGED <<store, key, todo, configured, failed>>

Delete(i) ==
    /\ store = "open"
    /\ column[i] # NoRow
    /\ column' = [column EXCEPT ![i] = NoRow]
    /\ Remember(i, Null)
    /\ UNCHANGED <<store, key, todo, configured, failed>>

Next ==
    \/ StartWithoutKey \/ \E k \in Keys : Start(k)
    \/ \E i \in Ids : Migrate(i) \/ Delete(i)
    \/ \E i \in Ids, v \in Given : Create(i, v) \/ Update(i, v)
    \/ MigrationFails \/ OpenStore \/ Crash

Spec == Init /\ [][Next]_vars

------------------------------------------------------------------------------
(* Properties *)

\* A store that is open reads every row, whatever keys and crashes the starts before it
\* saw, so no request fails on a password ("the key is verified at the start: the first
\* request must not end with 500 after store=true", repository.py:98).  A row given a
\* password with the prefix is the exception: encrypt() lets it through.
OpenStoreReadsEveryRow ==
    store = "open" => \A i \in Ids \ forged : Readable(column[i], key)

\* A value in which anyone who reads the table reads the password.
InPlaintext(v) == v.form \in {"plain", "forged"}

\* Once the store is open the passwords at rest in plaintext are those that were given with
\* the prefix, which encrypt() takes for encrypted ones and stores as they are: no other,
\* neither a migrated one nor one written since, whichever starts were cut off before
\* (migrate_plaintext_passwords, create, update).
NoneInPlaintext == store = "open" => \A i \in Rows \ forged : ~InPlaintext(column[i])

\* No password is lost or encrypted twice: each row holds the password it was last
\* given, in the open or under a key that some start was configured with, through
\* interrupted migrations, other keys and updates without a password.
PasswordsKept ==
    \A i \in Rows \ forged :
        \/ column[i] = secret[i]
        \/ \E k \in configured : column[i] = Encrypt(secret[i], k)

\* With one key for all the starts the store never stays closed for what an earlier start
\* left behind: only for a missing key, a failing statement or a forged password.  (A
\* single start with another key may rotate rows that the right key cannot read later.)
SameKeyReopens ==
    store = "closed" /\ key # NoKey /\ ~failed /\ forged = {} => Cardinality(configured) > 1
==============================================================================
