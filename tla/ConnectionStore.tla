--------------------------- MODULE ConnectionStore ---------------------------
(***************************************************************************)
(* The table server_connections and the statements that                    *)
(* serverconf/repository.py runs on it.  Connections are autocommit, so    *)
(* each statement is one atomic step; a repository method of two           *)
(* statements (activate) is two.  A row is reduced to what the switch of   *)
(* servers tells apart: its id, the server its settings point to, and      *)
(* is_active.  Actions of the modules that use the table conjoin these     *)
(* statements with the step of the handler that runs them.                 *)
(***************************************************************************)

CONSTANTS
    Ids,        \* ids the serial column can hand out (bounds the rows ever made)
    Servers,    \* what a profile's settings can point to
    NoId        \* Python's None where an id is expected

VARIABLES
    rows,       \* ids of the rows in the table
    server,     \* server[i]: where row i's settings point to
    active,     \* ids of the rows with is_active = true
    issued      \* ids the sequence has handed out; it never hands one out twice

ASSUME NoIdAssumption == NoId \notin Ids

tableVars == <<rows, server, active, issued>>

TableTypeOK ==
    /\ rows \in SUBSET Ids
    /\ server \in [Ids -> Servers]
    /\ active \in SUBSET rows
    /\ issued \in SUBSET Ids
    /\ rows \subseteq issued

\* An empty table: where server points to before a row exists does not matter.
TableInit ==
    /\ rows = {}
    /\ server = [i \in Ids |-> CHOOSE s \in Servers : TRUE]
    /\ active = {}
    /\ issued = {}

\* Variant: the id is written by hand and the sequence is not advanced.
InsertRowById(i, s) ==
    /\ i \in Ids \ issued
    /\ rows' = rows \union {i}
    /\ server' = [server EXCEPT ![i] = s]
    /\ UNCHANGED <<active, issued>>

\* INSERT ... RETURNING: is_active takes its default, false.
InsertRow(i, s) ==
    /\ i \in Ids \ issued
    /\ rows' = rows \union {i}
    /\ server' = [server EXCEPT ![i] = s]
    /\ issued' = issued \union {i}
    /\ UNCHANGED active

\* UPDATE ... WHERE id: every column a client may edit, never is_active.
UpdateRow(i, s) ==
    /\ i \in rows
    /\ server' = [server EXCEPT ![i] = s]
    /\ UNCHANGED <<rows, active, issued>>

\* DELETE ... WHERE id: no row matched leaves the table alone.
DeleteRow(i) ==
    /\ rows' = rows \ {i}
    /\ active' = active \ {i}
    /\ UNCHANGED <<server, issued>>

\* activate(), first statement: UPDATE ... false WHERE is_active AND id <> i.
DeactivateOthers(i) ==
    /\ active' = active \intersect {i}
    /\ UNCHANGED <<rows, server, issued>>

\* Variant: the schema without the index.
IndexAbsent(i) == i \in Ids

\* The partial unique index on (is_active) WHERE is_active refuses a second one.
IndexAllows(i) == active \subseteq {i}

\* activate(), second statement: UPDATE ... true WHERE id = i.
SetActive(i) ==
    /\ i \in rows
    /\ IndexAllows(i)
    /\ active' = active \union {i}
    /\ UNCHANGED <<rows, server, issued>>

\* deactivate_all(): UPDATE ... false WHERE is_active.
DeactivateAll ==
    /\ active' = {}
    /\ UNCHANGED <<rows, server, issued>>
==============================================================================
