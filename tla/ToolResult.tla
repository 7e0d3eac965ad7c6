------------------------------ MODULE ToolResult ------------------------------
(***************************************************************************)
(* contracts/tool.py: what a call of a tool hands to the orchestrator.     *)
(* The rows themselves are reduced to how many there are, the provenance   *)
(* and the notes to what the caller is told about how they were found.     *)
(***************************************************************************)
EXTENDS Naturals

CONSTANT MaxRows    \* bounds the rows of one result

ASSUME ResultAssumption == MaxRows \in Nat

Statuses == {"ok", "empty", "entity_not_found", "guard_rejected", "timeout", "upstream_error"}

\* "keyword_only": found without the embedding; "released": without the type filter.
Disclosures == {"keyword_only", "released"}

ToolResults == [status : Statuses, rows : 0..MaxRows, told : SUBSET Disclosures]

\* The adapters return OK with rows and EMPTY without.
Found(n, told) == [status |-> IF n > 0 THEN "ok" ELSE "empty", rows |-> n, told |-> told]

\* empty_result()
EmptyResult(status) == [status |-> status, rows |-> 0, told |-> {}]

\* No call has returned yet.
NoResult == [status |-> "none", rows |-> 0, told |-> {}]

\* What the orchestrator ranks behind everything else.
Failed(r) == r.status \notin {"ok", "empty"}
==============================================================================
