------------------------------- MODULE SqlTool -------------------------------
(***************************************************************************)
(* nl2sql: one call of Nl2SqlTool.run (adapter.py) over SqlService.answer  *)
(* (service.py): generate, guard, semantic guard, execute, and on a        *)
(* rejected or failing statement generate again from a corrected prompt.   *)
(* A generated text is reduced to what the two guards make of it; the      *)
(* prompt to the corrections appended to it.                               *)
(***************************************************************************)
EXTENDS ToolResult, Sequences

CONSTANTS
    Texts,      \* what the model may generate
    Guarded,    \* the texts guard() accepts
    Relevant,   \* the texts semantic_guard.check() accepts
    NoText,     \* before the model has answered
    MaxRetry    \* SqlService.MAX_RETRY

ASSUME SqlAssumption ==
    /\ Guarded \subseteq Texts
    /\ Relevant \subseteq Texts
    /\ NoText \notin Texts
    /\ MaxRetry \in Nat

VARIABLES
    sqlPc,      \* the next step of the call
    attempt,    \* the loop variable
    prompt,     \* the corrections appended to the prompt so far
    text,       \* raw, then checked.sql
    sqlOut      \* what the call returned

sqlVars == <<sqlPc, attempt, prompt, text, sqlOut>>

Corrections == [sql : Texts, reason : {"guard", "semantic", "database"}]

SqlTypeOK ==
    /\ sqlPc \in {"off", "start", "generate", "vet", "execute", "done"}
    /\ attempt \in 0..MaxRetry
    /\ prompt \in Seq(Corrections)
    /\ text \in Texts \union {NoText}
    /\ sqlOut \in ToolResults \union {NoResult}

SqlInit ==
    /\ sqlPc = "off"
    /\ attempt = 0
    /\ prompt = <<>>
    /\ text = NoText
    /\ sqlOut = NoResult

\* The locals of a call that is not running.
NoSqlLocals ==
    /\ attempt' = 0
    /\ prompt' = <<>>
    /\ text' = NoText

SqlCalled == sqlPc' = "start" /\ UNCHANGED <<attempt, prompt, text, sqlOut>>

\* This question does not call the tool, or is done with its result.
SqlForgotten ==
    /\ sqlPc' = "off"
    /\ sqlOut' = NoResult
    /\ NoSqlLocals

SqlReturn(r) ==
    /\ sqlPc' = "done"
    /\ sqlOut' = r
    /\ NoSqlLocals

\* A blank question is answered EMPTY without asking the model.
BlankSql ==
    /\ sqlPc = "start"
    /\ SqlReturn(EmptyResult("empty"))

SqlStarts ==
    /\ sqlPc = "start"
    /\ sqlPc' = "generate"
    /\ UNCHANGED <<attempt, prompt, text, sqlOut>>

\* The model answers; or it times out; or it fails or sends a reply without the expected
\* field, which the service or the adapter turns into UPSTREAM_ERROR.
Generate ==
    /\ sqlPc = "generate"
    /\ \/ /\ text' \in Texts
          /\ sqlPc' = "vet"
          /\ UNCHANGED <<attempt, prompt, sqlOut>>
       \/ \E s \in {"timeout", "upstream_error"} : SqlReturn(EmptyResult(s))

\* Variant: one attempt too many.
MayRetryOnceMore == attempt <= MaxRetry

MayRetry == attempt < MaxRetry

\* Variant: while True instead of the bounded for.
RetryForever(reason) == sqlPc' = "generate" /\ UNCHANGED <<attempt, prompt, text, sqlOut>>

\* Variant: the loop goes on without append_correction().
RetrySamePrompt(reason) ==
    /\ MayRetry
    /\ attempt' = attempt + 1
    /\ sqlPc' = "generate"
    /\ UNCHANGED <<prompt, text, sqlOut>>

Retry(reason) ==
    /\ MayRetry
    /\ attempt' = attempt + 1
    /\ prompt' = Append(prompt, [sql |-> text, reason |-> reason])
    /\ sqlPc' = "generate"
    /\ UNCHANGED <<text, sqlOut>>

RetryOrReturn(reason, status) ==
    \/ Retry(reason)
    \/ ~MayRetry /\ SqlReturn(EmptyResult(status))

Vet ==
    /\ sqlPc = "vet"
    /\ \/ text \notin Guarded /\ RetryOrReturn("guard", "guard_rejected")
       \/ text \in Guarded \ Relevant /\ RetryOrReturn("semantic", "guard_rejected")
       \/ /\ text \in Guarded \intersect Relevant
          /\ sqlPc' = "execute"
          /\ UNCHANGED <<attempt, prompt, text, sqlOut>>

Execute ==
    /\ sqlPc = "execute"
    /\ \/ \E n \in 0..MaxRows : SqlReturn(Found(n, {}))
       \/ SqlReturn(EmptyResult("timeout"))
       \/ RetryOrReturn("database", "upstream_error")

SqlStep(blank) ==
    \/ blank /\ BlankSql
    \/ ~blank /\ SqlStarts
    \/ Generate \/ Vet \/ Execute

------------------------------------------------------------------------------
(* Property *)

\* The model runs at temperature 0, so another attempt is worth its tens of seconds only
\* from another prompt: the n-th retry asks with n corrections, and there are at most
\* MAX_RETRY of them (append_correction and the loop bound).
AsksAnew == attempt = Len(prompt) /\ attempt <= MaxRetry
==============================================================================
