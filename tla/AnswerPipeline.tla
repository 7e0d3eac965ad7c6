---------------------------- MODULE AnswerPipeline ----------------------------
(***************************************************************************)
(* POST /api/ask: Orchestrator.respond (router/orchestrator.py) over the   *)
(* tools of SqlTool and VectorTool and a knowledge graph tool known by its *)
(* statuses only.  The tools of a question run in a pool with a thread for *)
(* each, so their steps interleave with each other and with an ingestion.  *)
(* A question shares no state with another one in flight: one at a time is *)
(* modelled, and the next one is asked when it is answered.                *)
(***************************************************************************)
EXTENDS SqlTool, VectorTool, SequencesExt

VARIABLES
    phase,      \* where respond() is
    blank,      \* the question has no characters but white space
    decisions,  \* the tools route() decided on, in the order of their scores
    graphPc,    \* the step of the knowledge graph tool's call
    graphOut,   \* what it returned
    answer      \* the Answer

respondVars == <<phase, blank, decisions, answer>>
graphVars == <<graphPc, graphOut>>
vars == <<respondVars, graphVars, sqlVars, corpus, searchVars>>

Tools == {"vector_search", "nl2sql", "knowledge_graph"}

AnswerKinds == {"none", "no_route", "generated", "table", "error_500"}
Answers ==
    [kind : AnswerKinds, tool : Tools \union {"none"}, result : ToolResults \union {NoResult}]
NoAnswer == [kind |-> "none", tool |-> "none", result |-> NoResult]

TypeOK ==
    /\ SqlTypeOK
    /\ SearchTypeOK
    /\ phase \in {"idle", "running", "composing", "answered"}
    /\ blank \in BOOLEAN
    /\ decisions \in Seq(Tools)
    /\ graphPc \in {"off", "start", "done"}
    /\ graphOut \in ToolResults \union {NoResult}
    /\ answer \in Answers

Init ==
    /\ SqlInit
    /\ SearchInit
    /\ phase = "idle"
    /\ blank = FALSE
    /\ decisions = <<>>
    /\ graphPc = "off"
    /\ graphOut = NoResult
    /\ answer = NoAnswer

------------------------------------------------------------------------------
(* route(): no tool, one (stage A), or all of them (stage C), best score first *)

Routes == {<<t>> : t \in Tools} \union SetToSeqs(Tools)

\* Out of scope, or no module registered.
AskUnroutable ==
    /\ phase \in {"idle", "answered"}
    /\ phase' = "answered"
    /\ answer' = [NoAnswer EXCEPT !.kind = "no_route"]
    /\ UNCHANGED <<blank, decisions, graphVars, sqlVars, corpus, searchVars>>

Ask ==
    /\ phase \in {"idle", "answered"}
    /\ phase' = "running"
    /\ answer' = NoAnswer
    /\ blank' \in BOOLEAN
    /\ \E route \in Routes :
        /\ decisions' = route
        /\ \/ "nl2sql" \in ToSet(route) /\ SqlCalled
           \/ "nl2sql" \notin ToSet(route) /\ UNCHANGED sqlVars
        /\ \/ /\ "vector_search" \in ToSet(route)
              /\ \E type \in DocTypes \union {NoType} : SearchCalled(type)
           \/ "vector_search" \notin ToSet(route) /\ UNCHANGED searchVars
        /\ \/ "knowledge_graph" \in ToSet(route) /\ graphPc' = "start"
           \/ "knowledge_graph" \notin ToSet(route) /\ UNCHANGED graphPc
    /\ UNCHANGED <<graphOut, corpus>>

------------------------------------------------------------------------------
(* call_tools(): a step of one of the calls *)

CallSql ==
    /\ UNCHANGED <<respondVars, graphVars, corpus, searchVars>>
    /\ SqlStep(blank)

CallSearch ==
    /\ UNCHANGED <<respondVars, graphVars, sqlVars>>
    /\ SearchStep(blank)

\* No start entity, a plan outside the ontology, an answer, or an exception; the
\* adapter turns every exception, a statement's timeout included, into UPSTREAM_ERROR.
CallGraph ==
    /\ graphPc = "start"
    /\ graphPc' = "done"
    /\ \/ \E n \in 0..MaxRows : graphOut' = Found(n, {})
       \/ \E s \in {"entity_not_found", "guard_rejected", "upstream_error"} :
            graphOut' = EmptyResult(s)
    /\ UNCHANGED <<respondVars, sqlVars, corpus, searchVars>>

IngestCommits == Ingest /\ UNCHANGED <<respondVars, graphVars, sqlVars>>

------------------------------------------------------------------------------
(* ranked[0], and the answer made from it *)

Out(tool) ==
    CASE tool = "nl2sql" -> sqlOut
      [] tool = "vector_search" -> searchOut
      [] tool = "knowledge_graph" -> graphOut

Returned(tool) ==
    CASE tool = "nl2sql" -> sqlPc = "done"
      [] tool = "vector_search" -> searchPc = "done"
      [] tool = "knowledge_graph" -> graphPc = "done"

\* pool.map() yields the results in the order of the decisions.
DecisionResult(i) == Out(decisions[i])

\* Variant: more rows first, and nothing else.
BeforeByRows(r, s) == r.rows > s.rows

\* sorted()'s key: whether the call failed, then the rows, most first.
Before(r, s) ==
    \/ ~Failed(r) /\ Failed(s)
    \/ Failed(r) = Failed(s) /\ r.rows > s.rows

\* sorted() is stable: of equals the one decided on first comes first.
IsBest(i) ==
    \A j \in DOMAIN decisions \ {i} :
        /\ ~Before(DecisionResult(j), DecisionResult(i))
        /\ j < i => Before(DecisionResult(i), DecisionResult(j))

\* The pool's with block, and list(), wait for every call.
AllReturned == \A t \in ToSet(decisions) : Returned(t)

Compose ==
    /\ phase = "running"
    /\ AllReturned
    /\ phase' = "composing"
    /\ \E i \in DOMAIN decisions :
        /\ IsBest(i)
        /\ answer' = [NoAnswer EXCEPT !.tool = decisions[i], !.result = DecisionResult(i)]
    /\ decisions' = <<>>
    /\ graphPc' = "off"
    /\ graphOut' = NoResult
    /\ SqlForgotten
    /\ SearchForgotten
    /\ UNCHANGED <<blank, corpus>>

\* The model words the answer; LlmError leaves fallback_table(); a reply without the
\* expected field is no LlmError and ends the request with status 500.
Word ==
    /\ phase = "composing"
    /\ phase' = "answered"
    /\ \E kind \in {"generated", "table", "error_500"} : answer' = [answer EXCEPT !.kind = kind]
    /\ UNCHANGED <<blank, decisions, graphVars, sqlVars, corpus, searchVars>>

Next ==
    \/ Ask \/ AskUnroutable
    \/ CallSql \/ CallSearch \/ CallGraph
    \/ Compose \/ Word
    \/ IngestCommits

\* Every call the tools make is given a time: 90 s for generate(), 30 s for embed(), 5 s
\* for a statement; so some thread of a question always moves on.  Which one is left to
\* the scheduler.  Nobody has to ask, and nobody has to ingest.
Fairness == WF_vars(CallSql \/ CallSearch \/ CallGraph \/ Compose \/ Word)

Spec == Init /\ [][Next]_vars /\ Fairness

------------------------------------------------------------------------------
(* Properties *)

\* A failing tool never hides one that succeeded: a failure is answered only if every
\* tool failed, and no tool found more rows than the one answered with (the key of
\* sorted(), over what the tools return with each status).
FailureHidesNothing ==
    [][phase = "running" /\ phase' = "composing" =>
        \A t \in ToSet(decisions) :
            /\ Failed(answer'.result) => Failed(Out(t))
            /\ Out(t).rows <= answer'.result.rows]_vars

\* Every question is answered, however often statements are rejected or fail and
\* however the tools' calls interleave with ingestions.
EveryQuestionAnswered == phase = "running" ~> phase = "answered"
==============================================================================
