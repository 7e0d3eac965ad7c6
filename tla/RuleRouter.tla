------------------------------ MODULE RuleRouter ------------------------------
(***************************************************************************)
(* The arithmetic of RuleRouter.route (router/stages.py) and               *)
(* score_question (router/domain/rules.py) over the three modules'         *)
(* signals.  Weights are counted in tenths and thresholds in hundredths,   *)
(* so that every comparison is exact; up to eight keywords of each module  *)
(* the floating point comparisons of the code come out the same.           *)
(***************************************************************************)
EXTENDS Naturals, FiniteSets, SequencesExt

CONSTANTS
    Terms,      \* keywords of the signals
    Owner,      \* Owner[t]: the module that claims t
    Inside      \* <<s, t>>: the keyword s is a part of the keyword t

ASSUME RouterAssumption == IsFiniteSet(Terms)

Modules == {"knowledge_graph", "nl2sql", "vector_search"}

\* Ties of the scores are broken by the module's name.
NameOrder == [knowledge_graph |-> 1, nl2sql |-> 2, vector_search |-> 3]

\* router_rules.yaml and the SIGNAL of each provider.
Signal == [
    knowledge_graph |-> [weight |-> 35, pattern |-> 0, entity |-> 20, entityWhen |-> {TRUE}],
    nl2sql |-> [weight |-> 30, pattern |-> 30, entity |-> 0, entityWhen |-> {}],
    vector_search |-> [weight |-> 30, pattern |-> 0, entity |-> 10, entityWhen |-> {FALSE}]]

\* MIN_EVIDENCE in tenths, tau and DELTA in hundredths.
\* Variant: the weight of one keyword is enough.
MinEvidenceOfKeyword == 30
MinEvidence == 35
Tau == 55
Delta == 15

(* What a question is to the router: the keywords in it, whether it names a period,     *)
(* whether it has two clauses, and the keywords claimed by no module that are out of    *)
(* scope (an external topic or an action) unless a module claims them.                  *)
TextClosed(terms) == \A pair \in Inside : pair[2] \in terms => pair[1] \in terms
Wordings ==
    [terms : {T \in SUBSET Terms : TextClosed(T)}, period : BOOLEAN, compound : BOOLEAN,
     foreign : BOOLEAN]

\* A keyword inside a longer one that is also there points to the same place.
Hits(m, w) ==
    LET mine == {t \in w.terms : Owner[t] = m} IN
    {t \in mine : ~\E other \in mine : <<t, other>> \in Inside}

Evidence(m, w, hasEntity) ==
    Signal[m].weight * Cardinality(Hits(m, w))
        + (IF w.period THEN Signal[m].pattern ELSE 0)
        + (IF hasEntity \in Signal[m].entityWhen THEN Signal[m].entity ELSE 0)

\* sorted()'s key.  The total is the same for all, so the order of the scores is that of
\* the evidence.
Ahead(a, b, w, hasEntity) ==
    \/ Evidence(a, w, hasEntity) > Evidence(b, w, hasEntity)
    \/ Evidence(a, w, hasEntity) = Evidence(b, w, hasEntity) /\ NameOrder[a] < NameOrder[b]

Foremost(modules, w, hasEntity) ==
    CHOOSE m \in modules : \A n \in modules \ {m} : Ahead(m, n, w, hasEntity)

Ranked(w, hasEntity) ==
    LET first == Foremost(Modules, w, hasEntity)
        second == Foremost(Modules \ {first}, w, hasEntity)
        third == Foremost(Modules \ {first, second}, w, hasEntity) IN
    <<first, second, third>>

Total(w, hasEntity) ==
    Evidence("knowledge_graph", w, hasEntity) + Evidence("nl2sql", w, hasEntity)
        + Evidence("vector_search", w, hasEntity)

\* Stage A: enough evidence, a sufficient share and lead, and no second clause that
\* another module has evidence for.
Decisive(w, hasEntity) ==
    LET ranked == Ranked(w, hasEntity)
        best == Evidence(ranked[1], w, hasEntity)
        second == Evidence(ranked[2], w, hasEntity)
        total == Total(w, hasEntity) IN
    /\ best >= MinEvidence
    /\ 100 * best >= Tau * total
    /\ 100 * (best - second) >= Delta * total
    /\ ~(w.compound /\ second > 0)

OutOfScope(w) == w.foreign

\* The modules route() decides on: none, the best, or all of them in order.
Selected(w, hasEntity) ==
    IF OutOfScope(w) THEN <<>>
    ELSE IF Decisive(w, hasEntity) THEN <<Ranked(w, hasEntity)[1]>>
    ELSE Ranked(w, hasEntity)
==============================================================================
