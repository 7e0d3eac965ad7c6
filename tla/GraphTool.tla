------------------------------- MODULE GraphTool -------------------------------
(***************************************************************************)
(* A question from the resolution of the entities it names                 *)
(* (kg/resolver.py, router/resolvers.py) over RuleRouter's decision and    *)
(* build_params (kg/provider.py) to the answer of KnowledgeGraphTool       *)
(* (kg/adapter.py, kg/service.py), a statement at a time, while an         *)
(* ingestion commits.  The entity is resolved twice: in the question, to   *)
(* score and parameterise it, and by the tool, from the name it was given. *)
(***************************************************************************)
EXTENDS KnowledgeGraph, RuleRouter

CONSTANTS
    Texts,      \* the pieces of text an entity is looked up by
    NoText,
    IsId,       \* IsId[t]: t has the form of an identifier, as Client-A
    NamedBy,    \* NamedBy[t]: the node that is called t, or NoNode
    Sim,        \* Sim[t][n]: pg_trgm's similarity to n's name, in hundredths
    Contained,  \* Contained[t]: the nodes whose names occur in t
    NameLimit,  \* the LIMIT of names_in_text() (5 in the code)
    NameOf,     \* NameOf[n]: n's name, one of Texts
    NoNode,
    Loaded,     \* the sets of nodes that may have been ingested at the start
    Questions,  \* the questions that are asked: at most one word that has the form of an
                \* identifier, at most one Korean word that is no name, the nodes named in
                \* words, and the text as a whole
    Asked,      \* the sets of relations a question's keywords may name
    Passing     \* the nodes that pass the filter of a ranking

ASSUME TextAssumption ==
    /\ NoText \notin Texts /\ NoNode \notin NodeIds
    /\ IsId \in [Texts -> BOOLEAN]
    /\ NamedBy \in [Texts -> NodeIds \union {NoNode}]
    /\ Sim \in [Texts -> [NodeIds -> 0..100]]
    /\ Contained \in [Texts -> SUBSET NodeIds]
    /\ NameOf \in [NodeIds -> Texts] /\ \A n \in NodeIds : NamedBy[NameOf[n]] = n
    /\ \A q \in Questions :
        /\ q.id \in {t \in Texts : IsId[t]} \union {NoText}
        /\ q.word \in {t \in Texts : ~IsId[t] /\ NamedBy[t] = NoNode} \union {NoText}
        /\ q.whole \in {t \in Texts : ~IsId[t] /\ NamedBy[t] = NoNode}
        /\ q.names \subseteq NodeIds
    /\ NameLimit \in Nat \ {0}
    /\ Loaded \subseteq SUBSET NodeIds /\ Asked \subseteq (SUBSET RelationNames) \ {{}}

VARIABLES
    nodes, edges,   \* kg_nodes, kg_edges
    step,           \* the next statement, or "idle"
    question,
    found,          \* find_all(): the nodes found
    first,          \* the first of them
    missed,         \* an identifier was looked up and not found
    bare,           \* and there was no node to compare it with: no candidates
    guessed,        \* the first node found is a fuzzy match
    failed,         \* a statement of find_all() failed
    decision,       \* the router's
    params,         \* build_params()
    start,          \* resolve(start_entity): the node and how it was found
    result

graph == <<nodes, edges>>
search == <<found, first, missed, bare, guessed, failed>>
vars == <<graph, step, question, search, decision, params, start, result>>

NoQuestion == [id |-> NoText, word |-> NoText, names |-> {}, whole |-> NoText]
NoDecision ==
    [tools |-> <<>>,
     wording |-> [terms |-> {}, period |-> FALSE, compound |-> FALSE, foreign |-> FALSE]]
NoParams == [scope |-> "none"]
NoStart == [node |-> NoNode, method |-> "not_found"]
NoResult == [status |-> "none", about |-> NoNode, told |-> FALSE, nodes |-> {}]

EntityParams == [scope : {"entity"}, start : Texts, relations : SUBSET RelationNames,
                 targets : SUBSET NodeTypes, hops : 1..MaxHops]
GlobalParams == [scope : {"global"}, relation : RelationNames, target : NodeTypes]
Statuses == {"ok", "empty", "entity_not_found", "guard_rejected", "upstream_error"}

Steps == {"exact", "similar", "names", "words", "route", "decided", "params",
          "tool_exact", "tool_similar", "walk", "rank", "idle"}

TypeOK ==
    /\ nodes \subseteq NodeIds
    /\ edges = EdgesOver(nodes)
    /\ step \in Steps
    /\ question \in Questions \union {NoQuestion}
    /\ found \subseteq nodes
    /\ first \in found \union {NoNode}
    /\ missed \in BOOLEAN /\ bare \in BOOLEAN /\ guessed \in BOOLEAN /\ failed \in BOOLEAN
    /\ decision.tools \in Seq(Modules) /\ decision.wording \in Wordings
    /\ params.scope = "entity" => params \in EntityParams
    /\ params.scope = "global" => params \in GlobalParams
    /\ start.node \in nodes \union {NoNode}
    /\ start.method \in {"exact", "fuzzy", "not_found"}
    /\ result.status \in Statuses \union {"none"}
    /\ result.nodes \subseteq nodes

NothingFound ==
    /\ found = {} /\ first = NoNode
    /\ missed = FALSE /\ bare = FALSE /\ guessed = FALSE /\ failed = FALSE

\* A part of the dataset has been ingested, or nothing of it.
Init ==
    /\ nodes \in Loaded
    /\ edges = EdgesOver(nodes)
    /\ step = "idle"
    /\ question = NoQuestion
    /\ NothingFound
    /\ decision = NoDecision
    /\ params = NoParams
    /\ start = NoStart
    /\ result = NoResult

\* ingest() commits the rest of the nodes and edges in one transaction.
Ingest ==
    /\ nodes # NodeIds
    /\ nodes' = NodeIds
    /\ edges' = EdgesOver(NodeIds)
    /\ UNCHANGED <<step, question, search, decision, params, start, result>>

------------------------------------------------------------------------------
(* The lookups of KgEntityResolver *)

Threshold(t) == IF IsId[t] THEN 90 ELSE 45

Called(t) == IF NamedBy[t] \in nodes THEN NamedBy[t] ELSE NoNode

\* ORDER BY sim DESC LIMIT: the most similar, any of them at a tie.
MostSimilar(t) == {n \in nodes : \A m \in nodes : Sim[t][m] <= Sim[t][n]}

\* The node appended to the entities found, and how.
Add(n, fuzzy) ==
    /\ found' = found \union {n}
    /\ IF first = NoNode THEN first' = n /\ guessed' = fuzzy ELSE UNCHANGED <<first, guessed>>

------------------------------------------------------------------------------
(* find_all() *)

Ask(q) ==
    /\ step = "idle"
    /\ question' = q
    /\ step' = IF q.id # NoText THEN "exact" ELSE "names"
    /\ found' = {} /\ first' = NoNode
    /\ missed' = FALSE /\ bare' = FALSE /\ guessed' = FALSE /\ failed' = FALSE
    /\ decision' = NoDecision /\ params' = NoParams /\ start' = NoStart /\ result' = NoResult
    /\ UNCHANGED graph

\* exact_by_name(), exact_by_compact_name(): the identifier as it is written.
FindExact ==
    /\ step = "exact"
    /\ LET n == Called(question.id) IN
        \/ (n # NoNode /\ Add(n, FALSE) /\ step' = "names")
        \/ (n = NoNode /\ step' = "similar" /\ UNCHANGED <<found, first, guessed>>)
    /\ UNCHANGED <<graph, question, missed, bare, failed, decision, params, start, result>>

\* trigram_top(): an identifier is only taken for another at ID_TRGM_THRESHOLD.
FindSimilar ==
    /\ step = "similar"
    /\ step' = "names"
    /\ \/ \E n \in MostSimilar(question.id) :
            /\ Sim[question.id][n] >= Threshold(question.id)
            /\ Add(n, TRUE)
            /\ UNCHANGED <<missed, bare>>
       \/ /\ \A n \in MostSimilar(question.id) : Sim[question.id][n] < Threshold(question.id)
          /\ missed' = TRUE
          /\ bare' = (nodes = {})
          /\ UNCHANGED <<found, first, guessed>>
    /\ UNCHANGED <<graph, question, failed, decision, params, start, result>>

Mentioned == (question.names \union IF question.id = NoText THEN {} ELSE Contained[question.id])

\* Variant: every name that occurs in the text counts, also inside another identifier.
InUnresolvedNever(n) == FALSE

\* normalize(name) in span, for the identifiers that were not found
InUnresolved(n) == missed /\ n \in Contained[question.id]

\* names_in_text(): the longest of the names that occur, before any of them is left out.
\* Lengths are not modelled: any of the names may be the longest.
Rows ==
    LET hits == Mentioned \intersect nodes IN
    {R \in SUBSET hits : Cardinality(R) = NameLimit \/ (R = hits /\ Cardinality(R) < NameLimit)}

FindNames ==
    /\ step = "names"
    /\ \E rows \in Rows :
        LET more == {n \in rows \ found : ~InUnresolved(n)} IN
        /\ found' = found \union more
        /\ \/ ((first # NoNode \/ more = {}) /\ UNCHANGED <<first, guessed>>)
           \/ (first = NoNode /\ first' \in more /\ guessed' = FALSE)
        /\ step' = IF found' = {} /\ question.word # NoText THEN "words" ELSE "route"
    /\ UNCHANGED <<graph, question, missed, bare, failed, decision, params, start, result>>

\* _fuzzy_korean()
FindWords ==
    /\ step = "words"
    /\ step' = "route"
    /\ \/ \E n \in MostSimilar(question.word) :
            /\ Sim[question.word][n] >= Threshold(question.word)
            /\ Add(n, TRUE)
       \/ /\ \A n \in MostSimilar(question.word) : Sim[question.word][n] < Threshold(question.word)
          /\ UNCHANGED <<found, first, guessed>>
    /\ UNCHANGED <<graph, question, missed, bare, failed, decision, params, start, result>>

\* A statement fails: CompositeResolver goes on without any entity.
FindFails ==
    /\ step \in {"exact", "similar", "names", "words"}
    /\ step' = "route"
    /\ found' = {} /\ first' = NoNode
    /\ missed' = FALSE /\ bare' = FALSE /\ guessed' = FALSE /\ failed' = TRUE
    /\ UNCHANGED <<graph, question, decision, params, start, result>>

------------------------------------------------------------------------------
(* route() and build_params() *)

\* Variant: only entities that were resolved count.
HasEntityResolved == found # {}

\* An identifier that was not found is still an entity that was named, if it was compared
\* with any node: CompositeResolver drops what has no candidates.
HasEntity == found # {} \/ (missed /\ ~bare)

Route ==
    /\ step = "route"
    /\ \E w \in Wordings :
        LET tools == Selected(w, HasEntity) IN
        /\ decision' = [tools |-> tools, wording |-> w]
        /\ step' = IF "knowledge_graph" \in ToSet(tools) THEN "decided" ELSE "idle"
    /\ UNCHANGED <<graph, question, search, params, start, result>>

\* Of the decisions the graph's is followed; nothing of them is looked at again.
FollowDecision ==
    /\ step = "decided"
    /\ step' = "params"
    /\ decision' = NoDecision
    /\ UNCHANGED <<graph, question, search, params, start, result>>

\* The first of the relations, in the order of the table, that the type is an end of.
FirstWithEndpoint(rels, target) ==
    LET fit == {i \in DOMAIN Relations :
                    Relations[i] \in rels /\ IsEndpoint(target, Relations[i])} IN
    Relations[CHOOSE i \in fit : \A j \in fit : i <= j]

GlobalApplies(rels, target, ranks) ==
    first = NoNode /\ ranks /\ \E r \in rels : IsEndpoint(target, r)

\* Variant: as many hops as relations.
HopsPerRelation(rels) == Cardinality(rels)

Hops(rels) == IF Cardinality(rels) > 1 THEN 2 ELSE 1

\* The keywords give the relations, the type that is asked for, and whether the question
\* counts or filters.
BuildParams ==
    /\ step = "params"
    /\ \E rels \in Asked, target \in NodeTypes \union {"none"}, ranks \in BOOLEAN :
        \/ /\ GlobalApplies(rels, target, ranks)
           /\ params' = [scope |-> "global", target |-> target,
                         relation |-> FirstWithEndpoint(rels, target)]
           /\ step' = "rank"
        \/ /\ ~GlobalApplies(rels, target, ranks)
           /\ params' = [scope |-> "entity",
                         start |-> IF first # NoNode THEN NameOf[first] ELSE question.whole,
                         relations |-> rels,
                         targets |-> {target} \ {"none"},
                         hops |-> Hops(rels)]
           /\ step' = "tool_exact"
    /\ UNCHANGED <<graph, question, search, decision, start, result>>

------------------------------------------------------------------------------
(* KnowledgeGraphTool.run() *)

Return(status, about, told, N) ==
    /\ result' = [status |-> status, about |-> about, told |-> told, nodes |-> N]
    /\ step' = "idle"

\* plan(), with the node the name was resolved to.
Plan(n, method) ==
    /\ start' = [node |-> n, method |-> method]
    /\ \/ /\ PlanAccepted(TypeOf[n], params.relations, params.targets, params.hops)
          /\ step' = "walk"
          /\ UNCHANGED result
       \/ /\ ~PlanAccepted(TypeOf[n], params.relations, params.targets, params.hops)
          /\ Return("guard_rejected", n, FALSE, {})

ToolExact ==
    /\ step = "tool_exact"
    /\ LET n == Called(params.start) IN
        \/ (n # NoNode /\ Plan(n, "exact"))
        \/ (n = NoNode /\ step' = "tool_similar" /\ UNCHANGED <<start, result>>)
    /\ UNCHANGED <<graph, question, search, decision, params>>

ToolSimilar ==
    /\ step = "tool_similar"
    /\ \/ \E n \in MostSimilar(params.start) :
            Sim[params.start][n] >= Threshold(params.start) /\ Plan(n, "fuzzy")
       \/ /\ \A n \in MostSimilar(params.start) : Sim[params.start][n] < Threshold(params.start)
          /\ Return("entity_not_found", NoNode, FALSE, {})
          /\ UNCHANGED start
    /\ UNCHANGED <<graph, question, search, decision, params>>

\* The note is made from this resolution's method.
Walk ==
    /\ step = "walk"
    /\ LET N == Traverse(start.node, params.relations, params.targets, params.hops, nodes, edges) IN
        Return(IF N = {} THEN "empty" ELSE "ok", start.node, start.method = "fuzzy", N)
    /\ UNCHANGED <<graph, question, search, decision, params, start>>

\* Variant: the ranking groups by the other end.
RankOtherSide ==
    /\ step = "rank"
    /\ LET side == IF Side(params.target, params.relation) = "source" THEN "target" ELSE "source"
           N == RankGlobal(params.relation, side, Passing, nodes, edges) IN
        Return(IF N = {} THEN "empty" ELSE "ok", NoNode, FALSE, N)
    /\ UNCHANGED <<graph, question, search, decision, params, start>>

Rank ==
    /\ step = "rank"
    /\ \/ /\ GlobalPlanAccepted(params.target, params.relation, 5)
          /\ \E passing \in {NodeIds, Passing} :
                LET N == RankGlobal(params.relation, Side(params.target, params.relation),
                                    passing, nodes, edges) IN
                Return(IF N = {} THEN "empty" ELSE "ok", NoNode, FALSE, N)
       \/ /\ ~GlobalPlanAccepted(params.target, params.relation, 5)
          /\ Return("guard_rejected", NoNode, FALSE, {})
    /\ UNCHANGED <<graph, question, search, decision, params, start>>

\* run() turns every exception into UPSTREAM_ERROR.
ToolFails ==
    /\ step \in {"tool_exact", "tool_similar", "walk", "rank"}
    /\ Return("upstream_error", NoNode, FALSE, {})
    /\ UNCHANGED <<graph, question, search, decision, params, start>>

Next ==
    \/ \E q \in Questions : Ask(q)
    \/ FindExact \/ FindSimilar \/ FindNames \/ FindWords \/ FindFails
    \/ Route \/ FollowDecision \/ BuildParams
    \/ ToolExact \/ ToolSimilar \/ Walk \/ Rank \/ ToolFails
    \/ Ingest

Spec == Init /\ [][Next]_vars

------------------------------------------------------------------------------
(* Properties *)

(* A module is chosen alone only if the question has one of its keywords: what is merely   *)
(* there (a period, no entity) decides nothing (stages.py:29-31).                          *)
DecisiveHasKeyword ==
    Len(decision.tools) = 1 => Hits(decision.tools[1], decision.wording) # {}

(* An identifier in the question, known or not, keeps the graph ahead of modules with no   *)
(* more keywords (resolvers.py:38-40), with three exceptions.  In a question with a period *)
(* it takes more keywords than nl2sql has: the period's 3.0 beat the entity's 2.0, and     *)
(* with as many keywords the question drifts to nl2sql.  When a lookup failed, no entity   *)
(* was named.  And an unknown identifier is dropped when the graph is empty and has no     *)
(* candidates for it (resolvers.py:41).                                                    *)
IdentifierKeepsGraphAhead ==
    LET hits(m) == Cardinality(Hits(m, decision.wording)) IN
    (/\ decision.tools # <<>> /\ question.id # NoText
     /\ ~failed /\ ~bare
     /\ decision.wording.period => hits("nl2sql") < hits("knowledge_graph")
     /\ \A m \in Modules : hits(m) <= hits("knowledge_graph"))
        => decision.tools[1] = "knowledge_graph"

(* An answer about a node says that it is a guess, unless the question names that node or  *)
(* find_all() guessed it: an unknown identifier is not quietly taken for a shorter one     *)
(* inside it (resolver.py:26-28, 57-61).                                                   *)
Named == question.names \union {NamedBy[question.id] : t \in {question.id} \ {NoText}}
ReplacementIsTold ==
    (result.status = "ok" /\ result.about # NoNode /\ ~result.told)
        => (result.about \in Named \/ guessed)

(* The same without the exception, as service.py:28-29 has it: whenever another entity is  *)
(* looked up by similarity, that is disclosed.                                             *)
FuzzyIsTold ==
    (result.status = "ok" /\ result.about # NoNode /\ ~result.told) => result.about \in Named

(* A traversal returns the nodes of the wanted types within reach at that moment, neither  *)
(* losing one to the paths it takes nor to the plan, and a plan is refused only when there *)
(* is none (planner.py:16-24, repository.py:35-43).                                        *)
Wanted(n) ==
    {m \in Within(n, params.relations, params.hops, edges) :
        params.targets = {} \/ TypeOf[m] \in params.targets}
NothingMissed ==
    [][(result = NoResult /\ result'.status \in {"ok", "empty", "guard_rejected"}
            /\ params.scope = "entity")
        => result'.nodes = Wanted(result'.about)]_vars

(* The rankings build_params asks for are never refused, and what they count is what the   *)
(* question asks for, not the other end of the relation (provider.py:73-77,                *)
(* planner.py:38-41).                                                                      *)
RanksWhatIsAsked ==
    (params.scope = "global" /\ result # NoResult) =>
        /\ result.status # "guard_rejected"
        /\ \A n \in result.nodes : TypeOf[n] = params.target
==============================================================================
