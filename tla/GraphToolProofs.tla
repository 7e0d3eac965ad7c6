--------------------------- MODULE GraphToolProofs ---------------------------
(***************************************************************************)
(* What the router decides, what a traversal returns and what the answer   *)
(* says of it, for every graph, every dictionary of keywords and every     *)
(* similarity of texts.                                                    *)
(***************************************************************************)
EXTENDS GraphTool, KnowledgeGraphProofs, FiniteSetTheorems

------------------------------------------------------------------------------
(* The router *)

LEMMA HitsAreCounted ==
    ASSUME NEW w \in Wordings, NEW m \in Modules
    PROVE  /\ IsFiniteSet(Hits(m, w)) /\ Cardinality(Hits(m, w)) \in Nat
           /\ Hits(m, w) = {} => Cardinality(Hits(m, w)) = 0
           /\ Hits(m, w) # {} => Cardinality(Hits(m, w)) >= 1
  <1>1. Hits(m, w) \subseteq Terms
    BY DEF Hits, Wordings
  <1>2. IsFiniteSet(Hits(m, w))
    BY <1>1, RouterAssumption, FS_Subset
  <1> QED
    BY <1>2, FS_CardinalityType, FS_EmptySet

LEMMA EvidenceOf ==
    ASSUME NEW w \in Wordings, NEW entity \in BOOLEAN,
           NEW g, g = Cardinality(Hits("knowledge_graph", w)),
           NEW s, s = Cardinality(Hits("nl2sql", w)),
           NEW v, v = Cardinality(Hits("vector_search", w))
    PROVE  /\ g \in Nat /\ s \in Nat /\ v \in Nat
           /\ Evidence("knowledge_graph", w, entity) = 35 * g + (IF entity THEN 20 ELSE 0)
           /\ Evidence("nl2sql", w, entity) = 30 * s + (IF w.period THEN 30 ELSE 0)
           /\ Evidence("vector_search", w, entity) = 30 * v + (IF entity THEN 0 ELSE 10)
  <1>1. g \in Nat /\ s \in Nat /\ v \in Nat
    BY HitsAreCounted DEF Modules
  <1>2. Evidence("knowledge_graph", w, entity)
            = 35 * g + (IF w.period THEN 0 ELSE 0) + (IF entity \in {TRUE} THEN 20 ELSE 0)
    BY DEF Evidence, Signal
  <1>3. Evidence("nl2sql", w, entity)
            = 30 * s + (IF w.period THEN 30 ELSE 0) + (IF entity \in {} THEN 0 ELSE 0)
    BY DEF Evidence, Signal
  <1>4. Evidence("vector_search", w, entity)
            = 30 * v + (IF w.period THEN 0 ELSE 0) + (IF entity \in {FALSE} THEN 10 ELSE 0)
    BY DEF Evidence, Signal
  <1>5. /\ (IF entity \in {TRUE} THEN 20 ELSE 0) = (IF entity THEN 20 ELSE 0)
        /\ (IF entity \in {} THEN 0 ELSE 0) = 0
        /\ (IF entity \in {FALSE} THEN 10 ELSE 0) = (IF entity THEN 0 ELSE 10)
        /\ (IF w.period THEN 0 ELSE 0) = 0
    OBVIOUS
  <1>6. \A n \in Nat : \A k \in {0, 10, 20, 30} : 35 * n + 0 + k = 35 * n + k
                                             /\ 30 * n + k + 0 = 30 * n + k
                                             /\ 30 * n + 0 + k = 30 * n + k
    OBVIOUS
  <1>7. /\ (IF entity THEN 20 ELSE 0) \in {0, 10, 20, 30}
        /\ (IF entity THEN 0 ELSE 10) \in {0, 10, 20, 30}
        /\ (IF w.period THEN 30 ELSE 0) \in {0, 10, 20, 30}
    OBVIOUS
  <1> QED
    BY <1>1, <1>2, <1>3, <1>4, <1>5, <1>6, <1>7

LEMMA EvidenceCounts ==
    ASSUME NEW w \in Wordings, NEW entity \in BOOLEAN, NEW m \in Modules
    PROVE  /\ Evidence(m, w, entity) \in Nat
           /\ Hits(m, w) = {} => Evidence(m, w, entity) <= 30
  <1>1. m \in {"knowledge_graph", "nl2sql", "vector_search"}
    BY DEF Modules
  <1>2. Hits(m, w) = {} => Cardinality(Hits(m, w)) = 0
    BY HitsAreCounted
  <1>3. CASE m = "knowledge_graph"
    <2>1. PICK g \in Nat : /\ g = Cardinality(Hits(m, w))
                           /\ Evidence(m, w, entity) = 35 * g + (IF entity THEN 20 ELSE 0)
      BY <1>3, EvidenceOf
    <2> QED
      BY <1>2, <2>1
  <1>4. CASE m = "nl2sql"
    <2>1. PICK s \in Nat : /\ s = Cardinality(Hits(m, w))
                           /\ Evidence(m, w, entity) = 30 * s + (IF w.period THEN 30 ELSE 0)
      BY <1>4, EvidenceOf
    <2>2. PICK k \in {0, 30} : Evidence(m, w, entity) = 30 * s + k
      BY <2>1
    <2>3. 30 * s + k \in Nat /\ (s = 0 => 30 * s + k <= 30)
      OBVIOUS
    <2>4. Hits(m, w) = {} => s = 0
      BY <1>2, <2>1
    <2> QED
      BY <2>2, <2>3, <2>4
  <1>5. CASE m = "vector_search"
    <2>1. PICK v \in Nat : /\ v = Cardinality(Hits(m, w))
                           /\ Evidence(m, w, entity) = 30 * v + (IF entity THEN 0 ELSE 10)
      BY <1>5, EvidenceOf
    <2> QED
      BY <1>2, <2>1
  <1> QED
    BY <1>1, <1>3, <1>4, <1>5

\* The scores and names order the modules, so that one of some is ahead of the others.
LEMMA ForemostIsAhead ==
    ASSUME NEW w \in Wordings, NEW entity \in BOOLEAN, NEW some \in SUBSET Modules, some # {}
    PROVE  LET m == Foremost(some, w, entity) IN
           m \in some /\ \A n \in some \ {m} : Ahead(m, n, w, entity)
  <1> DEFINE ev(m) == Evidence(m, w, entity)
  <1>1. \A m \in Modules : ev(m) \in Nat
    BY EvidenceCounts
  <1>2. /\ NameOrder["knowledge_graph"] = 1 /\ NameOrder["nl2sql"] = 2
        /\ NameOrder["vector_search"] = 3
    BY DEF NameOrder
  <1> HIDE DEF ev
  <1>3. \A m, n : Ahead(m, n, w, entity) <=>
            ev(m) > ev(n) \/ (ev(m) = ev(n) /\ NameOrder[m] < NameOrder[n])
    BY DEF Ahead, ev
  <1>4. /\ ev("knowledge_graph") \in Nat /\ ev("nl2sql") \in Nat /\ ev("vector_search") \in Nat
        /\ "knowledge_graph" # "nl2sql" /\ "nl2sql" # "vector_search"
        /\ "knowledge_graph" # "vector_search"
    BY <1>1 DEF Modules
  <1>5. \A m \in some : m = "knowledge_graph" \/ m = "nl2sql" \/ m = "vector_search"
    BY DEF Modules
  <1>6. \E m \in some : \A n \in some : n # m => Ahead(m, n, w, entity)
    BY <1>2, <1>3, <1>4, <1>5, SMTT(60)
  <1>7. \E m \in some : \A n \in some \ {m} : Ahead(m, n, w, entity)
    BY <1>6
  <1> QED
    BY <1>7 DEF Foremost

LEMMA RankedOrders ==
    ASSUME NEW w \in Wordings, NEW entity \in BOOLEAN
    PROVE  LET r == Ranked(w, entity) IN
           /\ r \in Seq(Modules) /\ Len(r) = 3
           /\ r[1] = Foremost(Modules, w, entity) /\ r[1] \in Modules
           /\ r[2] \in Modules
  <1> DEFINE a == Foremost(Modules, w, entity)
             b == Foremost(Modules \ {a}, w, entity)
             c == Foremost(Modules \ {a, b}, w, entity)
  <1>1. Modules # {} /\ a \in Modules
    BY ForemostIsAhead DEF Modules
  <1> HIDE DEF a
  <1>2. Modules \ {a} # {} /\ Modules \ {a} \in SUBSET Modules
    BY <1>1 DEF Modules
  <1>3. b \in Modules
    BY <1>2, ForemostIsAhead
  <1> HIDE DEF b
  <1>4. Modules \ {a, b} # {} /\ Modules \ {a, b} \in SUBSET Modules
    BY DEF Modules
  <1>5. c \in Modules
    BY <1>4, ForemostIsAhead
  <1> HIDE DEF c
  <1>6. Ranked(w, entity) = <<a, b, c>>
    BY DEF Ranked, a, b, c
  <1>7. <<a, b, c>> \in Seq(Modules) /\ Len(<<a, b, c>>) = 3
    BY <1>1, <1>3, <1>5
  <1> QED
    BY <1>1, <1>3, <1>6, <1>7 DEF a

\* What merely is there (a period, no entity) is not enough evidence to decide alone.
LEMMA DecidedByKeyword ==
    ASSUME NEW w \in Wordings, NEW entity \in BOOLEAN, Decisive(w, entity)
    PROVE  Hits(Ranked(w, entity)[1], w) # {}
  <1> DEFINE m == Ranked(w, entity)[1]
  <1>1. m \in Modules
    BY RankedOrders
  <1>2. Evidence(m, w, entity) >= 35
    BY DEF Decisive, MinEvidence
  <1> HIDE DEF m
  <1>3. Hits(m, w) # {}
    BY <1>1, <1>2, EvidenceCounts
  <1> QED
    BY <1>3 DEF m

\* A named entity keeps the graph ahead of modules with no more keywords, and with a period
\* ahead of nl2sql with fewer.
LEMMA EntityKeepsAhead ==
    ASSUME NEW w \in Wordings,
           w.period => Cardinality(Hits("nl2sql", w)) < Cardinality(Hits("knowledge_graph", w)),
           \A m \in Modules : Cardinality(Hits(m, w)) <= Cardinality(Hits("knowledge_graph", w))
    PROVE  Ranked(w, TRUE)[1] = "knowledge_graph"
  <1> DEFINE g == Cardinality(Hits("knowledge_graph", w))
             s == Cardinality(Hits("nl2sql", w))
             v == Cardinality(Hits("vector_search", w))
             m == Foremost(Modules, w, TRUE)
             ev(k) == Evidence(k, w, TRUE)
  <1>1. s <= g /\ v <= g /\ (w.period => s < g)
    BY DEF Modules
  <1>2. /\ g \in Nat /\ s \in Nat /\ v \in Nat
        /\ ev("knowledge_graph") = 35 * g + (IF TRUE THEN 20 ELSE 0)
        /\ ev("nl2sql") = 30 * s + (IF w.period THEN 30 ELSE 0)
        /\ ev("vector_search") = 30 * v + (IF TRUE THEN 0 ELSE 10)
    BY EvidenceOf
  <1>3. /\ m \in {"knowledge_graph", "nl2sql", "vector_search"}
        /\ m # "knowledge_graph" => Ahead(m, "knowledge_graph", w, TRUE)
    BY ForemostIsAhead DEF Modules
  <1>4. m # "knowledge_graph" => ev(m) >= ev("knowledge_graph")
    <2>1. \A k \in Modules : ev(k) \in Nat
      BY EvidenceCounts
    <2>2. m # "knowledge_graph"
              => ev(m) > ev("knowledge_graph") \/ ev(m) = ev("knowledge_graph")
      BY <1>3 DEF Ahead
    <2>3. ev(m) \in Nat /\ ev("knowledge_graph") \in Nat
      BY <1>3, <2>1 DEF Modules
    <2> HIDE DEF m, ev
    <2> QED
      BY <2>2, <2>3
  <1> HIDE DEF g, s, v, ev
  <1>5. ev("knowledge_graph") > ev("nl2sql") /\ ev("knowledge_graph") > ev("vector_search")
    <2>1. CASE w.period
      BY <1>1, <1>2, <2>1
    <2>2. CASE ~w.period
      BY <1>1, <1>2, <2>2
    <2> QED
      BY <2>1, <2>2
  <1>6. ev("knowledge_graph") \in Nat /\ ev("nl2sql") \in Nat /\ ev("vector_search") \in Nat
    BY <1>2
  <1> HIDE DEF m
  <1>7. m = "knowledge_graph"
    BY <1>3, <1>4, <1>5, <1>6
  <1> QED
    BY <1>7, RankedOrders DEF m

------------------------------------------------------------------------------
(* The relation of a ranking *)

\* The relation a ranking is asked with is one of the question's, and has the type as an end.
LEMMA FirstFits ==
    ASSUME NEW rels \in SUBSET RelationNames, NEW target,
           \E r \in rels : IsEndpoint(target, r)
    PROVE  LET r == FirstWithEndpoint(rels, target) IN r \in rels /\ IsEndpoint(target, r)
  <1> DEFINE fit == {i \in DOMAIN Relations :
                        Relations[i] \in rels /\ IsEndpoint(target, Relations[i])}
             least == CHOOSE i \in fit : \A j \in fit : i <= j
  <1>1. DOMAIN Relations = 1..7
    BY DEF Relations
  <1>2. fit # {}
    BY DEF RelationNames, ToSet
  <1>3. \A i \in fit : i \in {1, 2, 3, 4, 5, 6, 7}
    BY <1>1
  <1>4. FirstWithEndpoint(rels, target) = Relations[least]
    BY DEF FirstWithEndpoint
  <1>5. \A i \in fit : Relations[i] \in rels /\ IsEndpoint(target, Relations[i])
    OBVIOUS
  <1> HIDE DEF fit
  <1>6. \E i \in fit : \A j \in fit : i <= j
    BY <1>2, <1>3, SMTT(30)
  <1>7. least \in fit
    BY <1>6
  <1> HIDE DEF least
  <1> QED
    BY <1>4, <1>5, <1>7

LEMMA EndpointIsType ==
    ASSUME NEW rels \in SUBSET RelationNames, NEW target, \E r \in rels : IsEndpoint(target, r)
    PROVE  target \in NodeTypes
  <1>1. PICK i \in 1..7 : IsEndpoint(target, Relations[i])
    BY DEF RelationNames, ToSet, Relations
  <1>2. i \in {1, 2, 3, 4, 5, 6, 7}
    OBVIOUS
  <1> QED
    BY <1>1, <1>2 DEF Relations, IsEndpoint, Ontology, NodeTypes

------------------------------------------------------------------------------
(* The invariant *)

\* What find_all() knows: an identifier that was looked up was found or is missed, and the
\* first node is one the question names, or a guess.
FoundInv ==
    /\ step # "idle" => question \in Questions
    /\ step \in {"exact", "similar"} => question.id # NoText /\ first = NoNode /\ ~bare
    /\ step \in {"exact", "similar", "names", "words"} => ~failed
    /\ (step \in {"names", "words", "route"} /\ question.id # NoText /\ ~failed)
           => (first # NoNode \/ missed)
    /\ first # NoNode => (first \in Named \/ guessed)

\* What the tool was asked, and that it has not answered yet.
ParamsInv ==
    /\ step \in {"exact", "similar", "names", "words", "route", "decided", "params"}
           => params = NoParams /\ result = NoResult
    /\ step \in {"tool_exact", "tool_similar", "walk"}
           => /\ params.scope = "entity" /\ result = NoResult
              /\ params.start = IF first # NoNode THEN NameOf[first] ELSE question.whole
    /\ step = "walk" => /\ start.node \in nodes
                        /\ start.node = first \/ start.method = "fuzzy"
    /\ step = "rank" => params.scope = "global" /\ result = NoResult
    /\ params.scope = "global" => IsEndpoint(params.target, params.relation)

GraphInv == FoundInv /\ ParamsInv

LEMMA NodeConstants ==
    /\ NoNode \notin NodeIds /\ NoText \notin Texts
    /\ \A t \in Texts : NamedBy[t] \in NodeIds \union {NoNode}
    /\ \A n \in NodeIds : NameOf[n] \in Texts /\ NamedBy[NameOf[n]] = n
    /\ \A q \in Questions : /\ q.whole \in Texts /\ NamedBy[q.whole] = NoNode
                            /\ q.id # NoText => q.id \in Texts
                            /\ q.word # NoText => q.word \in Texts
    /\ \A rels \in Asked : rels \in SUBSET RelationNames /\ rels # {}
  BY TextAssumption

LEMMA NoDecisionType ==
    NoDecision.tools \in Seq(Modules) /\ NoDecision.wording \in Wordings
  <1>1. TextClosed({})
    BY DEF TextClosed
  <1>2. NoDecision.wording
            = [terms |-> {}, period |-> FALSE, compound |-> FALSE, foreign |-> FALSE]
    BY DEF NoDecision
  <1>3. NoDecision.wording \in Wordings
    BY <1>1, <1>2 DEF Wordings
  <1>4. NoDecision.tools = <<>>
    BY DEF NoDecision
  <1> QED
    BY <1>3, <1>4

LEMMA InitTypes == Init => TypeOK /\ GraphInv
  <1> SUFFICES ASSUME Init PROVE TypeOK /\ GraphInv
    OBVIOUS
  <1>1. nodes \subseteq NodeIds
    BY TextAssumption DEF Init
  <1>2. decision.tools \in Seq(Modules) /\ decision.wording \in Wordings
    BY NoDecisionType DEF Init
  <1>3. TypeOK
    BY <1>1, <1>2 DEF Init, TypeOK, NothingFound, NoParams, NoStart, NoResult, Steps
  <1>4. GraphInv
    BY DEF Init, GraphInv, FoundInv, ParamsInv, NothingFound, NoParams
  <1> QED
    BY <1>3, <1>4

Finding == FindExact \/ FindSimilar \/ FindNames \/ FindWords \/ FindFails

LEMMA BareOrNot == FindSimilar => UNCHANGED bare \/ bare' = TRUE \/ bare' = FALSE
  <1> SUFFICES ASSUME FindSimilar, bare' = (nodes = {})
               PROVE  bare' = TRUE \/ bare' = FALSE
    BY DEF FindSimilar
  <1>1. CASE nodes = {}
    BY <1>1, Zenon
  <1>2. CASE nodes # {}
    BY <1>2, Zenon
  <1> QED
    BY <1>1, <1>2

LEMMA AddTypes ==
    ASSUME TypeOK, NEW n \in nodes, NEW fuzzy \in BOOLEAN, Add(n, fuzzy)
    PROVE  found' \subseteq nodes /\ first' \in found' \union {NoNode} /\ guessed' \in BOOLEAN
  <1>1. found' \subseteq nodes /\ n \in found' /\ found \subseteq found'
    BY DEF Add, TypeOK
  <1>2. CASE first = NoNode
    BY <1>1, <1>2 DEF Add
  <1>3. CASE first # NoNode
    BY <1>1, <1>3 DEF Add, TypeOK
  <1> QED
    BY <1>2, <1>3

LEMMA KeptTypes ==
    ASSUME TypeOK, UNCHANGED <<found, first, guessed>>
    PROVE  found' \subseteq nodes /\ first' \in found' \union {NoNode} /\ guessed' \in BOOLEAN
  BY DEF TypeOK

LEMMA SearchTypes ==
    ASSUME TypeOK, step' \in Steps,
           UNCHANGED <<nodes, edges, question, decision, params, start, result>>,
           missed' \in BOOLEAN, bare' \in BOOLEAN, guessed' \in BOOLEAN, failed' \in BOOLEAN,
           found' \subseteq nodes, first' \in found' \union {NoNode}
    PROVE  TypeOK'
  BY DEF TypeOK

\* Every step of find_all() leaves nodes in found and, of them, a first one.
LEMMA FindTypes == ASSUME TypeOK, Finding PROVE TypeOK'
  <1> DEFINE FoundTypes ==
                found' \subseteq nodes /\ first' \in found' \union {NoNode} /\ guessed' \in BOOLEAN
  <1>0. missed \in BOOLEAN /\ bare \in BOOLEAN /\ failed \in BOOLEAN
    BY DEF TypeOK
  <1>1. CASE FindExact
    <2>1. ASSUME Called(question.id) # NoNode, Add(Called(question.id), FALSE) PROVE FoundTypes
      <3>1. Called(question.id) \in nodes
        BY <2>1 DEF Called
      <3> QED
        BY <2>1, <3>1, AddTypes
    <2>2. FoundTypes
      BY <1>1, <2>1, KeptTypes DEF FindExact
    <2>3. /\ step' \in Steps
          /\ UNCHANGED <<nodes, edges, question, missed, bare, failed, decision, params, start, result>>
      BY <1>1 DEF FindExact, Steps, graph
    <2> QED
      BY <1>0, <2>2, <2>3, SearchTypes
  <1>2. CASE FindSimilar
    <2>1. bare' \in BOOLEAN
      BY <1>0, <1>2, BareOrNot
    <2>2. missed' \in BOOLEAN
      BY <1>0, <1>2 DEF FindSimilar
    <2>3. ASSUME NEW n \in nodes, Add(n, TRUE) PROVE FoundTypes
      BY <2>3, AddTypes
    <2>4. FoundTypes
      BY <1>2, <2>3, KeptTypes DEF FindSimilar, MostSimilar
    <2>5. /\ step' \in Steps
          /\ UNCHANGED <<nodes, edges, question, failed, decision, params, start, result>>
      BY <1>2 DEF FindSimilar, Steps, graph
    <2> QED
      BY <1>0, <2>1, <2>2, <2>4, <2>5, SearchTypes
  <1>3. CASE FindNames
    <2>1. PICK rows \in Rows :
            LET more == {n \in rows \ found : ~InUnresolved(n)} IN
            /\ found' = found \union more
            /\ \/ UNCHANGED <<first, guessed>>
               \/ first' \in more /\ guessed' = FALSE
      BY <1>3 DEF FindNames
    <2>2. rows \subseteq nodes
      BY DEF Rows
    <2>3. FoundTypes
      BY <2>1, <2>2 DEF TypeOK
    <2>4. step' \in {"words", "route"}
      BY <1>3 DEF FindNames
    <2>5. UNCHANGED <<nodes, edges, question, missed, bare, failed, decision, params, start, result>>
      BY <1>3 DEF FindNames, graph
    <2> QED
      BY <1>0, <2>3, <2>4, <2>5, SearchTypes DEF Steps
  <1>4. CASE FindWords
    <2>1. ASSUME NEW n \in nodes, Add(n, TRUE) PROVE FoundTypes
      BY <2>1, AddTypes
    <2>2. FoundTypes
      BY <1>4, <2>1, KeptTypes DEF FindWords, MostSimilar
    <2>3. /\ step' \in Steps
          /\ UNCHANGED <<nodes, edges, question, missed, bare, failed, decision, params, start, result>>
      BY <1>4 DEF FindWords, Steps, graph
    <2> QED
      BY <1>0, <2>2, <2>3, SearchTypes
  <1>5. CASE FindFails
    <2>1. /\ FoundTypes
          /\ missed' \in BOOLEAN /\ bare' \in BOOLEAN /\ failed' \in BOOLEAN
          /\ step' \in Steps
          /\ UNCHANGED <<nodes, edges, question, decision, params, start, result>>
      BY <1>5 DEF FindFails, Steps, graph
    <2> QED
      BY <2>1, SearchTypes
  <1> QED
    BY <1>1, <1>2, <1>3, <1>4, <1>5 DEF Finding

LEMMA HopsBound == ASSUME NEW rels PROVE Hops(rels) \in 1..2
  BY DEF Hops

LEMMA SelectedType ==
    ASSUME NEW w \in Wordings, NEW entity \in BOOLEAN
    PROVE  /\ Selected(w, entity) \in Seq(Modules)
           /\ Len(Selected(w, entity)) = 1 => Hits(Selected(w, entity)[1], w) # {}
           /\ Selected(w, entity) # <<>> => Selected(w, entity)[1] = Ranked(w, entity)[1]
  <1> DEFINE r == Ranked(w, entity)
  <1>1. r \in Seq(Modules) /\ Len(r) = 3 /\ r[1] \in Modules
    BY RankedOrders
  <1>2. Decisive(w, entity) => Hits(r[1], w) # {}
    BY DecidedByKeyword
  <1> HIDE DEF r
  <1>3. CASE OutOfScope(w)
    BY <1>3 DEF Selected
  <1>4. CASE ~OutOfScope(w) /\ Decisive(w, entity)
    <2>1. Selected(w, entity) = <<r[1]>>
      BY <1>4 DEF Selected, r
    <2> QED
      BY <1>1, <1>2, <1>4, <2>1 DEF r
  <1>5. CASE ~OutOfScope(w) /\ ~Decisive(w, entity)
    <2>1. Selected(w, entity) = r
      BY <1>5 DEF Selected, r
    <2> QED
      BY <1>1, <2>1 DEF r
  <1> QED
    BY <1>3, <1>4, <1>5

LEMMA TypeStep == TypeOK /\ GraphInv /\ [Next]_vars => TypeOK'
  <1> SUFFICES ASSUME TypeOK, GraphInv, [Next]_vars PROVE TypeOK'
    OBVIOUS
  <1>1. ASSUME NEW q \in Questions, Ask(q) PROVE TypeOK'
    <2>1. decision'.tools \in Seq(Modules) /\ decision'.wording \in Wordings
      BY <1>1, NoDecisionType DEF Ask
    <2> QED
      BY <1>1, <2>1 DEF Ask, TypeOK, NoParams, NoStart, NoResult, Steps, graph
  <1>2. CASE Finding
    BY <1>2, FindTypes
  <1>3. CASE Route
    <2>1. PICK w \in Wordings :
              /\ decision' = [tools |-> Selected(w, HasEntity), wording |-> w]
              /\ step' \in {"decided", "idle"}
      BY <1>3 DEF Route
    <2>2. Selected(w, HasEntity) \in Seq(Modules)
      BY SelectedType DEF HasEntity, TypeOK
    <2>3. decision'.tools \in Seq(Modules) /\ decision'.wording \in Wordings
      BY <2>1, <2>2
    <2> QED
      BY <1>3, <2>1, <2>3 DEF Route, TypeOK, Steps, graph, search
  <1>4. CASE FollowDecision
    <2>1. decision'.tools \in Seq(Modules) /\ decision'.wording \in Wordings
      BY <1>4, NoDecisionType DEF FollowDecision
    <2> QED
      BY <1>4, <2>1 DEF FollowDecision, TypeOK, Steps, graph, search
  <1>5. CASE BuildParams
    <2>1. question.whole \in Texts /\ (first # NoNode => NameOf[first] \in Texts)
      BY <1>5, NodeConstants DEF BuildParams, GraphInv, FoundInv, TypeOK
    <2>2. PICK rels \in Asked, target \in NodeTypes \union {"none"}, ranks \in BOOLEAN :
              \/ /\ GlobalApplies(rels, target, ranks)
                 /\ params' = [scope |-> "global", target |-> target,
                               relation |-> FirstWithEndpoint(rels, target)]
                 /\ step' = "rank"
              \/ /\ params' = [scope |-> "entity",
                               start |-> IF first # NoNode THEN NameOf[first] ELSE question.whole,
                               relations |-> rels,
                               targets |-> {target} \ {"none"},
                               hops |-> Hops(rels)]
                 /\ step' = "tool_exact"
      BY <1>5 DEF BuildParams
    <2>3. rels \in SUBSET RelationNames
      BY NodeConstants
    <2>4. CASE /\ GlobalApplies(rels, target, ranks)
               /\ params' = [scope |-> "global", target |-> target,
                             relation |-> FirstWithEndpoint(rels, target)]
               /\ step' = "rank"
      <3>1. \E r \in rels : IsEndpoint(target, r)
        BY <2>4 DEF GlobalApplies
      <3>2. FirstWithEndpoint(rels, target) \in RelationNames
        BY <2>3, <3>1, FirstFits
      <3>3. target \in NodeTypes
        BY <2>3, <3>1, EndpointIsType
      <3>4. params' \in GlobalParams /\ params'.scope = "global"
        BY <2>4, <3>2, <3>3 DEF GlobalParams
      <3> QED
        BY <1>5, <2>4, <3>4 DEF BuildParams, TypeOK, Steps, graph, search
    <2>5. CASE /\ params' = [scope |-> "entity",
                             start |-> IF first # NoNode THEN NameOf[first] ELSE question.whole,
                             relations |-> rels,
                             targets |-> {target} \ {"none"},
                             hops |-> Hops(rels)]
               /\ step' = "tool_exact"
      <3>1. params' \in EntityParams /\ params'.scope = "entity"
        BY <2>1, <2>3, <2>5, HopsBound DEF EntityParams, MaxHops
      <3> QED
        BY <1>5, <2>5, <3>1 DEF BuildParams, TypeOK, Steps, graph, search
    <2> QED
      BY <2>2, <2>4, <2>5
  <1>6. CASE ToolExact
    BY <1>6 DEF ToolExact, Called, Plan, Return, TypeOK, Steps, Statuses, graph, search
  <1>7. CASE ToolSimilar
    BY <1>7 DEF ToolSimilar, MostSimilar, Plan, Return, TypeOK, Steps, Statuses, graph, search
  <1>8. CASE Walk
    <2>1. Traverse(start.node, params.relations, params.targets, params.hops, nodes, edges)
              \subseteq nodes
      BY DEF Traverse
    <2> QED
      BY <1>8, <2>1 DEF Walk, Return, TypeOK, Steps, Statuses, graph, search
  <1>9. CASE Rank
    <2>1. GlobalPlanAccepted(params.target, params.relation, 5) =>
              \A passing : RankGlobal(params.relation, Side(params.target, params.relation),
                                      passing, nodes, edges) \subseteq nodes
      BY RankedType DEF GlobalPlanAccepted, TypeOK
    <2> QED
      BY <1>9, <2>1 DEF Rank, Return, TypeOK, Steps, Statuses, graph, search
  <1>10. CASE ToolFails
    BY <1>10 DEF ToolFails, Return, TypeOK, Steps, Statuses, graph, search
  <1>11. CASE Ingest
    BY <1>11 DEF Ingest, TypeOK, search
  <1>12. CASE UNCHANGED vars
    BY <1>12 DEF vars, TypeOK, graph, search
  <1> QED
    BY <1>1, <1>2, <1>3, <1>4, <1>5, <1>6, <1>7, <1>8, <1>9, <1>10, <1>11, <1>12 DEF Next, Finding

\* A name in the text is only taken for the first node if the question names it: the
\* identifier it may be a part of was not found.
LEMMA NamesFirst ==
    ASSUME TypeOK, FoundInv, FindNames PROVE FoundInv'
  <1>1. UNCHANGED <<question, missed, failed>> /\ step = "names" /\ step' \in {"words", "route"}
    BY DEF FindNames
  <1>2. CASE UNCHANGED <<first, guessed>>
    BY <1>1, <1>2 DEF FoundInv, Named
  <1>3. CASE /\ first = NoNode
             /\ \E rows \in Rows : first' \in {n \in rows \ found : ~InUnresolved(n)}
    <2>1. question.id # NoText => missed
      BY <1>1, <1>3 DEF FoundInv
    <2>2. first' \in Mentioned /\ first' \in nodes /\ ~InUnresolved(first')
      BY <1>3 DEF Rows
    <2>3. first' \in question.names
      BY <2>1, <2>2 DEF Mentioned, InUnresolved
    <2>4. first' # NoNode
      BY <2>2, NodeConstants DEF TypeOK
    <2>5. step' \notin {"exact", "similar", "idle"} /\ question \in Questions /\ ~failed
      BY <1>1 DEF FoundInv
    <2>6. first' \in Named'
      BY <1>1, <2>3 DEF Named
    <2> QED
      BY <1>1, <2>4, <2>5, <2>6 DEF FoundInv
  <1>4. PICK rows \in Rows :
            \/ UNCHANGED <<first, guessed>>
            \/ first = NoNode /\ first' \in {n \in rows \ found : ~InUnresolved(n)}
    BY DEF FindNames
  <1> QED
    BY <1>2, <1>3, <1>4

LEMMA FoundStep == TypeOK /\ FoundInv /\ [Next]_vars => FoundInv'
  <1> SUFFICES ASSUME TypeOK, FoundInv, [Next]_vars PROVE FoundInv'
    OBVIOUS
  <1>1. ASSUME NEW q \in Questions, Ask(q) PROVE FoundInv'
    BY <1>1 DEF Ask, FoundInv
  <1>2. CASE FindExact
    <2>1. Called(question.id) \in nodes \union {NoNode}
      BY DEF Called
    <2>2. UNCHANGED <<question, missed, bare, failed>> /\ step = "exact"
      BY <1>2 DEF FindExact
    <2>3. CASE Called(question.id) # NoNode /\ Add(Called(question.id), FALSE) /\ step' = "names"
      <3>1. first' = Called(question.id)
        BY <2>2, <2>3 DEF Add, FoundInv
      <3>2. Called(question.id) = NamedBy[question.id] /\ question.id # NoText
        BY <2>2, <2>3 DEF Called, FoundInv
      <3> QED
        BY <2>2, <2>3, <3>1, <3>2 DEF FoundInv, Named
    <2>4. CASE step' = "similar" /\ UNCHANGED <<found, first, guessed>>
      BY <2>2, <2>4 DEF FoundInv, Named
    <2> QED
      BY <1>2, <2>3, <2>4 DEF FindExact
  <1>3. CASE FindSimilar
    <2>1. UNCHANGED <<question, failed>> /\ step = "similar" /\ step' = "names"
      BY <1>3 DEF FindSimilar
    <2>2. ASSUME NEW n \in nodes, Add(n, TRUE), UNCHANGED missed PROVE FoundInv'
      <3>1. first' = n /\ guessed' = TRUE /\ n # NoNode
        BY <2>1, <2>2, NodeConstants DEF Add, FoundInv, TypeOK
      <3> QED
        BY <2>1, <2>2, <3>1 DEF FoundInv
    <2>3. CASE missed' = TRUE /\ UNCHANGED <<found, first, guessed>>
      BY <2>1, <2>3 DEF FoundInv, Named
    <2> QED
      BY <1>3, <2>2, <2>3 DEF FindSimilar, MostSimilar
  <1>4. CASE FindNames
    BY <1>4, NamesFirst
  <1>5. CASE FindWords
    <2>1. UNCHANGED <<question, missed, failed>> /\ step = "words" /\ step' = "route"
      BY <1>5 DEF FindWords
    <2>2. ASSUME NEW n \in nodes, Add(n, TRUE) PROVE FoundInv'
      <3>1. n # NoNode
        BY NodeConstants DEF TypeOK
      <3>2. CASE first = NoNode
        BY <2>1, <2>2, <3>1, <3>2 DEF Add, FoundInv
      <3>3. CASE first # NoNode
        BY <2>1, <2>2, <3>3 DEF Add, FoundInv, Named
      <3> QED
        BY <3>2, <3>3
    <2>3. CASE UNCHANGED <<found, first, guessed>>
      <3>1. question \in Questions
        BY <2>1 DEF FoundInv
      <3> QED
        BY <2>1, <2>3, <3>1 DEF FoundInv, Named
    <2> QED
      BY <1>5, <2>2, <2>3 DEF FindWords, MostSimilar
  <1>6. CASE FindFails
    BY <1>6 DEF FindFails, FoundInv
  <1>7. CASE Route \/ FollowDecision \/ BuildParams
    <2>1. /\ UNCHANGED <<question, search>>
          /\ step \notin {"idle", "exact", "similar", "names", "words"}
          /\ step' \in {"decided", "idle", "params", "rank", "tool_exact"}
      BY <1>7 DEF Route, FollowDecision, BuildParams
    <2> QED
      BY <2>1 DEF FoundInv, Named, search
  <1>8. CASE ToolExact \/ ToolSimilar \/ Walk \/ Rank \/ ToolFails
    <2>1. /\ UNCHANGED <<question, search>>
          /\ step \in {"tool_exact", "tool_similar", "walk", "rank"}
          /\ step' \in {"tool_similar", "walk", "idle"}
      BY <1>8 DEF ToolExact, ToolSimilar, Walk, Rank, ToolFails, Plan, Return
    <2> QED
      BY <2>1 DEF FoundInv, Named, search
  <1>9. CASE Ingest \/ UNCHANGED vars
    <2>1. UNCHANGED <<step, question, search>>
      BY <1>9 DEF Ingest, vars
    <2> QED
      BY <2>1 DEF FoundInv, Named, search
  <1> QED
    BY <1>1, <1>2, <1>3, <1>4, <1>5, <1>6, <1>7, <1>8, <1>9 DEF Next

LEMMA ParamsStep == TypeOK /\ GraphInv /\ [Next]_vars => ParamsInv'
  <1> SUFFICES ASSUME TypeOK, FoundInv, ParamsInv, [Next]_vars PROVE ParamsInv'
    BY DEF GraphInv
  <1>1. ASSUME NEW q \in Questions, Ask(q) PROVE ParamsInv'
    BY <1>1 DEF Ask, ParamsInv, NoParams
  <1>2. CASE Finding \/ Route \/ FollowDecision
    <2>1. /\ UNCHANGED <<params, result>>
          /\ step \in {"exact", "similar", "names", "words", "route", "decided"}
          /\ step' \in {"similar", "names", "words", "route", "decided", "params", "idle"}
      BY <1>2 DEF Finding, FindExact, FindSimilar, FindNames, FindWords, FindFails, Route,
                  FollowDecision
    <2> QED
      BY <2>1 DEF ParamsInv, NoParams
  <1>3. CASE BuildParams
    <2>1. UNCHANGED <<question, first, result>> /\ result = NoResult
      BY <1>3 DEF BuildParams, ParamsInv, search
    <2>2. PICK rels \in Asked, target \in NodeTypes \union {"none"}, ranks \in BOOLEAN :
              \/ /\ GlobalApplies(rels, target, ranks)
                 /\ params' = [scope |-> "global", target |-> target,
                               relation |-> FirstWithEndpoint(rels, target)]
                 /\ step' = "rank"
              \/ /\ params' = [scope |-> "entity",
                               start |-> IF first # NoNode THEN NameOf[first] ELSE question.whole,
                               relations |-> rels,
                               targets |-> {target} \ {"none"},
                               hops |-> Hops(rels)]
                 /\ step' = "tool_exact"
      BY <1>3 DEF BuildParams
    <2>3. CASE /\ GlobalApplies(rels, target, ranks)
               /\ params' = [scope |-> "global", target |-> target,
                             relation |-> FirstWithEndpoint(rels, target)]
               /\ step' = "rank"
      <3>1. IsEndpoint(target, FirstWithEndpoint(rels, target))
        BY <2>3, FirstFits, NodeConstants DEF GlobalApplies
      <3> QED
        BY <2>1, <2>3, <3>1 DEF ParamsInv
    <2>4. CASE /\ params' = [scope |-> "entity",
                             start |-> IF first # NoNode THEN NameOf[first] ELSE question.whole,
                             relations |-> rels,
                             targets |-> {target} \ {"none"},
                             hops |-> Hops(rels)]
               /\ step' = "tool_exact"
      BY <2>1, <2>4 DEF ParamsInv
    <2> QED
      BY <2>2, <2>3, <2>4
  <1>4. CASE ToolExact
    <2>1. /\ UNCHANGED <<nodes, question, first, params>> /\ step = "tool_exact"
          /\ params.scope = "entity" /\ result = NoResult
          /\ params.start = IF first # NoNode THEN NameOf[first] ELSE question.whole
      BY <1>4 DEF ToolExact, ParamsInv, graph, search
    <2>2. CASE /\ Called(params.start) = NoNode /\ step' = "tool_similar"
               /\ UNCHANGED <<start, result>>
      BY <2>1, <2>2 DEF ParamsInv
    <2>3. CASE Called(params.start) # NoNode /\ Plan(Called(params.start), "exact")
      <3>1. Called(params.start) = NamedBy[params.start] /\ Called(params.start) \in nodes
        BY <2>3 DEF Called
      <3>2. NamedBy[params.start] = first
        <4>1. CASE first = NoNode
          <5>1. NamedBy[params.start] = NoNode
            BY <2>1, <4>1, NodeConstants DEF FoundInv
          <5> QED
            BY <2>3, <3>1, <5>1
        <4>2. CASE first # NoNode
          BY <2>1, <4>2, NodeConstants DEF TypeOK
        <4> QED
          BY <4>1, <4>2
      <3>3. step' = "idle" \/ (step' = "walk" /\ UNCHANGED result)
        BY <2>3 DEF Plan, Return
      <3>4. start' = [node |-> Called(params.start), method |-> "exact"]
        BY <2>3 DEF Plan
      <3> QED
        BY <2>1, <3>1, <3>2, <3>3, <3>4 DEF ParamsInv
    <2> QED
      BY <1>4, <2>2, <2>3 DEF ToolExact
  <1>5. CASE ToolSimilar
    <2>1. /\ UNCHANGED <<nodes, question, first, params>> /\ step = "tool_similar"
          /\ params.scope = "entity" /\ result = NoResult
          /\ params.start = IF first # NoNode THEN NameOf[first] ELSE question.whole
      BY <1>5 DEF ToolSimilar, ParamsInv, graph, search
    <2>2. CASE step' = "idle"
      BY <2>1, <2>2 DEF ParamsInv
    <2>3. ASSUME NEW n \in nodes, Plan(n, "fuzzy") PROVE ParamsInv'
      <3>1. step' = "idle" \/ (step' = "walk" /\ UNCHANGED result)
        BY <2>3 DEF Plan, Return
      <3>2. start' = [node |-> n, method |-> "fuzzy"]
        BY <2>3 DEF Plan
      <3> QED
        BY <2>1, <3>1, <3>2 DEF ParamsInv
    <2> QED
      BY <1>5, <2>2, <2>3 DEF ToolSimilar, MostSimilar, Return
  <1>6. CASE Walk \/ Rank \/ ToolFails
    <2>1. UNCHANGED params /\ step' = "idle"
      BY <1>6 DEF Walk, Rank, ToolFails, Return
    <2> QED
      BY <2>1 DEF ParamsInv
  <1>7. CASE Ingest
    BY <1>7 DEF Ingest, ParamsInv, TypeOK, search
  <1>8. CASE UNCHANGED vars
    BY <1>8 DEF vars, ParamsInv, graph, search
  <1> QED
    BY <1>1, <1>2, <1>3, <1>4, <1>5, <1>6, <1>7, <1>8 DEF Next, Finding

LEMMA GraphAlways == Spec => [](TypeOK /\ GraphInv)
  <1>1. TypeOK /\ GraphInv /\ [Next]_vars => (TypeOK /\ GraphInv)'
    BY TypeStep, FoundStep, ParamsStep DEF GraphInv
  <1> QED
    BY <1>1, InitTypes, PTL DEF Spec

------------------------------------------------------------------------------
(* What the router decides *)

DecisionInv == DecisiveHasKeyword /\ IdentifierKeepsGraphAhead

LEMMA DecisionStep == TypeOK /\ FoundInv /\ DecisionInv /\ [Next]_vars => DecisionInv'
  <1> SUFFICES ASSUME TypeOK, FoundInv, DecisionInv, [Next]_vars PROVE DecisionInv'
    OBVIOUS
  <1>1. CASE decision' = NoDecision
    <2>1. decision'.tools = <<>> /\ Len(<<>>) = 0
      BY <1>1 DEF NoDecision
    <2> QED
      BY <2>1 DEF DecisionInv, DecisiveHasKeyword, IdentifierKeepsGraphAhead
  <1>2. CASE UNCHANGED decision /\ UNCHANGED question /\ (UNCHANGED <<failed, bare>> \/ failed' \/ bare')
    BY <1>2 DEF DecisionInv, DecisiveHasKeyword, IdentifierKeepsGraphAhead
  <1>3. CASE Route
    <2>1. PICK w \in Wordings : decision' = [tools |-> Selected(w, HasEntity), wording |-> w]
      BY <1>3 DEF Route
    <2>2. decision'.tools = Selected(w, HasEntity) /\ decision'.wording = w
      BY <2>1
    <2>3. UNCHANGED <<question, failed, found, missed, bare>> /\ step = "route"
      BY <1>3 DEF Route, search
    <2>4. HasEntity \in BOOLEAN
      BY DEF HasEntity, TypeOK
    <2>5. DecisiveHasKeyword'
      BY <2>2, <2>4, SelectedType DEF DecisiveHasKeyword
    <2>6. ASSUME decision'.tools # <<>>, question'.id # NoText, ~failed', ~bare',
                 decision'.wording.period
                    => Cardinality(Hits("nl2sql", decision'.wording))
                            < Cardinality(Hits("knowledge_graph", decision'.wording)),
                 \A m \in Modules : Cardinality(Hits(m, decision'.wording))
                                        <= Cardinality(Hits("knowledge_graph", decision'.wording))
          PROVE  decision'.tools[1] = "knowledge_graph"
      <3>1. first # NoNode \/ (missed /\ ~bare)
        BY <2>3, <2>6 DEF FoundInv
      <3>2. HasEntity = TRUE
        BY <2>4, <3>1 DEF HasEntity, TypeOK
      <3>3. Ranked(w, TRUE)[1] = "knowledge_graph"
        BY <2>2, <2>6, EntityKeepsAhead
      <3>4. Selected(w, TRUE) # <<>>
        BY <2>2, <2>6, <3>2
      <3>5. Selected(w, TRUE)[1] = Ranked(w, TRUE)[1]
        BY <3>4, SelectedType
      <3> QED
        BY <2>2, <3>2, <3>3, <3>5
    <2>7. IdentifierKeepsGraphAhead'
      BY <2>6 DEF IdentifierKeepsGraphAhead
    <2> QED
      BY <2>5, <2>7 DEF DecisionInv
  <1>4. CASE FindSimilar
    <2>1. UNCHANGED decision /\ UNCHANGED question /\ UNCHANGED failed
      BY <1>4 DEF FindSimilar
    <2>2. ~bare /\ bare \in BOOLEAN
      BY <1>4 DEF FindSimilar, FoundInv, TypeOK
    <2>3. UNCHANGED bare \/ bare' = TRUE \/ bare' = FALSE
      BY <1>4, BareOrNot
    <2>4. UNCHANGED bare \/ bare'
      BY <2>2, <2>3
    <2> QED
      BY <1>2, <2>1, <2>4
  <1>5. CASE FindFails
    <2>1. UNCHANGED decision /\ UNCHANGED question /\ failed'
      BY <1>5 DEF FindFails
    <2> QED
      BY <1>2, <2>1
  <1>6. \/ decision' = NoDecision
        \/ UNCHANGED <<decision, question, failed, bare>>
        \/ Route \/ FindSimilar \/ FindFails
    BY DEF Next, Ask, FindExact, FindNames, FindWords, FollowDecision,
           BuildParams, ToolExact, ToolSimilar, Walk, Rank, ToolFails, Ingest, vars, search
  <1> QED
    BY <1>1, <1>2, <1>3, <1>4, <1>5, <1>6

LEMMA DecisionAlways == Spec => []DecisionInv
  <1>1. Init => DecisionInv
    <2> SUFFICES ASSUME Init PROVE DecisionInv
      OBVIOUS
    <2>1. decision.tools = <<>> /\ Len(<<>>) = 0
      BY DEF Init, NoDecision
    <2> QED
      BY <2>1 DEF DecisionInv, DecisiveHasKeyword, IdentifierKeepsGraphAhead
  <1> QED
    BY <1>1, DecisionStep, GraphAlways, PTL DEF Spec, GraphInv

\* Every variable of a question keeps its type, for any dataset and any words.
THEOREM TypeCorrect == Spec => []TypeOK
  BY GraphAlways, PTL

\* A module is only chosen alone if one of its keywords is in the question: a period, an
\* entity or the lack of one never reaches MIN_EVIDENCE.
THEOREM KeywordDecides == Spec => []DecisiveHasKeyword
  BY DecisionAlways, PTL DEF DecisionInv

\* A question with an identifier, known or not, keeps the graph first among modules with
\* no more keywords, and before nl2sql with fewer if it names a period; unless a lookup
\* failed or an unknown identifier was compared with an empty graph.
THEOREM IdentifierCounts == Spec => []IdentifierKeepsGraphAhead
  BY DecisionAlways, PTL DEF DecisionInv

------------------------------------------------------------------------------
(* What the answer says *)


\* An answer about a node the question did not name says so, unless find_all() guessed it.
THEOREM ReplacementDisclosed == Spec => []ReplacementIsTold
  <1>1. Init => ReplacementIsTold
    BY DEF Init, ReplacementIsTold, NoResult
  <1>2. TypeOK /\ GraphInv /\ ReplacementIsTold /\ [Next]_vars => ReplacementIsTold'
    <2> SUFFICES ASSUME TypeOK, FoundInv, ParamsInv, ReplacementIsTold, [Next]_vars
                 PROVE  ReplacementIsTold'
      BY DEF GraphInv
    <2>1. CASE result'.status # "ok" \/ result'.about = NoNode
      BY <2>1 DEF ReplacementIsTold
    <2>2. CASE UNCHANGED <<result, question, guessed>>
      BY <2>2 DEF ReplacementIsTold, Named
    <2>3. CASE UNCHANGED result /\ result = NoResult
      BY <2>3 DEF ReplacementIsTold, NoResult
    <2>4. CASE Walk
      <3>1. /\ result'.about = start.node /\ result'.told = (start.method = "fuzzy")
            /\ UNCHANGED <<question, guessed>> /\ step = "walk"
        BY <2>4 DEF Walk, Return, search
      <3>2. start.node = first \/ start.method = "fuzzy"
        BY <3>1 DEF ParamsInv
      <3>3. start.node \in nodes /\ start.node # NoNode
        BY <3>1, NodeConstants DEF ParamsInv, TypeOK
      <3>4. first # NoNode => (first \in Named \/ guessed)
        BY DEF FoundInv
      <3> QED
        BY <3>1, <3>2, <3>3, <3>4 DEF ReplacementIsTold, Named
    <2>5. \/ result'.status # "ok" \/ result'.about = NoNode
          \/ UNCHANGED <<result, question, guessed>>
          \/ UNCHANGED result /\ result = NoResult
          \/ Walk
      <3>1. ASSUME NEW q \in Questions, Ask(q) PROVE result'.status # "ok"
        BY <3>1 DEF Ask, NoResult
      <3>2. CASE Finding
        BY <3>2 DEF Finding, FindExact, FindSimilar, FindNames, FindWords, FindFails, ParamsInv
      <3>3. CASE Route \/ FollowDecision \/ BuildParams \/ Ingest \/ UNCHANGED vars
        BY <3>3 DEF Route, FollowDecision, BuildParams, Ingest, vars, search
      <3>4. CASE ToolExact \/ ToolSimilar
        BY <3>4 DEF ToolExact, ToolSimilar, Plan, Return, search
      <3>5. CASE Rank \/ ToolFails
        BY <3>5 DEF Rank, ToolFails, Return
      <3> QED
        BY <3>1, <3>2, <3>3, <3>4, <3>5 DEF Next, Finding
    <2> QED
      BY <2>1, <2>2, <2>3, <2>4, <2>5
  <1> QED
    BY <1>1, <1>2, GraphAlways, PTL DEF Spec

\* A ranking that build_params() asks for passes the planner, and counts the nodes of the
\* type the question asks for.
THEOREM RankingsFit == Spec => []RanksWhatIsAsked
  <1>1. Init => RanksWhatIsAsked
    BY DEF Init, RanksWhatIsAsked, NoParams
  <1>2. TypeOK /\ GraphInv /\ RanksWhatIsAsked /\ [Next]_vars => RanksWhatIsAsked'
    <2> SUFFICES ASSUME TypeOK, FoundInv, ParamsInv, RanksWhatIsAsked, [Next]_vars
                 PROVE  RanksWhatIsAsked'
      BY DEF GraphInv
    <2>1. CASE params'.scope # "global" \/ result' = NoResult
      BY <2>1 DEF RanksWhatIsAsked
    <2>2. CASE UNCHANGED <<params, result>>
      BY <2>2 DEF RanksWhatIsAsked
    <2>3. CASE ToolFails
      <3>1. result'.status = "upstream_error" /\ result'.nodes = {}
        BY <2>3 DEF ToolFails, Return
      <3> QED
        BY <3>1 DEF RanksWhatIsAsked
    <2>4. CASE Rank
      <3>1. IsEndpoint(params.target, params.relation) /\ UNCHANGED params
        BY <2>4 DEF Rank, ParamsInv
      <3>2. GlobalPlanAccepted(params.target, params.relation, 5)
        BY <3>1 DEF GlobalPlanAccepted
      <3>3. PICK passing \in {NodeIds, Passing} :
                LET N == RankGlobal(params.relation, Side(params.target, params.relation),
                                    passing, nodes, edges) IN
                Return(IF N = {} THEN "empty" ELSE "ok", NoNode, FALSE, N)
        BY <2>4, <3>2 DEF Rank
      <3>4. /\ result'.status # "guard_rejected"
            /\ result'.nodes = RankGlobal(params.relation, Side(params.target, params.relation),
                                          passing, nodes, edges)
        BY <3>3 DEF Return
      <3>5. \A n \in result'.nodes : TypeOf[n] = params.target
        BY <3>1, <3>4, RankedType DEF TypeOK
      <3> QED
        BY <3>1, <3>4, <3>5 DEF RanksWhatIsAsked
    <2>5. \/ params'.scope # "global" \/ result' = NoResult
          \/ UNCHANGED <<params, result>>
          \/ ToolFails \/ Rank
      <3>1. ASSUME NEW q \in Questions, Ask(q) PROVE result' = NoResult
        BY <3>1 DEF Ask
      <3>2. CASE Finding
        BY <3>2 DEF Finding, FindExact, FindSimilar, FindNames, FindWords, FindFails
      <3>3. CASE Route \/ FollowDecision \/ Ingest \/ UNCHANGED vars
        BY <3>3 DEF Route, FollowDecision, Ingest, vars
      <3>4. CASE BuildParams
        BY <3>4 DEF BuildParams, ParamsInv
      <3>5. CASE ToolExact \/ ToolSimilar \/ Walk
        BY <3>5 DEF ToolExact, ToolSimilar, Walk, ParamsInv
      <3> QED
        BY <3>1, <3>2, <3>3, <3>4, <3>5 DEF Next, Finding
    <2> QED
      BY <2>1, <2>2, <2>3, <2>4, <2>5
  <1> QED
    BY <1>1, <1>2, GraphAlways, PTL DEF Spec

\* A traversal returns all that is wanted within reach when it runs, whatever is ingested,
\* and a plan is only refused where there is nothing to return.
THEOREM TraversalComplete == Spec => NothingMissed
  <1> DEFINE Complete ==
        (result = NoResult /\ result'.status \in {"ok", "empty", "guard_rejected"}
            /\ params.scope = "entity")
        => result'.nodes = Wanted(result'.about)
  <1>1. TypeOK /\ GraphInv /\ [Next]_vars => Complete
    <2> SUFFICES ASSUME TypeOK, ParamsInv, [Next]_vars, params.scope = "entity",
                        result = NoResult,
                        result'.status \in {"ok", "empty", "guard_rejected"}
                 PROVE  result'.nodes = Wanted(result'.about)
      BY DEF GraphInv
    <2>1. params.hops \in 1..2 /\ edges = EdgesOver(nodes)
      BY DEF TypeOK, EntityParams, MaxHops
    <2>2. ASSUME NEW n, NEW method, Plan(n, method) PROVE result'.nodes = Wanted(result'.about)
      <3>1. CASE UNCHANGED result
        BY <3>1 DEF NoResult
      <3>2. CASE /\ ~PlanAccepted(TypeOf[n], params.relations, params.targets, params.hops)
                 /\ Return("guard_rejected", n, FALSE, {})
        <4>1. result'.about = n /\ result'.nodes = {}
          BY <3>2 DEF Return
        <4>2. Wanted(n) = {}
          BY <2>1, <3>2, RefusedMeansNone DEF Wanted
        <4> QED
          BY <4>1, <4>2
      <3> QED
        BY <2>2, <3>1, <3>2 DEF Plan
    <2>3. CASE Walk
      <3>1. /\ result'.about = start.node
            /\ result'.nodes = Traverse(start.node, params.relations, params.targets, params.hops,
                                        nodes, edges)
        BY <2>3 DEF Walk, Return
      <3>2. Traverse(start.node, params.relations, params.targets, params.hops, nodes, edges)
                = Wanted(start.node)
        BY <2>1, TraverseFinds DEF Wanted
      <3> QED
        BY <3>1, <3>2
    <2>4. CASE Rank
      BY <2>4 DEF Rank, ParamsInv
    <2>5. CASE UNCHANGED result
      BY <2>5 DEF NoResult
    <2>6. \/ \E n \in NodeIds \union {NoNode}, method \in {"exact", "fuzzy"} : Plan(n, method)
          \/ Walk \/ Rank \/ UNCHANGED result
      <3>1. ASSUME NEW q \in Questions, Ask(q) PROVE UNCHANGED result
        BY <3>1 DEF Ask
      <3>2. CASE Finding
        BY <3>2 DEF Finding, FindExact, FindSimilar, FindNames, FindWords, FindFails
      <3>3. CASE Route \/ FollowDecision \/ BuildParams \/ Ingest \/ UNCHANGED vars
        BY <3>3 DEF Route, FollowDecision, BuildParams, Ingest, vars
      <3>4. CASE ToolExact
        <4>1. Called(params.start) \in NodeIds \union {NoNode}
          BY DEF Called, TypeOK
        <4> QED
          BY <3>4, <4>1 DEF ToolExact
      <3>5. CASE ToolSimilar
        <4>1. \/ \E n \in nodes : Plan(n, "fuzzy")
              \/ Return("entity_not_found", NoNode, FALSE, {})
          BY <3>5 DEF ToolSimilar, MostSimilar
        <4>2. nodes \subseteq NodeIds
          BY DEF TypeOK
        <4> QED
          BY <4>1, <4>2 DEF Return
      <3>6. CASE ToolFails
        BY <3>6 DEF ToolFails, Return
      <3> QED
        BY <3>1, <3>2, <3>3, <3>4, <3>5, <3>6 DEF Next, Finding
    <2> QED
      BY <2>2, <2>3, <2>4, <2>5, <2>6
  <1> QED
    BY <1>1, GraphAlways, PTL DEF Spec, NothingMissed
==============================================================================
