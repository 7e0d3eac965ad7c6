---------------------------- MODULE KnowledgeGraph ----------------------------
(***************************************************************************)
(* The graph of kg_nodes and kg_edges: its ontology                        *)
(* (kg/domain/ontology.py), the plans that ask for a traversal or a        *)
(* ranking (kg/domain/planner.py) and what the two statements of           *)
(* kg/repository.py return.                                                *)
(***************************************************************************)
EXTENDS Naturals, Sequences, FiniteSets, SequencesExt

CONSTANTS
    NodeIds,    \* the nodes of the dataset
    TypeOf,     \* TypeOf[n]: the node_type of n
    Links       \* the edges of the dataset: relation, source, target

NodeTypes == {"client", "product", "employee", "project", "department"}

\* Domain and range; the order is that of RELATION_BY_KEYWORD.
Relations ==
    <<"BELONGS_TO", "HEAD_IS", "USES", "MANAGES_ACCOUNT", "HAS_PROJECT", "LEADS", "REPORTED_ISSUE">>
RelationNames == ToSet(Relations)
Ontology == [
    BELONGS_TO |-> <<"employee", "department">>,
    HEAD_IS |-> <<"department", "employee">>,
    USES |-> <<"client", "product">>,
    MANAGES_ACCOUNT |-> <<"employee", "client">>,
    HAS_PROJECT |-> <<"client", "project">>,
    LEADS |-> <<"employee", "project">>,
    REPORTED_ISSUE |-> <<"client", "product">>]

ASSUME GraphAssumption ==
    /\ TypeOf \in [NodeIds -> NodeTypes]
    /\ Links \subseteq [source : NodeIds, target : NodeIds, relation : RelationNames]
    /\ \A e \in Links : <<TypeOf[e.source], TypeOf[e.target]>> = Ontology[e.relation]

EdgesOver(N) == {e \in Links : {e.source, e.target} \subseteq N}

MaxHops == 2

------------------------------------------------------------------------------
(* plan() *)

NextTypes(types, rels) ==
    types \union {Ontology[r][2] : r \in {q \in rels : Ontology[q][1] \in types}}
          \union {Ontology[r][1] : r \in {q \in rels : Ontology[q][2] \in types}}

ReachableTypes(type, rels, hops) ==
    LET reached[k \in 0..hops] ==
            IF k = 0 THEN {type} ELSE NextTypes(reached[k - 1], rels) IN
    reached[hops]

PlanAccepted(type, rels, targets, hops) ==
    /\ hops \in 1..MaxHops
    /\ targets # {} => targets \intersect ReachableTypes(type, rels, hops) # {}

\* plan_global(): the grouping node must be an end of the relation.
IsEndpoint(type, rel) == type \in {Ontology[rel][1], Ontology[rel][2]}
Side(type, rel) == IF type = Ontology[rel][1] THEN "source" ELSE "target"
GlobalPlanAccepted(type, rel, limit) == IsEndpoint(type, rel) /\ limit \in 1..100

------------------------------------------------------------------------------
(* The statements *)

\* The far ends of the edges at n: of its source the target, otherwise the source.
Across(n, rels, E) ==
    {IF e.source = n THEN e.target ELSE e.source :
        e \in {f \in E : f.relation \in rels /\ n \in {f.source, f.target}}}

\* Variant: a path may come back to where it began.
ExtendBack(path, rels, E) == {Append(path, m) : m \in Across(Last(path), rels, E)}

\* A path never meets a node twice.
Extend(path, rels, E) ==
    {Append(path, m) : m \in Across(Last(path), rels, E) \ ToSet(path)}

Paths(start, rels, hops, E) ==
    LET walk[k \in 0..hops] ==
            IF k = 0 THEN {<<start>>}
            ELSE UNION {Extend(path, rels, E) : path \in walk[k - 1]} IN
    UNION {walk[k] : k \in 1..hops}

\* The nodes of KgRepository.traverse()'s rows.
Traverse(start, rels, targets, hops, N, E) ==
    {n \in {Last(path) : path \in Paths(start, rels, hops, E)} \intersect N :
        targets = {} \/ TypeOf[n] \in targets}

\* The nodes of rank_global()'s rows: those with a counterpart that passes the filter.
RankGlobal(rel, side, passing, N, E) ==
    LET group(e) == IF side = "source" THEN e.source ELSE e.target
        other(e) == IF side = "source" THEN e.target ELSE e.source IN
    {group(e) :
        e \in {f \in E : /\ f.relation = rel /\ other(f) \in passing
                         /\ {f.source, f.target} \subseteq N}}

------------------------------------------------------------------------------
(* A definition of what a traversal should find that knows no paths: the nodes at a      *)
(* distance of at most hops.                                                             *)
Within(start, rels, hops, E) ==
    LET near[k \in 0..hops] ==
            IF k = 0 THEN {start}
            ELSE near[k - 1] \union UNION {Across(n, rels, E) : n \in near[k - 1]} IN
    near[hops] \ {start}
==============================================================================
