------------------------------ MODULE MCGraphTool ------------------------------
(* A small instance of GraphTool for TLC: a node of each type and a second client. *)
EXTENDS GraphTool

CONSTANTS clientA, clientB, product, project, employee, department

MCNodeIds == {clientA, clientB, product, project, employee, department}
MCTypeOf == [n \in MCNodeIds |->
    CASE n \in {clientA, clientB} -> "client"
      [] n = product -> "product"
      [] n = project -> "project"
      [] n = employee -> "employee"
      [] n = department -> "department"]

Edge(relation, source, target) == [relation |-> relation, source |-> source, target |-> target]
MCLinks == {
    Edge("USES", clientA, product), Edge("USES", clientB, product),
    Edge("REPORTED_ISSUE", clientB, product),
    Edge("HAS_PROJECT", clientA, project), Edge("LEADS", employee, project),
    Edge("MANAGES_ACCOUNT", employee, clientA), Edge("BELONGS_TO", employee, department),
    Edge("HEAD_IS", department, employee)}

\* Before the first ingestion, before the one that knew the project and the second client,
\* and after it.
MCLoaded == {{}, MCNodeIds \ {clientB, project}, MCNodeIds}

MCAsked ==
    {{r} : r \in RelationNames} \union
    {{"USES", "HAS_PROJECT"}, {"USES", "REPORTED_ISSUE"}, {"HAS_PROJECT", "LEADS"},
     {"HEAD_IS", "BELONGS_TO"}, {"BELONGS_TO", "MANAGES_ACCOUNT", "USES"}}

\* Client-AB does not exist; the longer identifier differs from B's in one letter; two
\* texts that are no names, of which one resembles a name.
Names == [n \in MCNodeIds |->
    CASE n = clientA -> "Client-A" [] n = clientB -> "Client-LONGNAMEB"
      [] n = product -> "Product-A1" [] n = project -> "project"
      [] n = employee -> "employee" [] n = department -> "department"]
Unknown == {"Client-AB", "Client-LONGNAMEC", "departmant", "question"}
MCTexts == {Names[n] : n \in MCNodeIds} \union Unknown
MCIsId == [t \in MCTexts |->
    t \in {"Client-A", "Client-LONGNAMEB", "Product-A1", "Client-AB", "Client-LONGNAMEC"}]
MCNamedBy == [t \in MCTexts |->
    IF t \in Unknown THEN NoNode ELSE CHOOSE n \in MCNodeIds : Names[n] = t]
MCSim == [t \in MCTexts |-> [n \in MCNodeIds |->
    CASE Names[n] = t -> 100
      [] t = "Client-AB" /\ n = clientA -> 70
      [] t = "Client-LONGNAMEC" /\ n = clientB -> 91
      [] t = "departmant" /\ n = department -> 60
      [] OTHER -> 10]]
MCContained == [t \in MCTexts |->
    IF t \in {"Client-AB", "Client-A"} THEN {clientA}
    ELSE IF t \in Unknown THEN {} ELSE {MCNamedBy[t]}]

MCQuestions ==
    [id : {NoText, "Client-A", "Client-AB", "Client-LONGNAMEC"},
     word : {NoText, "departmant"},
     names : {{}, {clientA}, {employee}, {project}},
     whole : {"departmant", "question"}]

\* Two keywords of the graph of which one is part of the other, and one of each other.
MCTerms == {"received", "receivedIn", "average", "minutes"}
MCOwner == [t \in MCTerms |->
    CASE t \in {"received", "receivedIn"} -> "knowledge_graph"
      [] t = "average" -> "nl2sql" [] t = "minutes" -> "vector_search"]
MCInside == {<<"received", "receivedIn">>}
MCPassing == {clientA, project, product}
==============================================================================
