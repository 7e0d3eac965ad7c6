------------------------- MODULE KnowledgeGraphProofs -------------------------
(***************************************************************************)
(* What a traversal of up to MaxHops hops finds, what its plan counts on   *)
(* and what a ranking counts, for every graph that follows the ontology.   *)
(***************************************************************************)
EXTENDS KnowledgeGraph, SequenceTheorems, TLAPS

------------------------------------------------------------------------------
(* Up to two hops *)

\* X and the nodes next to it.
Around(X, rels, E) == X \union UNION {Across(n, rels, E) : n \in X}

LEMMA WithinHops ==
    ASSUME NEW start, NEW rels, NEW E, NEW hops \in 1..2
    PROVE  Within(start, rels, hops, E) =
               (IF hops = 1 THEN Around({start}, rels, E)
                ELSE Around(Around({start}, rels, E), rels, E)) \ {start}
  <1> DEFINE body(f, k) ==
                 IF k = 0 THEN {start}
                 ELSE f[k - 1] \union UNION {Across(n, rels, E) : n \in f[k - 1]}
             near == CHOOSE f : f = [k \in 0..hops |-> body(f, k)]
             g == [k \in 0..hops |->
                      IF k = 0 THEN {start}
                      ELSE IF k = 1 THEN Around({start}, rels, E)
                      ELSE Around(Around({start}, rels, E), rels, E)]
  <1>1. g = [k \in 0..hops |-> body(g, k)]
    <2>1. ASSUME NEW k \in 0..hops PROVE g[k] = body(g, k)
      <3>1. 0 \in 0..hops /\ 1 \in 0..hops
        OBVIOUS
      <3>2. g[0] = {start} /\ g[1] = Around({start}, rels, E)
        BY <3>1
      <3>3. CASE k = 0
        BY <3>3
      <3>4. CASE k = 1
        <4>1. k - 1 = 0
          BY <3>4
        <4> QED
          BY <3>2, <3>4, <4>1 DEF Around
      <3>5. CASE k = 2
        <4>1. k - 1 = 1
          BY <3>5
        <4> QED
          BY <3>2, <3>5, <4>1 DEF Around
      <3> QED
        BY <3>3, <3>4, <3>5
    <2> HIDE DEF body
    <2> QED
      BY <2>1
  <1>2. Within(start, rels, hops, E) = near[hops] \ {start}
    BY DEF Within
  <1> HIDE DEF g
  <1>3. near = [k \in 0..hops |-> body(near, k)]
    BY <1>1
  <1> HIDE DEF near
  <1>4. near[0] = {start}
    BY <1>3
  <1>5. near[1] = Around(near[0], rels, E)
    BY <1>3 DEF Around
  <1>6. hops = 2 => near[2] = Around(near[1], rels, E)
    BY <1>3 DEF Around
  <1>7. hops = 1 \/ hops = 2
    OBVIOUS
  <1> QED
    BY <1>2, <1>4, <1>5, <1>6, <1>7

LEMMA ReachableHops ==
    ASSUME NEW type, NEW rels, NEW hops \in 1..2
    PROVE  ReachableTypes(type, rels, hops) =
               IF hops = 1 THEN NextTypes({type}, rels)
               ELSE NextTypes(NextTypes({type}, rels), rels)
  <1> DEFINE body(f, k) == IF k = 0 THEN {type} ELSE NextTypes(f[k - 1], rels)
             reached == CHOOSE f : f = [k \in 0..hops |-> body(f, k)]
             g == [k \in 0..hops |->
                      IF k = 0 THEN {type}
                      ELSE IF k = 1 THEN NextTypes({type}, rels)
                      ELSE NextTypes(NextTypes({type}, rels), rels)]
  <1>1. g = [k \in 0..hops |-> body(g, k)]
    <2>1. ASSUME NEW k \in 0..hops PROVE g[k] = body(g, k)
      <3>1. 0 \in 0..hops /\ 1 \in 0..hops
        OBVIOUS
      <3>2. g[0] = {type} /\ g[1] = NextTypes({type}, rels)
        BY <3>1
      <3>3. CASE k = 0
        BY <3>3
      <3>4. CASE k = 1
        <4>1. k - 1 = 0
          BY <3>4
        <4> QED
          BY <3>2, <3>4, <4>1
      <3>5. CASE k = 2
        <4>1. k - 1 = 1
          BY <3>5
        <4> QED
          BY <3>2, <3>5, <4>1
      <3> QED
        BY <3>3, <3>4, <3>5
    <2> HIDE DEF body
    <2> QED
      BY <2>1
  <1>2. ReachableTypes(type, rels, hops) = reached[hops]
    BY DEF ReachableTypes
  <1> HIDE DEF g
  <1>3. reached = [k \in 0..hops |-> body(reached, k)]
    BY <1>1
  <1> HIDE DEF reached
  <1>4. reached[0] = {type}
    BY <1>3
  <1>5. reached[1] = NextTypes(reached[0], rels)
    BY <1>3
  <1>6. hops = 2 => reached[2] = NextTypes(reached[1], rels)
    BY <1>3
  <1>7. hops = 1 \/ hops = 2
    OBVIOUS
  <1> QED
    BY <1>2, <1>4, <1>5, <1>6, <1>7

LEMMA PathsHops ==
    ASSUME NEW start, NEW rels, NEW E, NEW hops \in 1..2
    PROVE  Paths(start, rels, hops, E) =
               Extend(<<start>>, rels, E)
                   \union (IF hops = 1 THEN {}
                           ELSE UNION {Extend(path, rels, E) :
                                          path \in Extend(<<start>>, rels, E)})
  <1> DEFINE Longer(X) == UNION {Extend(path, rels, E) : path \in X}
             body(f, k) == IF k = 0 THEN {<<start>>}
                           ELSE Longer(f[k - 1])
             walk == CHOOSE f : f = [k \in 0..hops |-> body(f, k)]
             g == [k \in 0..hops |->
                      IF k = 0 THEN {<<start>>}
                      ELSE IF k = 1 THEN Longer({<<start>>})
                      ELSE Longer(Longer({<<start>>}))]
  <1>1. g = [k \in 0..hops |-> body(g, k)]
    <2> HIDE DEF Longer
    <2>1. ASSUME NEW k \in 0..hops PROVE g[k] = body(g, k)
      <3>1. 0 \in 0..hops /\ 1 \in 0..hops
        OBVIOUS
      <3>2. g[0] = {<<start>>} /\ g[1] = Longer({<<start>>})
        BY <3>1
      <3>3. CASE k = 0
        BY <3>3
      <3>4. CASE k = 1
        <4>1. k - 1 = 0
          BY <3>4
        <4> QED
          BY <3>2, <3>4, <4>1
      <3>5. CASE k = 2
        <4>1. k - 1 = 1
          BY <3>5
        <4> QED
          BY <3>2, <3>5, <4>1
      <3> QED
        BY <3>3, <3>4, <3>5
    <2> HIDE DEF body
    <2> QED
      BY <2>1
  <1>2. Paths(start, rels, hops, E) = UNION {walk[k] : k \in 1..hops}
    BY DEF Paths
  <1> HIDE DEF g
  <1>3. walk = [k \in 0..hops |-> body(walk, k)]
    BY <1>1
  <1> HIDE DEF walk
  <1>4. walk[0] = {<<start>>}
    BY <1>3
  <1>5. walk[1] = Longer(walk[0])
    BY <1>3
  <1>6. hops = 2 => walk[2] = Longer(walk[1])
    BY <1>3
  <1>7. Longer({<<start>>}) = Extend(<<start>>, rels, E)
    OBVIOUS
  <1>8. UNION {walk[k] : k \in 1..hops} = walk[1] \union (IF hops = 1 THEN {} ELSE walk[2])
    <2>1. 1 \in 1..hops /\ (hops # 1 => 2 \in 1..hops)
      OBVIOUS
    <2>2. \A k \in 1..hops : k = 1 \/ (k = 2 /\ hops # 1)
      OBVIOUS
    <2> QED
      BY <2>1, <2>2
  <1>9. hops = 1 \/ hops = 2
    OBVIOUS
  <1> QED
    BY <1>2, <1>4, <1>5, <1>6, <1>7, <1>8, <1>9

LEMMA FirstHop ==
    ASSUME NEW first, NEW rels, NEW E
    PROVE  Extend(<<first>>, rels, E) = {<<first, n>> : n \in Across(first, rels, E) \ {first}}
  <1>1. Last(<<first>>) = first /\ ToSet(<<first>>) = {first}
    BY DEF Last, ToSet
  <1>2. ASSUME NEW n PROVE Append(<<first>>, n) = <<first, n>>
    <2>1. /\ <<first>> \in Seq({first, n})
          /\ <<first, n>> \in Seq({first, n})
          /\ Len(<<first>>) = 1 /\ Len(<<first, n>>) = 2
      OBVIOUS
    <2>2. Len(Append(<<first>>, n)) = 2 /\ Append(<<first>>, n) \in Seq({first, n})
      BY <2>1, AppendProperties
    <2>3. \A i \in 1..1 : Append(<<first>>, n)[i] = <<first>>[i]
      BY <2>1, AppendProperties
    <2>4. Append(<<first>>, n)[2] = n
      BY <2>1, AppendProperties
    <2>5. \A i \in 1..2 : Append(<<first>>, n)[i] = <<first, n>>[i]
      BY <2>3, <2>4
    <2> QED
      BY <2>1, <2>2, <2>5, SeqEqual
  <1>3. Extend(<<first>>, rels, E)
            = {Append(<<first>>, n) : n \in Across(first, rels, E) \ {first}}
    BY <1>1 DEF Extend
  <1> QED
    BY <1>2, <1>3

LEMMA SecondHop ==
    ASSUME NEW first, NEW m, NEW rels, NEW E
    PROVE  Extend(<<first, m>>, rels, E)
               = {<<first, m, n>> : n \in Across(m, rels, E) \ {first, m}}
  <1>1. Last(<<first, m>>) = m /\ ToSet(<<first, m>>) = {first, m}
    BY DEF Last, ToSet
  <1>2. ASSUME NEW n PROVE Append(<<first, m>>, n) = <<first, m, n>>
    <2>1. /\ <<first, m>> \in Seq({first, m, n})
          /\ <<first, m, n>> \in Seq({first, m, n})
          /\ Len(<<first, m>>) = 2 /\ Len(<<first, m, n>>) = 3
      OBVIOUS
    <2>2. Len(Append(<<first, m>>, n)) = 3 /\ Append(<<first, m>>, n) \in Seq({first, m, n})
      BY <2>1, AppendProperties
    <2>3. \A i \in 1..2 : Append(<<first, m>>, n)[i] = <<first, m>>[i]
      BY <2>1, AppendProperties
    <2>4. Append(<<first, m>>, n)[3] = n
      BY <2>1, AppendProperties
    <2>5. \A i \in 1..3 : Append(<<first, m>>, n)[i] = <<first, m, n>>[i]
      BY <2>3, <2>4
    <2> QED
      BY <2>1, <2>2, <2>5, SeqEqual
  <1>3. Extend(<<first, m>>, rels, E)
            = {Append(<<first, m>>, n) : n \in Across(m, rels, E) \ {first, m}}
    BY <1>1 DEF Extend
  <1> QED
    BY <1>2, <1>3

\* The paths that never meet a node twice end in the nodes at a distance of at most hops.
THEOREM PathsReach ==
    ASSUME NEW start, NEW rels, NEW E, NEW hops \in 1..2
    PROVE  {Last(path) : path \in Paths(start, rels, hops, E)} = Within(start, rels, hops, E)
  <1> DEFINE next == Across(start, rels, E) \ {start}
             beyond(m) == Across(m, rels, E) \ {start, m}
  <1>1. Extend(<<start>>, rels, E) = {<<start, m>> : m \in next}
    BY FirstHop
  <1>2. ASSUME NEW m
        PROVE  Extend(<<start, m>>, rels, E) = {<<start, m, n>> : n \in beyond(m)}
    <2>1. Extend(<<start, m>>, rels, E)
              = {<<start, m, n>> : n \in Across(m, rels, E) \ {start, m}}
      BY SecondHop
    <2> QED
      BY <2>1
  <1>3. \A m, n : Last(<<start, m>>) = m /\ Last(<<start, m, n>>) = n
    BY DEF Last
  <1>4. CASE hops = 1
    <2>1. Paths(start, rels, hops, E) = {<<start, m>> : m \in next}
      BY <1>1, <1>4, PathsHops
    <2>2. Within(start, rels, hops, E) = Around({start}, rels, E) \ {start}
      BY <1>4, WithinHops
    <2>3. Around({start}, rels, E) = {start} \union Across(start, rels, E)
      BY DEF Around
    <2>4. {Last(path) : path \in {<<start, m>> : m \in next}} = next
      <3> HIDE DEF next
      <3>1. ASSUME NEW m \in next PROVE \E path \in {<<start, k>> : k \in next} : Last(path) = m
        BY <1>3
      <3>2. ASSUME NEW path \in {<<start, k>> : k \in next} PROVE Last(path) \in next
        BY <1>3
      <3> QED
        BY <3>1, <3>2
    <2> QED
      BY <2>1, <2>2, <2>3, <2>4
  <1>5. CASE hops = 2
    <2>1. hops # 1
      BY <1>5
    <2>2. Paths(start, rels, hops, E)
              = {<<start, m>> : m \in next}
                    \union UNION {Extend(path, rels, E) : path \in {<<start, m>> : m \in next}}
      BY <1>1, <2>1, PathsHops
    <2>3. ASSUME NEW path \in Paths(start, rels, hops, E)
          PROVE  Last(path) \in next \/ \E m \in next : Last(path) \in beyond(m)
      <3>1. CASE path \in {<<start, m>> : m \in next}
        BY <1>3, <3>1
      <3>2. CASE \E m \in next : path \in Extend(<<start, m>>, rels, E)
        <4>1. PICK m \in next : path \in Extend(<<start, m>>, rels, E)
          BY <3>2
        <4>2. PICK n \in beyond(m) : path = <<start, m, n>>
          BY <1>2, <4>1
        <4> QED
          BY <1>3, <4>2
      <3> QED
        BY <2>2, <3>1, <3>2
    <2>4. Within(start, rels, hops, E) = Around(Around({start}, rels, E), rels, E) \ {start}
      BY <2>1, WithinHops
    <2>5. \A n : n \in Within(start, rels, hops, E) <=>
              /\ n # start
              /\ \/ n \in Across(start, rels, E)
                 \/ \E m \in Across(start, rels, E) : n \in Across(m, rels, E)
      BY <2>4 DEF Around
    <2>6. ASSUME NEW m \in next PROVE \E path \in Paths(start, rels, hops, E) : Last(path) = m
      <3>1. <<start, m>> \in Paths(start, rels, hops, E)
        BY <2>2
      <3> QED
        BY <1>3, <3>1
    <2>7. ASSUME NEW m \in next, NEW n \in beyond(m)
          PROVE  \E path \in Paths(start, rels, hops, E) : Last(path) = n
      <3>1. <<start, m, n>> \in Extend(<<start, m>>, rels, E)
        BY <1>2
      <3>2. <<start, m, n>> \in Paths(start, rels, hops, E)
        BY <2>2, <3>1
      <3> QED
        BY <1>3, <3>2
    <2>8. \A n : n \in {Last(path) : path \in Paths(start, rels, hops, E)} <=>
              \/ n \in next
              \/ \E m \in next : n \in beyond(m)
      <3> HIDE DEF next, beyond
      <3> QED
        BY <2>3, <2>6, <2>7
    <2> QED
      BY <2>5, <2>8
  <1> QED
    BY <1>4, <1>5

------------------------------------------------------------------------------
(* Types within reach *)

LEMMA AcrossTypes ==
    ASSUME NEW E \in SUBSET Links, NEW rels, NEW n, NEW m \in Across(n, rels, E)
    PROVE  /\ m \in NodeIds
           /\ \E e \in E : m \in {e.source, e.target}
           /\ \A types : TypeOf[n] \in types => TypeOf[m] \in NextTypes(types, rels)
  <1>1. PICK e \in E : /\ e.relation \in rels /\ n \in {e.source, e.target}
                       /\ m = IF e.source = n THEN e.target ELSE e.source
    BY DEF Across
  <1>2. /\ e.source \in NodeIds /\ e.target \in NodeIds
        /\ <<TypeOf[e.source], TypeOf[e.target]>> = Ontology[e.relation]
    BY GraphAssumption
  <1>3. Ontology[e.relation][1] = TypeOf[e.source] /\ Ontology[e.relation][2] = TypeOf[e.target]
    BY <1>2
  <1>4. ASSUME NEW types, TypeOf[n] \in types PROVE TypeOf[m] \in NextTypes(types, rels)
    <2>1. CASE e.source = n
      BY <1>1, <1>3, <1>4, <2>1 DEF NextTypes
    <2>2. CASE e.source # n
      BY <1>1, <1>3, <1>4, <2>2 DEF NextTypes
    <2> QED
      BY <2>1, <2>2
  <1> QED
    BY <1>1, <1>2, <1>4

\* A node within reach has a type that the plan counts on, and is an end of an edge.
LEMMA WithinTypes ==
    ASSUME NEW E \in SUBSET Links, NEW rels, NEW start, NEW hops \in 1..2,
           NEW m \in Within(start, rels, hops, E)
    PROVE  /\ TypeOf[m] \in ReachableTypes(TypeOf[start], rels, hops)
           /\ m \in NodeIds
           /\ \E e \in E : m \in {e.source, e.target}
  <1> DEFINE T1 == NextTypes({TypeOf[start]}, rels)
             T2 == NextTypes(T1, rels)
  <1>1. \A n \in Across(start, rels, E) : TypeOf[n] \in T1
    BY AcrossTypes
  <1>2. \A n \in Across(start, rels, E) : \A k \in Across(n, rels, E) : TypeOf[k] \in T2
    <2> HIDE DEF T1
    <2> QED
      BY <1>1, AcrossTypes
  <1>3. T1 \subseteq T2
    BY DEF NextTypes
  <1> HIDE DEF T1, T2
  <1>4. CASE hops = 1
    <2>1. ReachableTypes(TypeOf[start], rels, hops) = T1
      BY <1>4, ReachableHops DEF T1
    <2>2. m \in Across(start, rels, E)
      BY <1>4, WithinHops DEF Around
    <2> QED
      BY <1>1, <2>1, <2>2, AcrossTypes
  <1>5. CASE hops = 2
    <2>1. ReachableTypes(TypeOf[start], rels, hops) = T2
      BY <1>5, ReachableHops DEF T1, T2
    <2>2. \/ m \in Across(start, rels, E)
          \/ \E n \in Across(start, rels, E) : m \in Across(n, rels, E)
      <3>1. hops # 1
        BY <1>5
      <3>2. m \in Around(Around({start}, rels, E), rels, E) \ {start}
        BY <3>1, WithinHops
      <3> QED
        BY <3>2 DEF Around
    <2>3. TypeOf[m] \in T2
      BY <1>1, <1>2, <1>3, <2>2
    <2>4. m \in NodeIds /\ \E e \in E : m \in {e.source, e.target}
      BY <2>2, AcrossTypes
    <2> QED
      BY <2>1, <2>3, <2>4
  <1> QED
    BY <1>4, <1>5

\* A traversal over the edges between the nodes that are there loses none of them.
THEOREM TraverseFinds ==
    ASSUME NEW start, NEW rels, NEW targets, NEW hops \in 1..2, NEW N
    PROVE  Traverse(start, rels, targets, hops, N, EdgesOver(N))
               = {m \in Within(start, rels, hops, EdgesOver(N)) :
                     targets = {} \/ TypeOf[m] \in targets}
  <1>1. EdgesOver(N) \in SUBSET Links
    BY DEF EdgesOver
  <1>2. \A m \in Within(start, rels, hops, EdgesOver(N)) : m \in N
    BY <1>1, WithinTypes DEF EdgesOver
  <1> QED
    BY <1>2, PathsReach DEF Traverse

\* A plan is refused only when none of the wanted types is within reach.
THEOREM RefusedMeansNone ==
    ASSUME NEW start, NEW rels, NEW targets, NEW hops \in 1..2, NEW N,
           ~PlanAccepted(TypeOf[start], rels, targets, hops)
    PROVE  {m \in Within(start, rels, hops, EdgesOver(N)) :
               targets = {} \/ TypeOf[m] \in targets} = {}
  <1>1. EdgesOver(N) \in SUBSET Links
    BY DEF EdgesOver
  <1>2. /\ targets # {}
        /\ targets \intersect ReachableTypes(TypeOf[start], rels, hops) = {}
    BY DEF PlanAccepted, MaxHops
  <1> QED
    BY <1>1, <1>2, WithinTypes

------------------------------------------------------------------------------
(* Rankings *)

\* The nodes of a ranking have the type of the side it groups by.
THEOREM RankedType ==
    ASSUME NEW type, NEW rel, IsEndpoint(type, rel), NEW passing, NEW N,
           NEW n \in RankGlobal(rel, Side(type, rel), passing, N, EdgesOver(N))
    PROVE  n \in N /\ TypeOf[n] = type
  <1>1. PICK e \in EdgesOver(N) :
            /\ e.relation = rel /\ {e.source, e.target} \subseteq N
            /\ n = IF Side(type, rel) = "source" THEN e.source ELSE e.target
    BY DEF RankGlobal
  <1>2. <<TypeOf[e.source], TypeOf[e.target]>> = Ontology[rel]
    BY <1>1, GraphAssumption DEF EdgesOver
  <1>3. Ontology[rel][1] = TypeOf[e.source] /\ Ontology[rel][2] = TypeOf[e.target]
    BY <1>2
  <1>4. CASE type = Ontology[rel][1]
    BY <1>1, <1>3, <1>4 DEF Side
  <1>5. CASE type # Ontology[rel][1]
    BY <1>1, <1>3, <1>5 DEF Side, IsEndpoint
  <1> QED
    BY <1>4, <1>5
==============================================================================
