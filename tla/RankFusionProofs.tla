--------------------------- MODULE RankFusionProofs ---------------------------
(***************************************************************************)
(* What fuse() keeps of two rankings, for every length of the rankings and *)
(* every k.                                                                *)
(***************************************************************************)
EXTENDS RankFusion, FiniteSetTheorems, TLAPS

------------------------------------------------------------------------------
(* The first elements of a finite ordered set *)

\* A set of finite sets has a smallest one by inclusion.
LEMMA Smallest ==
    ASSUME NEW S, IsFiniteSet(S), NEW F \in SUBSET (SUBSET S), F # {}
    PROVE  \E U \in F : \A V \in F : V \subseteq U => V = U
  <1>1. F \subseteq FiniteSubsetsOf(S)
    BY FS_FiniteSubsetsOfFinite
  <1>2. IsWellFoundedOn(StrictSubsetOrdering(S), FiniteSubsetsOf(S))
    BY FS_StrictSubsetOrderingWellFounded
  <1>3. PICK U \in F : \A V \in F : <<V, U>> \notin StrictSubsetOrdering(S)
    BY <1>1, <1>2, WFMin
  <1>4. \A V \in F : V \subseteq U => V = U
    BY <1>3 DEF StrictSubsetOrdering
  <1> QED
    BY <1>4

StrictOrder(R, S) ==
    /\ \A c \in S : <<c, c>> \notin R
    /\ \A c, d, e \in S : <<c, d>> \in R /\ <<d, e>> \in R => <<c, e>> \in R
    /\ \A c, d \in S : c = d \/ <<c, d>> \in R \/ <<d, c>> \in R

Ahead(c, R, S) == {d \in S : <<d, c>> \in R}
TopOf(S, R, k) == {c \in S : Cardinality(Ahead(c, R, S)) < k}

LEMMA SomeFirst ==
    ASSUME NEW S, IsFiniteSet(S), NEW R, StrictOrder(R, S), S # {}
    PROVE  \E c \in S : Ahead(c, R, S) = {}
  <1> DEFINE F == {Ahead(c, R, S) : c \in S}
  <1>1. F \in SUBSET (SUBSET S) /\ F # {}
    BY DEF Ahead
  <1> HIDE DEF F
  <1>2. PICK U \in F : \A V \in F : V \subseteq U => V = U
    BY <1>1, Smallest
  <1> USE DEF F
  <1>3. PICK c \in S : U = Ahead(c, R, S)
    OBVIOUS
  <1>4. ASSUME NEW d \in Ahead(c, R, S) PROVE FALSE
    <2>1. d \in S /\ <<d, c>> \in R
      BY <1>4 DEF Ahead
    <2>2. Ahead(d, R, S) \subseteq Ahead(c, R, S)
      BY <2>1 DEF Ahead, StrictOrder
    <2>3. d \notin Ahead(d, R, S)
      BY <2>1 DEF Ahead, StrictOrder
    <2> QED
      BY <1>2, <1>3, <1>4, <2>1, <2>2, <2>3
  <1> QED
    BY <1>4

\* Among those of which fewer than k are ahead, one is behind all others.
LEMMA SomeLast ==
    ASSUME NEW S, IsFiniteSet(S), NEW R, StrictOrder(R, S), NEW T \in SUBSET S, T # {}
    PROVE  \E c \in T : T \subseteq Ahead(c, R, S) \union {c}
  <1> DEFINE Rest(c) == S \ Ahead(c, R, S)
             F == {Rest(c) : c \in T}
  <1>1. F \in SUBSET (SUBSET S) /\ F # {}
    OBVIOUS
  <1> HIDE DEF F
  <1>2. PICK U \in F : \A V \in F : V \subseteq U => V = U
    BY <1>1, Smallest
  <1> USE DEF F
  <1>3. PICK c \in T : U = Rest(c)
    OBVIOUS
  <1>4. ASSUME NEW d \in T, d # c, d \notin Ahead(c, R, S) PROVE FALSE
    <2>1. <<c, d>> \in R
      BY <1>4 DEF Ahead, StrictOrder
    <2>2. Ahead(c, R, S) \subseteq Ahead(d, R, S)
      BY <2>1 DEF Ahead, StrictOrder
    <2>3. c \in Ahead(d, R, S) /\ c \notin Ahead(c, R, S)
      BY <2>1 DEF Ahead, StrictOrder
    <2>4. Rest(d) \subseteq Rest(c) /\ Rest(d) # Rest(c)
      BY <2>2, <2>3
    <2> QED
      BY <1>2, <1>3, <1>4, <2>4
  <1> QED
    BY <1>4

LEMMA TopIsBounded ==
    ASSUME NEW S, IsFiniteSet(S), NEW R, StrictOrder(R, S), NEW k \in Nat, k > 0
    PROVE  /\ IsFiniteSet(TopOf(S, R, k))
           /\ Cardinality(TopOf(S, R, k)) <= k
           /\ S # {} => TopOf(S, R, k) # {}
  <1> DEFINE T == TopOf(S, R, k)
  <1>1. T \in SUBSET S
    BY DEF TopOf
  <1>2. IsFiniteSet(T)
    BY <1>1, FS_Subset
  <1>3. Cardinality(T) <= k
    <2>1. CASE T = {}
      BY <2>1, FS_EmptySet
    <2>2. CASE T # {}
      <3>1. PICK c \in T : T \subseteq Ahead(c, R, S) \union {c}
        BY <1>1, <2>2, SomeLast
      <3>2. IsFiniteSet(Ahead(c, R, S)) /\ Cardinality(Ahead(c, R, S)) \in Nat
        BY FS_Subset, FS_CardinalityType DEF Ahead
      <3>3. Cardinality(Ahead(c, R, S)) < k
        BY DEF TopOf
      <3>4. /\ IsFiniteSet(Ahead(c, R, S) \union {c})
            /\ Cardinality(Ahead(c, R, S) \union {c}) <= Cardinality(Ahead(c, R, S)) + 1
            /\ Cardinality(Ahead(c, R, S) \union {c}) \in Nat
        <4>1. IsFiniteSet(Ahead(c, R, S) \union {c})
          BY <3>2, FS_AddElement
        <4>2. Cardinality(Ahead(c, R, S) \union {c}) \in
                {Cardinality(Ahead(c, R, S)), Cardinality(Ahead(c, R, S)) + 1}
          BY <3>2, FS_AddElement
        <4> QED
          BY <3>2, <4>1, <4>2
      <3>5. Cardinality(T) <= Cardinality(Ahead(c, R, S) \union {c}) /\ Cardinality(T) \in Nat
        BY <1>2, <3>1, <3>4, FS_Subset, FS_CardinalityType
      <3> QED
        BY <3>2, <3>3, <3>4, <3>5
    <2> QED
      BY <2>1, <2>2
  <1>4. S # {} => T # {}
    BY SomeFirst, FS_EmptySet DEF TopOf
  <1> QED
    BY <1>2, <1>3, <1>4

------------------------------------------------------------------------------
(* Scores as fractions *)

Fractions == Nat \X (Nat \ {0})

LEMMA Multiplied ==
    /\ \A a, b, c \in Nat : a >= b => a * c >= b * c
    /\ \A a, b \in Nat, c \in Nat \ {0} : a * c >= b * c => a >= b
    /\ \A a, b \in Nat : a * b \in Nat
    /\ \A a, b \in Nat \ {0} : a * b \in Nat \ {0}
  OBVIOUS

LEMMA ShareTypes == \A rank \in Nat : Share(rank) \in Fractions
  BY DEF Share, Fractions, RRF_K

LEMMA ScoreTypes == \A i, j \in Nat : Score(i, j) \in Fractions
  <1> SUFFICES ASSUME NEW i \in Nat, NEW j \in Nat PROVE Score(i, j) \in Fractions
    OBVIOUS
  <1>1. PICK v \in Fractions : v = Share(i)
    BY ShareTypes
  <1>2. PICK k \in Fractions : k = Share(j)
    BY ShareTypes
  <1>3. /\ v[1] \in Nat /\ v[2] \in Nat \ {0} /\ k[1] \in Nat /\ k[2] \in Nat \ {0}
    BY DEF Fractions
  <1>4. v[1] * k[2] \in Nat /\ k[1] * v[2] \in Nat /\ v[2] * k[2] \in Nat \ {0}
    BY <1>3, Multiplied
  <1>5. <<v[1] * k[2] + k[1] * v[2], v[2] * k[2]>> \in Fractions
    BY <1>4 DEF Fractions
  <1> QED
    BY <1>1, <1>2, <1>5 DEF Score

LEMMA NotAboveIsTransitive ==
    ASSUME NEW x \in Fractions, NEW y \in Fractions, NEW z \in Fractions,
           ~Above(y, x), ~Above(z, y)
    PROVE  ~Above(z, x)
  <1>1. /\ x[1] \in Nat /\ x[2] \in Nat \ {0} /\ y[1] \in Nat /\ y[2] \in Nat \ {0}
        /\ z[1] \in Nat /\ z[2] \in Nat \ {0}
    BY DEF Fractions
  <1>2. PICK a \in Nat, b \in Nat, c \in Nat, d \in Nat :
            /\ a = x[1] * y[2] /\ b = y[1] * x[2] /\ c = y[1] * z[2] /\ d = z[1] * y[2]
    BY <1>1, Multiplied
  <1>3. PICK e \in Nat, f \in Nat : e = x[1] * z[2] /\ f = z[1] * x[2]
    BY <1>1, Multiplied
  <1>4. a >= b /\ c >= d
    BY <1>2 DEF Above
  <1>5. a * z[2] >= b * z[2] /\ c * x[2] >= d * x[2]
    BY <1>1, <1>4, Multiplied
  <1>6. /\ a * z[2] = e * y[2] /\ b * z[2] = c * x[2] /\ d * x[2] = f * y[2]
    <2> DEFINE X1 == x[1] X2 == x[2] Y1 == y[1] Y2 == y[2] Z1 == z[1] Z2 == z[2]
    <2>1. /\ X1 \in Nat /\ X2 \in Nat /\ Y1 \in Nat /\ Y2 \in Nat /\ Z1 \in Nat /\ Z2 \in Nat
          /\ a = X1 * Y2 /\ b = Y1 * X2 /\ c = Y1 * Z2 /\ d = Z1 * Y2
          /\ e = X1 * Z2 /\ f = Z1 * X2
      BY <1>1, <1>2, <1>3
    <2> HIDE DEF X1, X2, Y1, Y2, Z1, Z2
    <2>2. a * Z2 = e * Y2 /\ b * Z2 = c * X2 /\ d * X2 = f * Y2
      BY <2>1
    <2> QED
      BY <2>2 DEF X2, Y2, Z2
  <1>7. e * y[2] >= f * y[2]
    <2>1. \A m, n \in Nat : m * n \in Nat
      OBVIOUS
    <2>2. a * z[2] \in Nat /\ b * z[2] \in Nat /\ d * x[2] \in Nat
      BY <1>1, <2>1
    <2> QED
      BY <1>5, <1>6, <2>2
  <1>8. e >= f
    BY <1>1, <1>7, Multiplied
  <1> QED
    BY <1>3, <1>8 DEF Above

LEMMA AboveIsAsymmetric ==
    ASSUME NEW x \in Fractions, NEW y \in Fractions
    PROVE  ~(Above(x, y) /\ Above(y, x))
  <1>1. x[1] * y[2] \in Nat /\ y[1] * x[2] \in Nat
    BY Multiplied DEF Fractions
  <1> QED
    BY <1>1 DEF Above

------------------------------------------------------------------------------
(* fuse() *)

LEMMA PrecedesIsStrict ==
    ASSUME NEW S, NEW score \in [S -> Fractions], NEW order, \A c \in S : order[c] \in Nat,
           \A c, d \in S : order[c] = order[d] => c = d,
           NEW R, R = {p \in S \X S : Precedes(p[1], p[2], score, order)}
    PROVE  StrictOrder(R, S)
  <1>1. \A c, d \in S : <<c, d>> \in R <=> Precedes(c, d, score, order)
    OBVIOUS
  <1>2. ASSUME NEW c \in S PROVE <<c, c>> \notin R
    BY <1>1, AboveIsAsymmetric DEF Precedes
  <1>3. ASSUME NEW c \in S, NEW d \in S, NEW e \in S, <<c, d>> \in R, <<d, e>> \in R
        PROVE  <<c, e>> \in R
    <2> DEFINE x == score[c] y == score[d] z == score[e]
    <2>1. x \in Fractions /\ y \in Fractions /\ z \in Fractions
      OBVIOUS
    <2>2. /\ Above(x, y) \/ (~Above(y, x) /\ order[c] < order[d])
          /\ Above(y, z) \/ (~Above(z, y) /\ order[d] < order[e])
      BY <1>1, <1>3 DEF Precedes
    <2> HIDE DEF x, y, z
    <2>3. ~Above(y, x) /\ ~Above(z, y)
      BY <2>1, <2>2, AboveIsAsymmetric
    <2>4. ~Above(z, x)
      BY <2>1, <2>3, NotAboveIsTransitive
    <2>5. Above(x, y) => Above(x, z)
      BY <2>1, <2>3, NotAboveIsTransitive
    <2>6. Above(y, z) => Above(x, z)
      BY <2>1, <2>3, NotAboveIsTransitive
    <2>7. Above(x, z) \/ order[c] < order[e]
      BY <2>2, <2>5, <2>6
    <2> QED
      BY <1>1, <2>4, <2>7 DEF x, z, Precedes
  <1>4. ASSUME NEW c \in S, NEW d \in S, c # d, <<c, d>> \notin R PROVE <<d, c>> \in R
    BY <1>1, <1>4 DEF Precedes
  <1> QED
    BY <1>2, <1>3, <1>4 DEF StrictOrder

LEMMA RankTypes ==
    ASSUME NEW Ids, NEW ranking \in Seq(Ids), NEW c
    PROVE  /\ RankIn(ranking, c) \in 0..Len(ranking)
           /\ RankIn(ranking, c) # 0 <=> c \in ToSet(ranking)
  <1>1. CASE c \in ToSet(ranking)
    <2>1. \E i \in DOMAIN ranking : ranking[i] = c
      BY <1>1 DEF ToSet
    <2>2. (CHOOSE i \in DOMAIN ranking : ranking[i] = c) \in DOMAIN ranking
      BY <2>1
    <2>3. RankIn(ranking, c) \in DOMAIN ranking
      BY <1>1, <2>2 DEF RankIn
    <2>4. DOMAIN ranking = 1..Len(ranking) /\ Len(ranking) \in Nat
      OBVIOUS
    <2> QED
      BY <1>1, <2>3, <2>4
  <1>2. CASE c \notin ToSet(ranking)
    BY <1>2 DEF RankIn
  <1> QED
    BY <1>1, <1>2

LEMMA RankingIsFinite ==
    ASSUME NEW Ids, NEW ranking \in Seq(Ids)
    PROVE  IsFiniteSet(ToSet(ranking)) /\ ToSet(ranking) \subseteq Ids
  <1>1. IsFiniteSet(DOMAIN ranking)
    BY FS_Interval
  <1>2. ranking \in Surjection(DOMAIN ranking, ToSet(ranking))
    BY DEF Surjection, ToSet
  <1>3. IsFiniteSet(ToSet(ranking))
    BY <1>1, <1>2, FS_Surjection
  <1> QED
    BY <1>3 DEF ToSet

\* Of two rankings, whatever their scores, fuse() keeps k chunks at most, all of them from
\* the rankings, and none only if there are none.
THEOREM FuseKeeps ==
    ASSUME NEW Ids, NEW vector \in Seq(Ids), NEW keyword \in Seq(Ids),
           NEW order \in [Ids -> Nat], \A c, d \in Ids : order[c] = order[d] => c = d,
           NEW k \in Nat, k > 0
    PROVE  /\ Fuse(vector, keyword, k, order) \subseteq ToSet(vector) \union ToSet(keyword)
           /\ IsFiniteSet(Fuse(vector, keyword, k, order))
           /\ Cardinality(Fuse(vector, keyword, k, order)) <= k
           /\ \A c \in ToSet(vector) \union ToSet(keyword) : Fuse(vector, keyword, k, order) # {}
  <1> DEFINE S == ToSet(vector) \union ToSet(keyword)
             score == [c \in S |-> Score(RankIn(vector, c), RankIn(keyword, c))]
             R == {p \in S \X S : Precedes(p[1], p[2], score, order)}
  <1>1. IsFiniteSet(S) /\ S \subseteq Ids
    BY RankingIsFinite, FS_Union
  <1>2. score \in [S -> Fractions]
    BY RankTypes, ScoreTypes
  <1>3. Fuse(vector, keyword, k, order)
            = {c \in S : Cardinality({d \in S : Precedes(d, c, score, order)}) < k}
    BY DEF Fuse
  <1> HIDE DEF S, score
  <1>4. StrictOrder(R, S)
    BY <1>1, <1>2, PrecedesIsStrict
  <1>5. \A c \in S : Ahead(c, R, S) = {d \in S : Precedes(d, c, score, order)}
    BY DEF Ahead
  <1>6. Fuse(vector, keyword, k, order) = TopOf(S, R, k)
    BY <1>3, <1>5 DEF TopOf
  <1> HIDE DEF R
  <1>7. /\ IsFiniteSet(TopOf(S, R, k)) /\ Cardinality(TopOf(S, R, k)) <= k
        /\ S # {} => TopOf(S, R, k) # {}
    BY <1>1, <1>4, TopIsBounded
  <1>8. TopOf(S, R, k) \subseteq S
    BY DEF TopOf
  <1> QED
    BY <1>6, <1>7, <1>8 DEF S

\* A chunk that two rankings of up to RRF_K found scores above one that is first in one of
\* them only.
THEOREM TwoBeatOne ==
    ASSUME NEW v \in 1..RRF_K, NEW k \in 1..RRF_K
    PROVE  Above(Score(v, k), Score(1, 0)) /\ Above(Score(v, k), Score(0, 1))
  <1> DEFINE a == RRF_K + v
             b == RRF_K + k
  <1>1. a \in 61..120 /\ b \in 61..120 /\ v # 0 /\ k # 0
    BY DEF RRF_K
  <1>2. Share(v) = <<1, a>> /\ Share(k) = <<1, b>> /\ Share(0) = <<0, 1>> /\ Share(1) = <<1, 61>>
    BY <1>1 DEF Share, RRF_K
  <1>3. Score(v, k) = <<1 * b + 1 * a, a * b>>
    BY <1>2 DEF Score
  <1>4. Score(1, 0) = <<1 * 1 + 0 * 61, 61 * 1>> /\ Score(0, 1) = <<0 * 61 + 1 * 1, 1 * 61>>
    BY <1>2 DEF Score
  <1> HIDE DEF a, b
  <1>5. (a - 61) * (120 - b) >= 0
    <2>1. \A m, n \in Nat : m * n >= 0
      OBVIOUS
    <2>2. a - 61 \in Nat /\ 120 - b \in Nat
      BY <1>1
    <2> QED
      BY <2>1, <2>2
  <1>6. (a - 61) * (120 - b) = 120 * a - a * b - 7320 + 61 * b
    BY <1>1
  <1>7. (b + a) * 61 > a * b
    BY <1>1, <1>5, <1>6
  <1> QED
    BY <1>1, <1>3, <1>4, <1>7 DEF Above

\* A later place in one ranking alone scores no higher than its first.
LEMMA FirstIsBest ==
    ASSUME NEW r \in Nat \ {0}
    PROVE  ~Above(Score(r, 0), Score(1, 0)) /\ ~Above(Score(0, r), Score(0, 1))
  <1> DEFINE a == RRF_K + r
  <1>1. a \in Nat /\ a >= 61 /\ r # 0
    BY DEF RRF_K
  <1>2. Share(r) = <<1, a>> /\ Share(0) = <<0, 1>> /\ Share(1) = <<1, 61>>
    BY <1>1 DEF Share, RRF_K
  <1> HIDE DEF a
  <1>3. Score(r, 0) = <<1, a>> /\ Score(0, r) = <<1, a>>
    BY <1>1, <1>2 DEF Score
  <1>4. Score(1, 0) = <<1, 61>> /\ Score(0, 1) = <<1, 61>>
    BY <1>2 DEF Score
  <1> QED
    BY <1>1, <1>3, <1>4 DEF Above

LEMMA ShortRank ==
    ASSUME NEW l \in Nat, l <= RRF_K, NEW r \in 0..l, r # 0
    PROVE  r \in 1..RRF_K
  BY DEF RRF_K

\* fuse() keeps a chunk that both rankings found, each up to RRF_K long, before any that one
\* of them found: none of the former is cut off while one of the latter is kept.
THEOREM AgreementKept ==
    ASSUME NEW Ids, NEW vector \in Seq(Ids), NEW keyword \in Seq(Ids),
           Len(vector) <= RRF_K, Len(keyword) <= RRF_K,
           NEW order \in [Ids -> Nat], \A c, d \in Ids : order[c] = order[d] => c = d,
           NEW k \in Nat, k > 0,
           NEW x \in ToSet(vector) \intersect ToSet(keyword),
           NEW y \in Fuse(vector, keyword, k, order), y \notin ToSet(vector) \intersect ToSet(keyword)
    PROVE  x \in Fuse(vector, keyword, k, order)
  <1> DEFINE S == ToSet(vector) \union ToSet(keyword)
             score == [c \in S |-> Score(RankIn(vector, c), RankIn(keyword, c))]
             R == {p \in S \X S : Precedes(p[1], p[2], score, order)}
  <1>1. IsFiniteSet(S) /\ S \subseteq Ids
    BY RankingIsFinite, FS_Union
  <1>2. score \in [S -> Fractions]
    BY RankTypes, ScoreTypes
  <1>3. Fuse(vector, keyword, k, order)
            = {c \in S : Cardinality({d \in S : Precedes(d, c, score, order)}) < k}
    BY DEF Fuse
  <1>4. x \in S /\ y \in S
    BY <1>3
  <1>5. Above(score[x], score[y])
    <2>1. RankIn(vector, x) \in 1..RRF_K /\ RankIn(keyword, x) \in 1..RRF_K
      <3>1. RankIn(vector, x) \in 0..Len(vector) /\ RankIn(vector, x) # 0
        BY RankTypes
      <3>2. RankIn(keyword, x) \in 0..Len(keyword) /\ RankIn(keyword, x) # 0
        BY RankTypes
      <3>3. Len(vector) \in Nat /\ Len(keyword) \in Nat
        OBVIOUS
      <3> QED
        BY <3>1, <3>2, <3>3, ShortRank
    <2>2. PICK one \in {Score(1, 0), Score(0, 1)} :
                Above(score[x], one) /\ ~Above(score[y], one)
      <3>1. Above(score[x], Score(1, 0)) /\ Above(score[x], Score(0, 1))
        BY <1>4, <2>1, TwoBeatOne
      <3>2. CASE y \notin ToSet(keyword)
        <4>1. RankIn(keyword, y) = 0 /\ RankIn(vector, y) \in Nat \ {0}
          BY <1>4, <3>2, RankTypes
        <4>2. ~Above(score[y], Score(1, 0))
          BY <1>4, <4>1, FirstIsBest
        <4> QED
          BY <3>1, <4>2
      <3>3. CASE y \notin ToSet(vector)
        <4>1. RankIn(vector, y) = 0 /\ RankIn(keyword, y) \in Nat \ {0}
          BY <1>4, <3>3, RankTypes
        <4>2. ~Above(score[y], Score(0, 1))
          BY <1>4, <4>1, FirstIsBest
        <4> QED
          BY <3>1, <4>2
      <3> QED
        BY <3>2, <3>3
    <2>3. score[x] \in Fractions /\ score[y] \in Fractions /\ one \in Fractions
      BY <1>2, <1>4, ScoreTypes
    <2> HIDE DEF score
    <2> QED
      BY <2>2, <2>3, NotAboveIsTransitive
  <1> HIDE DEF S, score
  <1>6. StrictOrder(R, S)
    BY <1>1, <1>2, PrecedesIsStrict
  <1>7. \A c \in S : Ahead(c, R, S) = {d \in S : Precedes(d, c, score, order)}
    BY DEF Ahead
  <1>8. <<x, y>> \in R
    BY <1>4, <1>5 DEF Precedes
  <1> HIDE DEF R
  <1>9. Ahead(x, R, S) \subseteq Ahead(y, R, S) /\ IsFiniteSet(Ahead(y, R, S))
    <2>1. Ahead(x, R, S) \subseteq Ahead(y, R, S)
      BY <1>4, <1>6, <1>8 DEF Ahead, StrictOrder
    <2>2. IsFiniteSet(Ahead(y, R, S))
      BY <1>1, FS_Subset DEF Ahead
    <2> QED
      BY <2>1, <2>2
  <1>10. Cardinality(Ahead(x, R, S)) <= Cardinality(Ahead(y, R, S))
         /\ Cardinality(Ahead(x, R, S)) \in Nat /\ Cardinality(Ahead(y, R, S)) \in Nat
    BY <1>9, FS_Subset, FS_CardinalityType
  <1>11. Cardinality(Ahead(y, R, S)) < k
    BY <1>3, <1>4, <1>7
  <1>12. Cardinality(Ahead(x, R, S)) < k
    BY <1>10, <1>11
  <1> QED
    BY <1>3, <1>4, <1>7, <1>12
==============================================================================
