------------------------------ MODULE RankFusion ------------------------------
(***************************************************************************)
(* fuse() of vector/domain/rrf.py: reciprocal rank fusion of two rankings. *)
(* A score is a fraction <<numerator, denominator>>; for ranks up to 20    *)
(* the floating point sums of the code compare the same, ties included.    *)
(***************************************************************************)
EXTENDS Naturals, FiniteSets, SequencesExt

RRF_K == 60

\* 1 / (RRF_K + rank); rank 0 stands for a chunk that is not in the ranking.
Share(rank) == IF rank = 0 THEN <<0, 1>> ELSE <<1, RRF_K + rank>>

\* Variant: the share in the second ranking replaces that in the first.
ScoreOfLast(inVector, inKeyword) == IF inKeyword = 0 THEN Share(inVector) ELSE Share(inKeyword)

\* The score of a chunk at these ranks of the two rankings.
Score(inVector, inKeyword) ==
    LET v == Share(inVector)
        k == Share(inKeyword)
    IN  <<v[1] * k[2] + k[1] * v[2], v[2] * k[2]>>

Above(x, y) == x[1] * y[2] > y[1] * x[2]

RankIn(ranking, c) ==
    IF c \in ToSet(ranking) THEN CHOOSE i \in DOMAIN ranking : ranking[i] = c ELSE 0

\* sorted()'s key: best score first, and by id where scores are equal.
Precedes(c, d, score, IdOrder) ==
    \/ Above(score[c], score[d])
    \/ ~Above(score[d], score[c]) /\ IdOrder[c] < IdOrder[d]

\* The first k of them: those that fewer than k precede.
Fuse(vectorRanked, keywordRanked, k, IdOrder) ==
    LET all == ToSet(vectorRanked) \union ToSet(keywordRanked)
        score == [c \in all |-> Score(RankIn(vectorRanked, c), RankIn(keywordRanked, c))] IN
    {c \in all : Cardinality({d \in all : Precedes(d, c, score, IdOrder)}) < k}
==============================================================================
