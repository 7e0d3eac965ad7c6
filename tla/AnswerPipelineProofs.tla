------------------------- MODULE AnswerPipelineProofs -------------------------
(***************************************************************************)
(* Theorems of AnswerPipeline, for every set of chunks, types and texts,   *)
(* every number of retries and rows, and every interleaving of the calls.  *)
(***************************************************************************)
EXTENDS AnswerPipeline, RankFusionProofs

USE ResultAssumption, SqlAssumption, VectorAssumption

\* What a tool hands over: a failure comes without rows.
Sound(r) == r \in ToolResults \union {NoResult} /\ (Failed(r) => r.rows = 0)

\* Of nl2sql's locals: a text that is vetted or run is one the model generated.
SqlInv ==
    /\ sqlPc \in {"vet", "execute"} => text \in Texts
    /\ AsksAnew
    /\ Sound(sqlOut)

OfType(c) == docType \in {NoType, TypeOf[c]}

\* The filter is the one asked for, or its release is noted.
FilterInv == docType = wanted \/ "released" \in told

\* What the rankings hold is in the corpus and passes the filter, and no more of it than
\* the LIMIT and k allow.
RankingInv ==
    /\ searchPc # "trigram" => nearest = <<>>
    /\ searchPc # "hydrate" => ranked = {} /\ both = {}
    /\ Len(nearest) <= Limit
    /\ ToSet(nearest) \union ranked \subseteq {c \in corpus : OfType(c)}
    /\ IsFiniteSet(ranked) /\ Cardinality(ranked) <= TopK

\* Nothing found with the embedding and without a filter: there was nothing at the start.
NothingInv ==
    /\ searchPc \notin {"off", "done"} => bare \/ corpus # {}
    /\ searchPc = "keyword" => "keyword_only" \in told
    /\ (searchPc = "trigram" /\ nearest = <<>> /\ docType = NoType) => bare
    /\ (searchPc = "hydrate" /\ ranked = {} /\ "keyword_only" \notin told) => bare

SearchInv == FilterInv /\ RankingInv /\ NothingInv /\ Sound(searchOut)

\* No call is under way, and none has left anything, but while respond() waits for them.
PhaseInv ==
    /\ phase # "running" => sqlPc = "off" /\ searchPc = "off" /\ graphPc = "off"
    /\ Sound(graphOut)

PipelineInv == SqlInv /\ SearchInv /\ PhaseInv

------------------------------------------------------------------------------
(* Results *)

LEMMA FoundTypes ==
    ASSUME NEW n \in 0..MaxRows, NEW notes \in SUBSET Disclosures
    PROVE  /\ Found(n, notes) \in ToolResults /\ Sound(Found(n, notes))
           /\ Found(n, notes).told = notes
           /\ Found(n, notes).status = "empty" <=> n = 0
  BY DEF Found, ToolResults, Statuses, Sound, Failed

LEMMA EmptyTypes ==
    ASSUME NEW s \in Statuses
    PROVE  EmptyResult(s) \in ToolResults /\ Sound(EmptyResult(s))
  BY DEF EmptyResult, ToolResults, Sound

------------------------------------------------------------------------------
(* nl2sql *)

SqlMove ==
    \/ SqlCalled /\ sqlPc = "off"
    \/ SqlForgotten
    \/ SqlStep(blank)
    \/ UNCHANGED sqlVars

LEMMA SqlReturns ==
    ASSUME SqlTypeOK, SqlInv, NEW r \in ToolResults, Sound(r), SqlReturn(r)
    PROVE  SqlTypeOK' /\ SqlInv'
  <1>1. <<>> \in Seq(Corrections) /\ Len(<<>>) = 0
    OBVIOUS
  <1>2. SqlTypeOK'
    BY <1>1 DEF SqlReturn, NoSqlLocals, SqlTypeOK
  <1> QED
    BY <1>1, <1>2 DEF SqlReturn, NoSqlLocals, SqlInv, AsksAnew, Sound

LEMMA SqlRetries ==
    ASSUME SqlTypeOK, SqlInv, text \in Texts,
           NEW reason \in {"guard", "semantic", "database"},
           NEW status \in Statuses, RetryOrReturn(reason, status)
    PROVE  SqlTypeOK' /\ SqlInv'
  <1>1. CASE Retry(reason)
    <2> DEFINE correction == [sql |-> text, reason |-> reason]
    <2>1. correction \in Corrections
      BY DEF Corrections
    <2>2. /\ Append(prompt, correction) \in Seq(Corrections)
          /\ Len(Append(prompt, correction)) = Len(prompt) + 1
      BY <2>1 DEF SqlTypeOK
    <2>3. SqlTypeOK'
      BY <1>1, <2>2 DEF Retry, MayRetry, SqlTypeOK
    <2> QED
      BY <1>1, <2>2, <2>3 DEF Retry, MayRetry, SqlTypeOK, SqlInv, AsksAnew, Sound
  <1>2. CASE SqlReturn(EmptyResult(status))
    BY <1>2, SqlReturns, EmptyTypes
  <1> QED
    BY <1>1, <1>2 DEF RetryOrReturn

LEMMA SqlSteps ==
    ASSUME SqlTypeOK, SqlInv, SqlMove
    PROVE  SqlTypeOK' /\ SqlInv'
  <1> USE DEF SqlTypeOK, SqlInv, AsksAnew, Sound
  <1>1. CASE SqlCalled
    BY <1>1 DEF SqlCalled
  <1>2. CASE SqlForgotten
    <2>1. <<>> \in Seq(Corrections) /\ Len(<<>>) = 0
      OBVIOUS
    <2> QED
      BY <1>2, <2>1 DEF SqlForgotten, NoSqlLocals, NoResult
  <1>3. CASE BlankSql
    BY <1>3, SqlReturns, EmptyTypes DEF BlankSql, Statuses
  <1>4. CASE SqlStarts
    BY <1>4 DEF SqlStarts
  <1>5. CASE Generate
    <2>1. CASE \E s \in {"timeout", "upstream_error"} : SqlReturn(EmptyResult(s))
      BY <2>1, SqlReturns, EmptyTypes DEF Statuses
    <2>2. CASE text' \in Texts /\ sqlPc' = "vet" /\ UNCHANGED <<attempt, prompt, sqlOut>>
      BY <2>2
    <2> QED
      BY <1>5, <2>1, <2>2 DEF Generate
  <1>6. CASE Vet
    <2>1. text \in Texts
      BY <1>6 DEF Vet
    <2>2. CASE \/ RetryOrReturn("guard", "guard_rejected")
               \/ RetryOrReturn("semantic", "guard_rejected")
      BY <2>1, <2>2, SqlRetries DEF Statuses
    <2>3. CASE /\ text \in Guarded \intersect Relevant /\ sqlPc' = "execute"
               /\ UNCHANGED <<attempt, prompt, text, sqlOut>>
      BY <2>1, <2>3
    <2> QED
      BY <1>6, <2>2, <2>3 DEF Vet
  <1>7. CASE Execute
    <2>1. text \in Texts
      BY <1>7 DEF Execute
    <2>2. CASE \E n \in 0..MaxRows : SqlReturn(Found(n, {}))
      BY <2>2, SqlReturns, FoundTypes
    <2>3. CASE SqlReturn(EmptyResult("timeout"))
      BY <2>3, SqlReturns, EmptyTypes DEF Statuses
    <2>4. CASE RetryOrReturn("database", "upstream_error")
      BY <2>1, <2>4, SqlRetries DEF Statuses
    <2> QED
      BY <1>7, <2>2, <2>3, <2>4 DEF Execute
  <1>8. CASE UNCHANGED sqlVars
    BY <1>8 DEF sqlVars
  <1> QED
    BY <1>1, <1>2, <1>3, <1>4, <1>5, <1>6, <1>7, <1>8 DEF SqlMove, SqlStep

------------------------------------------------------------------------------
(* The document search *)

SearchMove ==
    \/ /\ searchPc = "off" /\ UNCHANGED corpus
       /\ \E type \in DocTypes \union {NoType} : SearchCalled(type)
    \/ SearchForgotten /\ UNCHANGED corpus
    \/ SearchStep(blank)
    \/ Ingest
    \/ UNCHANGED <<corpus, searchVars>>

LEMMA CutTypes ==
    ASSUME NEW S \in SUBSET Chunks, NEW n \in Nat, NEW T \in Cut(S, n)
    PROVE  /\ T \in SUBSET S /\ IsFiniteSet(T)
           /\ Cardinality(T) \in Nat /\ Cardinality(T) <= n
           /\ T = {} => S = {} \/ n = 0
  <1>1. /\ IsFiniteSet(S) /\ Cardinality(S) \in Nat
        /\ T \in SUBSET S
        /\ Cardinality(T) = IF Cardinality(S) < n THEN Cardinality(S) ELSE n
    BY FS_Subset, FS_CardinalityType DEF Cut
  <1>2. IsFiniteSet(T)
    BY <1>1, FS_Subset
  <1>3. T = {} => Cardinality(T) = 0
    BY FS_EmptySet
  <1>4. Cardinality(S) = 0 => S = {}
    BY <1>1, FS_EmptySet
  <1> QED
    BY <1>1, <1>2, <1>3, <1>4

\* What ORDER BY ... LIMIT may give.
LEMMA RankingTypes ==
    ASSUME NEW S \in SUBSET Chunks, NEW s \in Rankings(S)
    PROVE  /\ s \in Seq(Chunks) /\ Len(s) <= Limit
           /\ ToSet(s) \subseteq S
           /\ s = <<>> => S = {}
  <1>1. PICK T \in Cut(S, Limit) : s \in SetToSeqs(T)
    BY DEF Rankings
  <1>2. Limit \in Nat /\ Limit # 0
    OBVIOUS
  <1>3. /\ T \in SUBSET S /\ Cardinality(T) \in Nat /\ Cardinality(T) <= Limit
        /\ T = {} => S = {}
        /\ IsFiniteSet(T)
    BY <1>2, CutTypes
  <1>4. s \in [1..Cardinality(T) -> T]
    BY <1>1 DEF SetToSeqs
  <1>5. s \in Seq(Chunks) /\ Len(s) = Cardinality(T)
    BY <1>3, <1>4
  <1>6. s = <<>> => T = {}
    BY <1>3, <1>5, FS_EmptySet
  <1> QED
    BY <1>3, <1>4, <1>5, <1>6 DEF ToSet

LEMMA SearchReturns ==
    ASSUME SearchTypeOK, SearchInv,
           NEW r \in ToolResults, Sound(r), SearchReturn(r), corpus' = corpus
    PROVE  SearchTypeOK' /\ SearchInv'
  <1>1. <<>> \in Seq(Chunks) /\ Len(<<>>) = 0 /\ ToSet(<<>>) = {}
    BY DEF ToSet
  <1>2. IsFiniteSet({}) /\ Cardinality({}) = 0
    BY FS_EmptySet
  <1>3. SearchTypeOK'
    BY <1>1 DEF SearchReturn, NoSearchLocals, SearchTypeOK
  <1>4. RankingInv'
    BY <1>1, <1>2 DEF SearchReturn, NoSearchLocals, RankingInv, OfType, RRF_K
  <1> QED
    BY <1>3, <1>4 DEF SearchReturn, NoSearchLocals, SearchInv, FilterInv, NothingInv, Sound

\* What fuse() keeps of the two rankings of a search.
LEMMA FusedTypes ==
    ASSUME SearchTypeOK, SearchInv, NEW similar \in SUBSET Matching, NEW key \in Rankings(similar)
    PROVE  LET fused == Fuse(nearest, key, TopK, IdOrder) IN
           /\ fused \subseteq {c \in corpus : OfType(c)}
           /\ fused \in SUBSET Chunks
           /\ IsFiniteSet(fused) /\ Cardinality(fused) <= TopK
           /\ fused = {} => nearest = <<>>
  <1>1. similar \in SUBSET Chunks
    BY DEF Matching, SearchTypeOK
  <1>2. key \in Seq(Chunks) /\ ToSet(key) \subseteq similar
    BY <1>1, RankingTypes
  <1>3. nearest \in Seq(Chunks) /\ TopK \in Nat /\ TopK > 0
    BY DEF SearchTypeOK
  <1>k. key \in Seq(Chunks)
    BY <1>2
  <1>n. nearest \in Seq(Chunks)
    BY <1>3
  <1>t. TopK \in Nat /\ TopK > 0
    BY <1>3
  <1>o. IdOrder \in [Chunks -> Nat] /\ \A c, d \in Chunks : IdOrder[c] = IdOrder[d] => c = d
    OBVIOUS
  <1>4. /\ Fuse(nearest, key, TopK, IdOrder) \subseteq ToSet(nearest) \union ToSet(key)
        /\ IsFiniteSet(Fuse(nearest, key, TopK, IdOrder))
        /\ Cardinality(Fuse(nearest, key, TopK, IdOrder)) <= TopK
        /\ Fuse(nearest, key, TopK, IdOrder) = {} => ToSet(nearest) \union ToSet(key) = {}
    <2>1. Fuse(nearest, key, TopK, IdOrder) \subseteq ToSet(nearest) \union ToSet(key)
      BY <1>k, <1>n, <1>o, <1>t, FuseKeeps
    <2>2. IsFiniteSet(Fuse(nearest, key, TopK, IdOrder))
      BY <1>k, <1>n, <1>o, <1>t, FuseKeeps
    <2>3. Cardinality(Fuse(nearest, key, TopK, IdOrder)) <= TopK
      BY <1>k, <1>n, <1>o, <1>t, FuseKeeps
    <2>4. \A c \in ToSet(nearest) \union ToSet(key) : Fuse(nearest, key, TopK, IdOrder) # {}
      BY <1>k, <1>n, <1>o, <1>t, FuseKeeps
    <2> QED
      BY <2>1, <2>2, <2>3, <2>4
  <1>5. ToSet(nearest) = {} => nearest = <<>>
    <2>1. nearest # <<>> => nearest[1] \in ToSet(nearest)
      BY <1>3 DEF ToSet
    <2> QED
      BY <2>1
  <1>6. ToSet(nearest) \union ToSet(key) \subseteq {c \in corpus : OfType(c)}
    BY <1>2 DEF SearchInv, RankingInv, Matching, OfType
  <1>7. corpus \subseteq Chunks
    BY DEF SearchTypeOK
  <1> QED
    BY <1>4, <1>5, <1>6, <1>7

\* A hydrated ranking is found whole.
LEMMA HydrateReturns ==
    ASSUME SearchTypeOK, SearchInv, Hydrate
    PROVE  /\ SearchTypeOK' /\ SearchInv'
           /\ searchOut'.told = told
           /\ searchOut'.status = "empty" => ranked = {}
  <1> DEFINE n == Cardinality(ranked \intersect corpus)
  <1>1. ranked \intersect corpus = ranked
    BY DEF SearchInv, RankingInv
  <1>2. n \in 0..MaxRows
    <2>1. Cardinality(ranked) \in Nat /\ Cardinality(ranked) <= TopK
      BY FS_CardinalityType DEF SearchInv, RankingInv
    <2>2. TopK \in Nat /\ TopK <= MaxRows
      OBVIOUS
    <2>3. n = Cardinality(ranked)
      BY <1>1
    <2> HIDE DEF n
    <2> QED
      BY <2>1, <2>2, <2>3
  <1>3. n = 0 => ranked = {}
    BY <1>1, FS_EmptySet DEF SearchInv, RankingInv
  <1>4. searchOut' = Found(n, told) /\ told \in SUBSET Disclosures
    BY DEF Hydrate, SearchReturn, SearchTypeOK
  <1>5. SearchReturn(Found(n, told)) /\ corpus' = corpus
    BY DEF Hydrate
  <1> HIDE DEF n
  <1>6. /\ Found(n, told) \in ToolResults /\ Sound(Found(n, told))
        /\ Found(n, told).told = told
        /\ Found(n, told).status = "empty" <=> n = 0
    BY <1>2, <1>4, FoundTypes
  <1>7. SearchTypeOK' /\ SearchInv'
    BY <1>5, <1>6, SearchReturns
  <1> QED
    BY <1>3, <1>4, <1>6, <1>7

LEMMA SearchTypesStep == SearchTypeOK /\ SearchInv /\ SearchMove => SearchTypeOK'
  <1> SUFFICES ASSUME SearchTypeOK, SearchInv, SearchMove PROVE SearchTypeOK'
    OBVIOUS
  <1> USE DEF SearchTypeOK, SearchGoto
  <1>e. <<>> \in Seq(Chunks)
    OBVIOUS
  <1>1. CASE UNCHANGED corpus /\ \E type \in DocTypes \union {NoType} : SearchCalled(type)
    BY <1>1 DEF SearchCalled
  <1>2. CASE SearchForgotten /\ UNCHANGED corpus
    BY <1>2, <1>e DEF SearchForgotten, NoSearchLocals
  <1>3. CASE BlankSearch
    BY <1>3, SearchReturns, EmptyTypes DEF BlankSearch, Statuses
  <1>4. CASE SearchStarts
    BY <1>4 DEF SearchStarts
  <1>5. CASE Embed
    BY <1>5 DEF Embed, Disclosures
  <1>6. CASE VectorRanked
    <2>1. Matching \in SUBSET Chunks
      BY DEF Matching
    <2>2. PICK seen \in SUBSET Matching : nearest' \in Rankings(seen)
      BY <1>6 DEF VectorRanked
    <2>3. nearest' \in Seq(Chunks)
      BY <2>1, <2>2, RankingTypes
    <2> QED
      BY <1>6, <2>3 DEF VectorRanked
  <1>7. CASE TrigramRanked
    <2>0. PICK similar \in SUBSET Matching : \E key \in Rankings(similar) :
            LET fused == Fuse(nearest, key, TopK, IdOrder) IN
            \/ fused = {} /\ docType # NoType /\ ReleaseFilter
            \/ /\ fused # {} \/ docType = NoType
               /\ ranked' = fused
               /\ both' = ToSet(nearest) \intersect ToSet(key)
               /\ SearchGoto("hydrate")
               /\ UNCHANGED <<docType, told>>
      BY <1>7 DEF TrigramRanked
    <2>1. PICK key \in Rankings(similar) :
            LET fused == Fuse(nearest, key, TopK, IdOrder) IN
            \/ fused = {} /\ docType # NoType /\ ReleaseFilter
            \/ /\ fused # {} \/ docType = NoType
               /\ ranked' = fused
               /\ both' = ToSet(nearest) \intersect ToSet(key)
               /\ SearchGoto("hydrate")
               /\ UNCHANGED <<docType, told>>
      BY <2>0
    <2>2. Fuse(nearest, key, TopK, IdOrder) \in SUBSET Chunks
      BY FusedTypes
    <2>3. /\ searchPc' \in {"embed", "hydrate"}
          /\ docType' \in {docType, NoType}
          /\ ranked' \in SUBSET Chunks /\ both' \in SUBSET Chunks
          /\ told' \in SUBSET Disclosures
          /\ UNCHANGED searchOut
      <3>1. ToSet(nearest) \in SUBSET Chunks
        BY RankingIsFinite
      <3> QED
        BY <2>1, <2>2, <3>1 DEF ReleaseFilter, Disclosures
    <2> QED
      BY <1>7, <1>e, <2>3 DEF TrigramRanked
  <1>8. CASE KeywordRanked
    <2>1. ranked' \in SUBSET Chunks
      BY <1>8 DEF KeywordRanked, Cut, Matching
    <2> QED
      BY <1>8, <2>1 DEF KeywordRanked
  <1>9. CASE Hydrate
    BY <1>9, HydrateReturns
  <1>10. CASE SearchFails
    BY <1>10, SearchReturns, EmptyTypes DEF SearchFails, Statuses
  <1>11. CASE Ingest
    BY <1>11 DEF Ingest, searchVars
  <1>12. CASE UNCHANGED <<corpus, searchVars>>
    BY <1>12 DEF searchVars
  <1> QED
    BY <1>1, <1>2, <1>3, <1>4, <1>5, <1>6, <1>7, <1>8, <1>9, <1>10, <1>11, <1>12
       DEF SearchMove, SearchStep

LEMMA SearchInvStep == SearchTypeOK /\ SearchInv /\ SearchMove => SearchInv'
  <1> SUFFICES ASSUME SearchTypeOK, SearchInv, SearchMove PROVE SearchInv'
    OBVIOUS
  <1> USE DEF SearchInv, SearchGoto
  <1>e. /\ Len(<<>>) = 0 /\ ToSet(<<>>) = {} /\ 0 <= Limit
        /\ IsFiniteSet({}) /\ Cardinality({}) = 0 /\ 0 <= TopK
    BY FS_EmptySet DEF ToSet, RRF_K
  <1>1. CASE /\ searchPc = "off" /\ UNCHANGED corpus
             /\ \E type \in DocTypes \union {NoType} : SearchCalled(type)
    <2>1. FilterInv'
      BY <1>1 DEF SearchCalled, FilterInv
    <2>2. RankingInv'
      BY <1>1, <1>e DEF SearchCalled, RankingInv, OfType
    <2>0. bare' \/ corpus' # {}
      <3>1. bare' = (corpus = {}) /\ corpus' = corpus
        BY <1>1 DEF SearchCalled
      <3> QED
        BY <3>1, Zenon
    <2>3. NothingInv' /\ Sound(searchOut')
      BY <1>1, <2>0 DEF SearchCalled, NothingInv, Sound, Failed, NoResult
    <2> QED
      BY <2>1, <2>2, <2>3 DEF Sound
  <1>2. CASE SearchForgotten /\ UNCHANGED corpus
    <2>1. FilterInv'
      BY <1>2 DEF SearchForgotten, NoSearchLocals, FilterInv
    <2>2. RankingInv'
      BY <1>2, <1>e DEF SearchForgotten, NoSearchLocals, RankingInv, OfType
    <2>3. NothingInv' /\ Sound(searchOut')
      BY <1>2 DEF SearchForgotten, NoSearchLocals, NothingInv, Sound, Failed, NoResult
    <2> QED
      BY <2>1, <2>2, <2>3 DEF Sound
  <1>3. CASE BlankSearch
    BY <1>3, SearchReturns, EmptyTypes DEF BlankSearch, Statuses
  <1>4. CASE SearchStarts
    BY <1>4 DEF SearchStarts, FilterInv, RankingInv, NothingInv, OfType, Sound
  <1>5. CASE Embed
    BY <1>5 DEF Embed, FilterInv, RankingInv, NothingInv, OfType, Sound
  <1>6. CASE VectorRanked
    <2>1. Matching \in SUBSET Chunks /\ Matching = {c \in corpus : OfType(c)}
      BY DEF Matching, SearchTypeOK, OfType
    <2>2. PICK seen \in SUBSET Matching :
            (docType = NoType => seen = Matching) /\ nearest' \in Rankings(seen)
      BY <1>6 DEF VectorRanked
    <2>3. /\ Len(nearest') <= Limit /\ ToSet(nearest') \subseteq seen
          /\ nearest' = <<>> => seen = {}
      BY <2>1, <2>2, RankingTypes
    <2>4. RankingInv'
      BY <1>6, <2>1, <2>2, <2>3 DEF VectorRanked, RankingInv, OfType
    <2>5. NothingInv'
      BY <1>6, <2>1, <2>2, <2>3 DEF VectorRanked, NothingInv, OfType
    <2> QED
      BY <1>6, <2>4, <2>5 DEF VectorRanked, FilterInv, Sound
  <1>7. CASE TrigramRanked
    <2>0. PICK similar \in SUBSET Matching : \E key \in Rankings(similar) :
            LET fused == Fuse(nearest, key, TopK, IdOrder) IN
            \/ fused = {} /\ docType # NoType /\ ReleaseFilter
            \/ /\ fused # {} \/ docType = NoType
               /\ ranked' = fused
               /\ both' = ToSet(nearest) \intersect ToSet(key)
               /\ SearchGoto("hydrate")
               /\ UNCHANGED <<docType, told>>
      BY <1>7 DEF TrigramRanked
    <2>1. PICK key \in Rankings(similar) :
            LET fused == Fuse(nearest, key, TopK, IdOrder) IN
            \/ fused = {} /\ docType # NoType /\ ReleaseFilter
            \/ /\ fused # {} \/ docType = NoType
               /\ ranked' = fused
               /\ both' = ToSet(nearest) \intersect ToSet(key)
               /\ SearchGoto("hydrate")
               /\ UNCHANGED <<docType, told>>
      BY <2>0
    <2> DEFINE fused == Fuse(nearest, key, TopK, IdOrder)
    <2>2. /\ fused \subseteq {c \in corpus : OfType(c)}
          /\ IsFiniteSet(fused) /\ Cardinality(fused) <= TopK
          /\ fused = {} => nearest = <<>>
      BY FusedTypes
    <2>3. nearest' = <<>> /\ UNCHANGED <<corpus, wanted, bare, searchOut>> /\ searchPc = "trigram"
      BY <1>7, <2>1 DEF TrigramRanked, ReleaseFilter
    <2>4. CASE ReleaseFilter
      BY <1>e, <2>3, <2>4 DEF ReleaseFilter, FilterInv, RankingInv, NothingInv, OfType, Sound
    <2>5. CASE /\ fused # {} \/ docType = NoType
               /\ ranked' = fused
               /\ both' = ToSet(nearest) \intersect ToSet(key)
               /\ SearchGoto("hydrate")
               /\ UNCHANGED <<docType, told>>
      <3> HIDE DEF fused
      <3>1. RankingInv'
        BY <1>e, <2>2, <2>3, <2>5 DEF RankingInv, OfType
      <3>2. NothingInv'
        BY <2>2, <2>3, <2>5 DEF NothingInv
      <3> QED
        BY <2>3, <2>5, <3>1, <3>2 DEF FilterInv, Sound
    <2> QED
      BY <2>1, <2>4, <2>5
  <1>8. CASE KeywordRanked
    <2>1. PICK similar \in SUBSET Matching : ranked' \in Cut(similar, TopK)
      BY <1>8 DEF KeywordRanked
    <2>2. similar \in SUBSET Chunks /\ similar \subseteq {c \in corpus : OfType(c)} /\ TopK \in Nat
      BY DEF Matching, SearchTypeOK, OfType
    <2>3. ranked' \subseteq similar /\ IsFiniteSet(ranked') /\ Cardinality(ranked') <= TopK
      BY <2>1, <2>2, CutTypes
    <2>4. RankingInv'
      BY <1>8, <1>e, <2>2, <2>3 DEF KeywordRanked, RankingInv, OfType
    <2> QED
      BY <1>8, <2>4 DEF KeywordRanked, FilterInv, NothingInv, Sound
  <1>9. CASE Hydrate
    BY <1>9, HydrateReturns
  <1>10. CASE SearchFails
    BY <1>10, SearchReturns, EmptyTypes DEF SearchFails, Statuses
  <1>11. CASE Ingest
    BY <1>11 DEF Ingest, searchVars, FilterInv, RankingInv, NothingInv, OfType, Sound
  <1>12. CASE UNCHANGED <<corpus, searchVars>>
    BY <1>12 DEF searchVars, FilterInv, RankingInv, NothingInv, OfType, Sound
  <1> QED
    BY <1>1, <1>2, <1>3, <1>4, <1>5, <1>6, <1>7, <1>8, <1>9, <1>10, <1>11, <1>12
       DEF SearchMove, SearchStep

------------------------------------------------------------------------------
(* The pipeline around them *)

LEMMA RouteTypes == Routes \subseteq Seq(Tools)
  <1>1. IsFiniteSet(Tools) /\ Cardinality(Tools) \in Nat
    <2>1. IsFiniteSet({"vector_search"}) /\ IsFiniteSet({"vector_search"} \union {"nl2sql"})
      BY FS_Singleton, FS_AddElement
    <2>2. Tools = ({"vector_search"} \union {"nl2sql"}) \union {"knowledge_graph"}
      BY DEF Tools
    <2>3. IsFiniteSet(Tools)
      BY <2>1, <2>2, FS_AddElement
    <2> QED
      BY <2>3, FS_CardinalityType
  <1>2. SetToSeqs(Tools) \subseteq [1..Cardinality(Tools) -> Tools]
    BY DEF SetToSeqs
  <1>3. [1..Cardinality(Tools) -> Tools] \subseteq Seq(Tools)
    BY <1>1
  <1>4. \A t \in Tools : <<t>> \in Seq(Tools)
    OBVIOUS
  <1> QED
    BY <1>2, <1>3, <1>4 DEF Routes

\* Each part of the pipeline makes a move of its own or none.
LEMMA Moves ==
    ASSUME PhaseInv, [Next]_vars
    PROVE  SqlMove /\ SearchMove
  <1> USE DEF SqlMove, SearchMove
  <1>1. CASE Ask
    BY <1>1 DEF Ask, PhaseInv
  <1>2. CASE AskUnroutable
    BY <1>2 DEF AskUnroutable
  <1>3. CASE CallSql
    BY <1>3 DEF CallSql
  <1>4. CASE CallSearch
    BY <1>4 DEF CallSearch
  <1>5. CASE CallGraph \/ Word
    BY <1>5 DEF CallGraph, Word
  <1>6. CASE Compose
    BY <1>6 DEF Compose
  <1>7. CASE IngestCommits
    BY <1>7 DEF IngestCommits
  <1>8. CASE UNCHANGED vars
    BY <1>8 DEF vars
  <1> QED
    BY <1>1, <1>2, <1>3, <1>4, <1>5, <1>6, <1>7, <1>8 DEF Next

LEMMA PhaseStep == PhaseInv /\ [Next]_vars => PhaseInv'
  <1> SUFFICES ASSUME PhaseInv, [Next]_vars PROVE PhaseInv'
    OBVIOUS
  <1> USE DEF PhaseInv
  <1>1. CASE Ask
    BY <1>1 DEF Ask, Sound
  <1>2. CASE AskUnroutable
    BY <1>2 DEF AskUnroutable, graphVars, sqlVars, searchVars, Sound
  <1>3. CASE CallSql
    <2>1. sqlPc # "off"
      BY <1>3 DEF CallSql, SqlStep, BlankSql, SqlStarts, Generate, Vet, Execute
    <2> QED
      BY <1>3, <2>1 DEF CallSql, respondVars, graphVars, Sound
  <1>4. CASE CallSearch
    <2>1. searchPc # "off"
      BY <1>4 DEF CallSearch, SearchStep, BlankSearch, SearchStarts, Embed, VectorRanked,
                  TrigramRanked, KeywordRanked, Hydrate, SearchFails
    <2> QED
      BY <1>4, <2>1 DEF CallSearch, respondVars, graphVars, Sound
  <1>5. CASE CallGraph
    <2>1. Sound(graphOut')
      <3>1. CASE \E n \in 0..MaxRows : graphOut' = Found(n, {})
        BY <3>1, FoundTypes
      <3>2. CASE \E s \in {"entity_not_found", "guard_rejected", "upstream_error"} :
                    graphOut' = EmptyResult(s)
        BY <3>2, EmptyTypes DEF Statuses
      <3> QED
        BY <1>5, <3>1, <3>2 DEF CallGraph
    <2> QED
      BY <1>5, <2>1 DEF CallGraph, respondVars, Sound
  <1>6. CASE Compose
    <2>1. Sound(graphOut')
      BY <1>6 DEF Compose, Sound, Failed, NoResult
    <2> QED
      BY <1>6, <2>1 DEF Compose, SqlForgotten, SearchForgotten, Sound
  <1>7. CASE Word
    BY <1>7 DEF Word, graphVars, sqlVars, searchVars, Sound
  <1>8. CASE IngestCommits
    BY <1>8 DEF IngestCommits, Ingest, respondVars, graphVars, sqlVars, searchVars, Sound
  <1>9. CASE UNCHANGED vars
    BY <1>9 DEF vars, respondVars, graphVars, sqlVars, searchVars, Sound
  <1> QED
    BY <1>1, <1>2, <1>3, <1>4, <1>5, <1>6, <1>7, <1>8, <1>9 DEF Next

RespondTypeOK ==
    /\ phase \in {"idle", "running", "composing", "answered"}
    /\ blank \in BOOLEAN
    /\ decisions \in Seq(Tools)
    /\ graphPc \in {"off", "start", "done"}
    /\ answer \in Answers

LEMMA OutSound ==
    ASSUME PipelineInv, NEW t \in Tools
    PROVE  Sound(Out(t))
  BY DEF PipelineInv, SqlInv, SearchInv, PhaseInv, Tools, Out

LEMMA RespondStep == RespondTypeOK /\ PipelineInv /\ [Next]_vars => RespondTypeOK'
  <1> SUFFICES ASSUME RespondTypeOK, PipelineInv, [Next]_vars PROVE RespondTypeOK'
    OBVIOUS
  <1> USE DEF RespondTypeOK
  <1>n. NoAnswer \in Answers /\ [NoAnswer EXCEPT !.kind = "no_route"] \in Answers
    BY DEF NoAnswer, Answers, AnswerKinds
  <1>1. CASE Ask
    BY <1>1, <1>n, RouteTypes DEF Ask
  <1>2. CASE AskUnroutable
    BY <1>2, <1>n DEF AskUnroutable, graphVars
  <1>3. CASE CallSql \/ CallSearch
    BY <1>3 DEF CallSql, CallSearch, respondVars, graphVars
  <1>4. CASE CallGraph
    BY <1>4 DEF CallGraph, respondVars
  <1>5. CASE Compose
    <2>1. PICK i \in DOMAIN decisions :
            answer' = [NoAnswer EXCEPT !.tool = decisions[i], !.result = DecisionResult(i)]
      BY <1>5 DEF Compose
    <2>2. decisions[i] \in Tools
      OBVIOUS
    <2>3. DecisionResult(i) \in ToolResults \union {NoResult}
      BY <2>2, OutSound DEF DecisionResult, Sound
    <2>4. answer' \in Answers
      BY <2>1, <2>2, <2>3 DEF NoAnswer, Answers, AnswerKinds
    <2>5. <<>> \in Seq(Tools)
      OBVIOUS
    <2> QED
      BY <1>5, <2>4, <2>5 DEF Compose
  <1>6. CASE Word
    <2>1. answer' \in Answers
      BY <1>6 DEF Word, Answers, AnswerKinds
    <2> QED
      BY <1>6, <2>1 DEF Word, graphVars
  <1>7. CASE IngestCommits \/ UNCHANGED vars
    BY <1>7 DEF IngestCommits, vars, respondVars, graphVars
  <1> QED
    BY <1>1, <1>2, <1>3, <1>4, <1>5, <1>6, <1>7 DEF Next

LEMMA PipelineStep == TypeOK /\ PipelineInv /\ [Next]_vars => TypeOK' /\ PipelineInv'
  <1> SUFFICES ASSUME TypeOK, PipelineInv, [Next]_vars PROVE TypeOK' /\ PipelineInv'
    OBVIOUS
  <1>1. SqlMove /\ SearchMove
    BY Moves DEF PipelineInv
  <1>2. SqlTypeOK' /\ SqlInv'
    BY <1>1, SqlSteps DEF TypeOK, PipelineInv
  <1>3. SearchTypeOK' /\ SearchInv'
    BY <1>1, SearchTypesStep, SearchInvStep DEF TypeOK, PipelineInv
  <1>4. PhaseInv'
    BY PhaseStep DEF PipelineInv
  <1>5. RespondTypeOK'
    BY RespondStep DEF TypeOK, RespondTypeOK
  <1> QED
    BY <1>2, <1>3, <1>4, <1>5 DEF TypeOK, PipelineInv, RespondTypeOK, PhaseInv, Sound

LEMMA PipelineInit == Init => TypeOK /\ PipelineInv
  <1> SUFFICES ASSUME Init PROVE TypeOK /\ PipelineInv
    OBVIOUS
  <1>e. /\ Len(<<>>) = 0 /\ ToSet(<<>>) = {} /\ 0 <= Limit
        /\ <<>> \in Seq(Chunks) /\ <<>> \in Seq(Corrections) /\ <<>> \in Seq(Tools)
        /\ IsFiniteSet({}) /\ Cardinality({}) = 0 /\ 0 <= TopK
    BY FS_EmptySet DEF ToSet, RRF_K
  <1>1. SqlTypeOK /\ SqlInv
    BY <1>e DEF Init, SqlInit, SqlTypeOK, SqlInv, AsksAnew, Sound, Failed, NoResult
  <1>2. SearchTypeOK
    BY <1>e DEF Init, SearchInit, SearchTypeOK
  <1>3. SearchInv
    BY <1>e DEF Init, SearchInit, SearchInv, FilterInv, RankingInv, NothingInv, OfType, Sound,
                Failed, NoResult
  <1>4. PhaseInv
    BY DEF Init, SqlInit, SearchInit, PhaseInv, Sound, Failed, NoResult
  <1>5. RespondTypeOK
    BY <1>e DEF Init, RespondTypeOK, NoAnswer, Answers, AnswerKinds
  <1> QED
    BY <1>1, <1>2, <1>3, <1>4, <1>5 DEF TypeOK, PipelineInv, RespondTypeOK, PhaseInv, Sound

LEMMA PipelineAlways == Spec => [](TypeOK /\ PipelineInv)
  BY PipelineInit, PipelineStep, PTL DEF Spec

------------------------------------------------------------------------------
(* What holds of every question *)

\* Every variable keeps to its type; of a search's rows it matters that fuse() keeps no
\* more than k chunks.
THEOREM TypeCorrect == Spec => []TypeOK
  BY PipelineAlways, PTL

\* Each attempt asks with one correction more, and the budget bounds them.
THEOREM EachAttemptAnew == Spec => []AsksAnew
  <1>1. PipelineInv => AsksAnew
    BY DEF PipelineInv, SqlInv
  <1> QED
    BY <1>1, PipelineAlways, PTL

\* Every step of a search keeps the chunks on which both rankings agree before the others.
LEMMA AgreementStep ==
    ASSUME Limit <= RRF_K, SearchTypeOK, SearchInv, AgreementWins, SearchMove
    PROVE  AgreementWins'
  <1> USE DEF AgreementWins
  <1>1. CASE TrigramRanked
    <2>1. PICK similar \in SUBSET Matching : \E key \in Rankings(similar) :
            LET fused == Fuse(nearest, key, TopK, IdOrder) IN
            \/ fused = {} /\ docType # NoType /\ ReleaseFilter
            \/ /\ fused # {} \/ docType = NoType
               /\ ranked' = fused
               /\ both' = ToSet(nearest) \intersect ToSet(key)
               /\ SearchGoto("hydrate")
               /\ UNCHANGED <<docType, told>>
      BY <1>1 DEF TrigramRanked
    <2>2. PICK key \in Rankings(similar) :
            \/ ReleaseFilter
            \/ /\ ranked' = Fuse(nearest, key, TopK, IdOrder)
               /\ both' = ToSet(nearest) \intersect ToSet(key)
      BY <2>1
    <2>3. CASE ReleaseFilter
      BY <2>3 DEF ReleaseFilter
    <2>4. CASE /\ ranked' = Fuse(nearest, key, TopK, IdOrder)
               /\ both' = ToSet(nearest) \intersect ToSet(key)
      <3>1. similar \in SUBSET Chunks
        BY DEF Matching, SearchTypeOK
      <3>2. key \in Seq(Chunks) /\ Len(key) <= Limit
        BY <3>1, RankingTypes
      <3>3. nearest \in Seq(Chunks) /\ Len(nearest) <= Limit
        BY DEF SearchTypeOK, SearchInv, RankingInv
      <3>4. Len(key) <= RRF_K /\ Len(nearest) <= RRF_K
        BY <3>2, <3>3 DEF RRF_K
      <3>5. /\ key \in Seq(Chunks) /\ nearest \in Seq(Chunks)
            /\ TopK \in Nat /\ TopK > 0
            /\ IdOrder \in [Chunks -> Nat]
            /\ \A c, d \in Chunks : IdOrder[c] = IdOrder[d] => c = d
        BY <3>2, <3>3
      <3>6. ASSUME NEW x \in both', NEW y \in ranked', y \notin both'
            PROVE  x \in ranked'
        BY <2>4, <3>4, <3>5, <3>6, AgreementKept
      <3> QED
        BY <3>6
    <2> QED
      BY <2>2, <2>3, <2>4
  <1>2. CASE ~TrigramRanked
    BY <1>2
    DEF SearchMove, SearchStep, SearchInv, RankingInv, SearchCalled, SearchForgotten,
        NoSearchLocals, BlankSearch, SearchReturn, SearchStarts, Embed, VectorRanked,
        KeywordRanked, Hydrate, SearchFails, Ingest, searchVars
  <1> QED
    BY <1>1, <1>2

\* No chunk that both rankings found is cut off while one that one of them found is kept,
\* if the LIMIT of the rankings is at most RRF_K.
THEOREM TwoRankingsWin == Limit <= RRF_K /\ Spec => []AgreementWins
  <1> SUFFICES ASSUME Limit <= RRF_K PROVE Spec => []AgreementWins
    OBVIOUS
  <1>1. Init => AgreementWins
    BY DEF Init, SearchInit, AgreementWins
  <1>2. TypeOK /\ PipelineInv /\ AgreementWins /\ [Next]_vars => AgreementWins'
    BY Moves, AgreementStep DEF TypeOK, PipelineInv
  <1> QED
    BY <1>1, <1>2, PipelineAlways, PTL DEF Spec

\* What a search returns at its last statement, and what it was found with.
LEMMA LastStatement ==
    ASSUME TypeOK, PipelineInv, [Next]_vars, searchPc = "hydrate", searchPc' = "done",
           searchOut'.status = "empty" \/ searchOut'.rows > 0
    PROVE  /\ searchOut'.told = told
           /\ searchOut'.status = "empty" => ranked = {}
  <1>1. SearchMove
    BY Moves DEF PipelineInv
  <1>2. Hydrate
    <2>1. ~SearchFails
      BY DEF SearchFails, SearchReturn, EmptyResult
    <2> QED
      BY <1>1, <2>1 DEF SearchMove, SearchCalled, SearchForgotten, SearchStep, BlankSearch,
         SearchStarts, Embed, VectorRanked, TrigramRanked, KeywordRanked, Ingest, searchVars
  <1> QED
    BY <1>2, HydrateReturns DEF TypeOK, PipelineInv

\* A row of a type that was not asked for is announced, under every ingestion.
THEOREM ReleaseNoted == Spec => ReleaseIsTold
  <1>1. TypeOK /\ PipelineInv /\ [Next]_vars =>
            [searchPc = "hydrate" /\ searchPc' = "done" /\ searchOut'.rows > 0
                /\ wanted # NoType /\ (\E c \in ranked : TypeOf[c] # wanted)
                => "released" \in searchOut'.told]_<<corpus, searchVars>>
    <2> SUFFICES ASSUME TypeOK, PipelineInv, [Next]_vars,
                        searchPc = "hydrate", searchPc' = "done", searchOut'.rows > 0,
                        wanted # NoType, NEW c \in ranked, TypeOf[c] # wanted
                 PROVE  "released" \in searchOut'.told
      OBVIOUS
    <2>1. searchOut'.told = told
      BY LastStatement
    <2>2. docType = wanted \/ "released" \in told
      BY DEF PipelineInv, SearchInv, FilterInv
    <2>3. docType \in {NoType, TypeOf[c]}
      BY DEF PipelineInv, SearchInv, RankingInv, OfType
    <2> QED
      BY <2>1, <2>2, <2>3
  <1> QED
    BY <1>1, PipelineAlways, PTL DEF Spec, ReleaseIsTold

\* An empty answer of a search with an embedding: there was no chunk when it started.
THEOREM EmptyIsNothing == Spec => EmptyMeansNothing
  <1>1. TypeOK /\ PipelineInv /\ [Next]_vars =>
            [searchPc = "hydrate" /\ searchPc' = "done" /\ searchOut'.status = "empty"
                /\ "keyword_only" \notin searchOut'.told
                => bare]_<<corpus, searchVars>>
    <2> SUFFICES ASSUME TypeOK, PipelineInv, [Next]_vars,
                        searchPc = "hydrate", searchPc' = "done", searchOut'.status = "empty",
                        "keyword_only" \notin searchOut'.told
                 PROVE  bare
      OBVIOUS
    <2>1. searchOut'.told = told /\ ranked = {}
      BY LastStatement
    <2> QED
      BY <2>1 DEF PipelineInv, SearchInv, NothingInv
  <1> QED
    BY <1>1, PipelineAlways, PTL DEF Spec, EmptyMeansNothing

\* Only Compose ends the calls of a question.
LEMMA OnlyComposeEnds ==
    ASSUME [Next]_vars, phase = "running", phase' = "composing"
    PROVE  Compose
  BY DEF Next, Ask, AskUnroutable, CallSql, CallSearch, CallGraph, Word, IngestCommits, vars,
         respondVars

\* A failure is answered only if every tool failed, and no tool found more rows.
THEOREM FailuresHideNothing == Spec => FailureHidesNothing
  <1>1. TypeOK /\ PipelineInv /\ [Next]_vars =>
            [phase = "running" /\ phase' = "composing" =>
                \A t \in ToSet(decisions) :
                    /\ Failed(answer'.result) => Failed(Out(t))
                    /\ Out(t).rows <= answer'.result.rows]_vars
    <2> SUFFICES ASSUME TypeOK, PipelineInv, Compose, NEW t \in ToSet(decisions)
                 PROVE  /\ Failed(answer'.result) => Failed(Out(t))
                        /\ Out(t).rows <= answer'.result.rows
      BY OnlyComposeEnds
    <2>1. PICK i \in DOMAIN decisions :
            /\ IsBest(i)
            /\ answer' = [NoAnswer EXCEPT !.tool = decisions[i], !.result = DecisionResult(i)]
      BY DEF Compose
    <2>2. PICK j \in DOMAIN decisions : t = decisions[j]
      BY DEF ToSet
    <2> DEFINE best == DecisionResult(i)
               other == DecisionResult(j)
    <2>3. answer'.result = best /\ Out(t) = other
      BY <2>1, <2>2 DEF NoAnswer, DecisionResult
    <2>4. Sound(best) /\ Sound(other)
      <3>1. decisions[i] \in Tools /\ decisions[j] \in Tools
        BY DEF TypeOK
      <3> QED
        BY <3>1, OutSound DEF DecisionResult
    <2>5. i = j \/ ~Before(other, best)
      BY <2>1 DEF IsBest
    <2> HIDE DEF best, other
    <2>6. /\ best.rows \in Nat /\ other.rows \in Nat
          /\ Failed(best) => best.rows = 0
          /\ Failed(other) => other.rows = 0
      BY <2>4 DEF Sound, ToolResults, NoResult
    <2>7. CASE ~Before(other, best)
      <3>1. Failed(best) => Failed(other)
        BY <2>7 DEF Before
      <3>2. ~Failed(best) /\ ~Failed(other) => ~(other.rows > best.rows)
        BY <2>7 DEF Before, Failed
      <3>3. other.rows <= best.rows
        BY <2>6, <3>1, <3>2
      <3> QED
        BY <2>3, <3>1, <3>3
    <2>8. CASE i = j
      BY <2>3, <2>6, <2>8 DEF best, other
    <2> QED
      BY <2>5, <2>7, <2>8
  <1> QED
    BY <1>1, PipelineAlways, PTL DEF Spec, FailureHidesNothing
==============================================================================
