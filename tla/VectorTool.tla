----------------------------- MODULE VectorTool ------------------------------
(***************************************************************************)
(* vector: one call of VectorSearchTool.run (adapter.py) over              *)
(* SearchService.search (service.py), statement by statement, while        *)
(* ingest.py may commit new chunks between two statements.  Similarity is  *)
(* data: a ranking orders its candidates in any way.                       *)
(***************************************************************************)
EXTENDS ToolResult, FiniteSets, RankFusion

CONSTANTS
    Chunks,     \* chunk ids
    DocTypes,   \* values of doc_type
    TypeOf,     \* the doc_type of each chunk
    IdOrder,    \* the place of each chunk in the order of the ids
    NoType,     \* no filter: Python's None
    TopK,       \* k: the rows a search returns at most
    Limit       \* the LIMIT of the two ranking statements

ASSUME VectorAssumption ==
    /\ IsFiniteSet(Chunks)
    /\ TypeOf \in [Chunks -> DocTypes]
    /\ NoType \notin DocTypes
    /\ TopK \in 1..MaxRows
    /\ IdOrder \in [Chunks -> Nat]
    /\ \A c, d \in Chunks : IdOrder[c] = IdOrder[d] => c = d
    /\ Limit \in Nat \ {0}

VARIABLES
    corpus,     \* the chunks in document_chunks
    searchPc,   \* the next step of the call
    docType,    \* search()'s parameter doc_type
    nearest,    \* what vector_ranked() returned
    ranked,     \* what fuse() or keyword_only()'s trigram_ranked() returned
    both,       \* history: the chunks both rankings held that fuse() merged
    told,       \* SearchOutcome.degraded and .note
    searchOut,  \* what the call returned
    wanted,     \* history: the doc_type the call was made with
    bare        \* history: there was no chunk when the call was made

searchVars == <<searchPc, docType, nearest, ranked, both, told, searchOut, wanted, bare>>

SearchTypeOK ==
    /\ corpus \in SUBSET Chunks
    /\ searchPc \in {"off", "start", "embed", "nearest", "trigram", "keyword", "hydrate", "done"}
    /\ {docType, wanted} \subseteq DocTypes \union {NoType}
    /\ nearest \in Seq(Chunks)
    /\ {ranked, both} \subseteq SUBSET Chunks
    /\ told \in SUBSET Disclosures
    /\ searchOut \in ToolResults \union {NoResult}
    /\ bare \in BOOLEAN

SearchInit ==
    /\ corpus = {}
    /\ searchPc = "off"
    /\ docType = NoType
    /\ nearest = <<>>
    /\ ranked = {}
    /\ both = {}
    /\ told = {}
    /\ searchOut = NoResult
    /\ wanted = NoType
    /\ bare = FALSE

\* The locals of a call that is not running.
NoSearchLocals ==
    /\ docType' = NoType
    /\ nearest' = <<>>
    /\ ranked' = {}
    /\ both' = {}
    /\ told' = {}
    /\ wanted' = NoType
    /\ bare' = FALSE

\* The call starts with the doc_type infer_doc_type() found, if any.
SearchCalled(type) ==
    /\ searchPc' = "start"
    /\ searchOut' = NoResult
    /\ docType' = type
    /\ wanted' = type
    /\ bare' = (corpus = {})
    /\ UNCHANGED <<nearest, ranked, both, told>>

\* This question does not call the tool, or is done with its result.
SearchForgotten ==
    /\ searchPc' = "off"
    /\ searchOut' = NoResult
    /\ NoSearchLocals

SearchReturn(r) ==
    /\ searchPc' = "done"
    /\ searchOut' = r
    /\ NoSearchLocals

SearchGoto(step) == searchPc' = step /\ UNCHANGED searchOut

\* The chunks a statement with the filter of this search sees.
Matching == {c \in corpus : docType \in {NoType, TypeOf[c]}}

\* The sets a ranking of S cut off at n may leave.
Cut(S, n) == {T \in SUBSET S : Cardinality(T) = IF Cardinality(S) < n THEN Cardinality(S) ELSE n}

\* The sequences ORDER BY ... LIMIT may give of the candidates S.
Rankings(S) == UNION {SetToSeqs(T) : T \in Cut(S, Limit)}

\* A blank query is answered EMPTY without a search.
BlankSearch ==
    /\ searchPc = "start"
    /\ SearchReturn(EmptyResult("empty"))
    /\ UNCHANGED corpus

SearchStarts ==
    /\ searchPc = "start"
    /\ SearchGoto("embed")
    /\ UNCHANGED <<corpus, docType, nearest, ranked, both, told, wanted, bare>>

\* LlmError, a timeout included, leaves the keyword search.
Embed ==
    /\ searchPc = "embed"
    /\ \/ SearchGoto("nearest") /\ UNCHANGED told
       \/ SearchGoto("keyword") /\ told' = told \union {"keyword_only"}
    /\ UNCHANGED <<corpus, docType, nearest, ranked, both, wanted, bare>>

\* vector_ranked() has no threshold: every chunk is a candidate.  With a filter, the HNSW
\* index (sql/03-extend-vector.sql) hands over its nearest neighbours and the filter drops
\* those of other types: any part of the matching chunks may be left, none included.
VectorRanked ==
    /\ searchPc = "nearest"
    /\ \E seen \in SUBSET Matching :
        /\ docType = NoType => seen = Matching
        /\ nearest' \in Rankings(seen)
    /\ SearchGoto("trigram")
    /\ UNCHANGED <<corpus, docType, ranked, both, told, wanted, bare>>

\* Variant: an empty filtered search is the answer.
EmptyIsFinal == SearchGoto("hydrate") /\ UNCHANGED <<docType, ranked, both, told>>

\* Variant: the second search is not noted.
ReleaseUntold == docType' = NoType /\ SearchGoto("embed") /\ UNCHANGED <<ranked, both, told>>

\* Search again without the filter, embedding included.
ReleaseFilter ==
    /\ docType' = NoType
    /\ told' = told \union {"released"}
    /\ SearchGoto("embed")
    /\ UNCHANGED <<ranked, both>>

\* trigram_ranked() keeps the chunks similar enough to the query, then fuse() merges
\* both rankings and cuts them off at k.
TrigramRanked ==
    /\ searchPc = "trigram"
    /\ nearest' = <<>>
    /\ UNCHANGED <<corpus, wanted, bare>>
    /\ \E similar \in SUBSET Matching : \E key \in Rankings(similar) :
        LET fused == Fuse(nearest, key, TopK, IdOrder) IN
        \/ fused = {} /\ docType # NoType /\ ReleaseFilter
        \/ /\ fused # {} \/ docType = NoType
           /\ ranked' = fused
           /\ both' = ToSet(nearest) \intersect ToSet(key)
           /\ SearchGoto("hydrate")
           /\ UNCHANGED <<docType, told>>

\* keyword_only() keeps the filter, and is not followed by a search without it.
KeywordRanked ==
    /\ searchPc = "keyword"
    /\ \E similar \in SUBSET Matching : ranked' \in Cut(similar, TopK)
    /\ SearchGoto("hydrate")
    /\ UNCHANGED <<corpus, docType, nearest, both, told, wanted, bare>>

\* Chunks are never deleted, so every ranked id still has its row.
Hydrate ==
    /\ searchPc = "hydrate"
    /\ SearchReturn(Found(Cardinality(ranked \intersect corpus), told))
    /\ UNCHANGED corpus

\* A statement fails or times out, or the embedding's reply is malformed: nothing but
\* the adapter catches it.  hydrate() runs no statement for an empty ranking.
SearchFails ==
    /\ searchPc \in {"embed", "nearest", "trigram", "keyword", "hydrate"}
    /\ searchPc = "hydrate" => ranked # {}
    /\ SearchReturn(EmptyResult("upstream_error"))
    /\ UNCHANGED corpus

SearchStep(blank) ==
    \/ blank /\ BlankSearch
    \/ ~blank /\ SearchStarts
    \/ Embed
    \/ VectorRanked \/ TrigramRanked \/ KeywordRanked
    \/ Hydrate \/ SearchFails

\* ingest.py commits a run: chunks appear, and none goes away.
Ingest ==
    /\ \E new \in SUBSET (Chunks \ corpus) : new # {} /\ corpus' = corpus \union new
    /\ UNCHANGED searchVars

------------------------------------------------------------------------------
(* Properties *)

\* Of the chunks fuse() was given, none that both rankings found, be it last in each, is
\* cut off while one that only one of them found, be it first, is kept: what the sum of
\* the shares (rrf.py) and the LIMIT of the statements (repository.py) give together.
AgreementWins == both \subseteq ranked \/ ranked \subseteq both

\* A row of a type the caller did not ask for never comes back unannounced, whatever
\* was ingested meanwhile (the note of search()'s second call).
ReleaseIsTold ==
    [][searchPc = "hydrate" /\ searchPc' = "done" /\ searchOut'.rows > 0
        /\ wanted # NoType /\ (\E c \in ranked : TypeOf[c] # wanted)
        => "released" \in searchOut'.told]_<<corpus, searchVars>>

\* A search that had its embedding comes back empty only if there was no chunk at all
\* when it started: a doc_type without chunks does not hide the others (search()).
EmptyMeansNothing ==
    [][searchPc = "hydrate" /\ searchPc' = "done" /\ searchOut'.status = "empty"
        /\ "keyword_only" \notin searchOut'.told
        => bare]_<<corpus, searchVars>>
==============================================================================
