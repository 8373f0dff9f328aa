---------------------------- MODULE HybridSearch ----------------------------
(***************************************************************************)
(* One request to /v1/search or /v1/answer (apps/api/routes/search.py and  *)
(* answer.py): hybrid_search_with_debug runs its branches side by side,    *)
(* each in its own session, while other processes index and purge          *)
(* documents; the results are fused, reranked, packed and answered.        *)
(*                                                                         *)
(* Of the index this module has only what a reader can see: the version of *)
(* each document that is committed to Postgres, and the points in Qdrant,  *)
(* which may be those of any version (DocumentIndex shows how).            *)
(***************************************************************************)
EXTENDS Ranking

CONSTANTS
  Requests,  \* the requests and the settings they meet
  Changing,  \* the documents that are indexed again or purged meanwhile
  Limits,    \* the settings that bound the evidence
  MaxChanges \* bound: changes of the index during the request

\* _compact_text leaves nothing of a text that has one character of room.
ASSUME LimitsAssumption ==
  /\ MaxChanges \in Nat
  /\ \A name \in {"searchItems", "answerItems", "rerankItems"} : Limits[name] \in Nat \ {0}
  /\ \A name \in {"searchChars", "searchTotal", "answerChars", "answerTotal", "directChars", "directTotal"} :
       Limits[name] \in Nat \ {0, 1}

\* The schemas ask for a top_k of at least 1; a query has finitely many words.
ASSUME RequestsAssumption ==
  \A r \in Requests :
    /\ r.topK \in Nat \ {0}
    /\ IsFiniteSet(r.query.terms) /\ IsFiniteSet(r.query.exact)
    /\ IsFiniteSet(r.query.services) /\ IsFiniteSet(r.query.endpoints)

Docs == {Corpus[c].doc : c \in Chunks}
Versions == {0, 1} \cup {Corpus[c].version : c \in Chunks}

ChunksOf(doc, v) == {c \in Chunks : Corpus[c].doc = doc /\ Corpus[c].version = v}

VARIABLES
  version,   \* version[doc]: what is committed; 0 when there is no such document
  points,    \* the chunks that have a point in Qdrant
  request,   \* the request
  pc,        \* where it is
  embedded,  \* the query has an embedding
  fellBack,  \* the vector branch is run as the fallback of an exact lookup
  branch,    \* branch[b]: where it is and what it has found
  results,   \* the results of hybrid_search, later in the order of the reranker
  kinds,     \* raw_source_types: the source types of all that hybrid_search found
  response,  \* the evidence, the synthesis mode and the kinds that are warned of
  changes,   \* how often the index has changed
  lived      \* history: chunks that were committed at some time of the request

index == <<version, points, changes, lived>>
search == <<embedded, fellBack, branch>>
ranking == <<results, kinds>>
vars == <<version, points, request, pc, embedded, fellBack, branch, results, kinds, response, changes, lived>>

IntentOf == [r \in Requests |-> ClassifyQueryIntent(r.query)]

Intended == IntentOf[request]
Exact == Intended.name \in ExactLookups

\* The chunks that a statement finds in the database.
Live == UNION {ChunksOf(doc, version[doc]) : doc \in Docs}

NoResponse == [evidence |-> <<>>, mode |-> "retrieval_only", missing |-> {}]

TypeOK ==
  /\ version \in [Docs -> Versions] /\ changes \in 0 .. MaxChanges
  /\ points \subseteq Chunks /\ lived \subseteq Chunks
  /\ request \in Requests
  /\ pc \in {"embed", "search", "fallback", "rank", "respond", "llm", "done", "failed"}
  /\ {embedded, fellBack} \subseteq BOOLEAN
  /\ \A b \in Branches : /\ branch[b].at \in {"wait", "hits", "done"}
                         /\ ToSet(branch[b].found) \subseteq Chunks
                         /\ branch[b].at # "wait" => Len(branch[b].found) <= FetchBudget(AtLeast(request.topK * 3, MinFetch), Intended)
  /\ \A n \in DOMAIN results : results[n].chunk \in Chunks
  /\ response.mode \in {"retrieval_only", "insufficient_evidence", "direct_evidence", "llm_synthesis"}

Init ==
  /\ version = [doc \in Docs |-> 1]
  /\ points \in {Live, Chunks}
  /\ request \in Requests
  /\ pc = IF Exact THEN "search" ELSE "embed"
  /\ embedded = FALSE
  /\ fellBack = FALSE
  /\ branch = [b \in Branches |-> [at |-> "wait", found |-> <<>>]]
  /\ results = <<>> /\ kinds = {}
  /\ response = NoResponse
  /\ changes = 0
  /\ lived = Live

-----------------------------------------------------------------------------
(* The index, as its readers see it                                         *)

IndexChanges ==
  /\ pc \in {"embed", "search", "fallback"}
  /\ changes < MaxChanges
  /\ changes' = changes + 1

\* Points go and come at once; nothing ties them to the committed rows.
DeletePoints(doc) ==
  /\ IndexChanges
  /\ points' = points \ {c \in Chunks : Corpus[c].doc = doc}
  /\ points' # points
  /\ UNCHANGED <<version, request, pc, search, ranking, response, lived>>

UpsertPoints(doc, v) ==
  /\ IndexChanges
  /\ points' = points \cup ChunksOf(doc, v)
  /\ points' # points
  /\ UNCHANGED <<version, request, pc, search, ranking, response, lived>>

\* The transaction that replaces the chunks of a document, or purges it.
Commit(doc, v) ==
  /\ IndexChanges
  /\ version[doc] # v
  /\ version' = [version EXCEPT ![doc] = v]
  /\ lived' = lived \cup ChunksOf(doc, v)
  /\ UNCHANGED <<points, request, pc, search, ranking, response>>

-----------------------------------------------------------------------------
(* hybrid_search_with_debug                                                 *)

\* embed_query_async, which is called outside any try.
Embed ==
  /\ pc = "embed"
  /\ pc' = "search" /\ embedded' = TRUE
  /\ UNCHANGED <<index, request, fellBack, branch, ranking, response>>

EmbedFails ==
  /\ pc = "embed"
  /\ pc' = "failed"
  /\ UNCHANGED <<index, request, search, ranking, response>>

TopK == AtLeast(request.topK * 3, MinFetch)
FetchK == FetchBudget(TopK, Intended)

\* The vector branch only runs with an embedding, the graph for architecture.
Runs(b) ==
  CASE b = "vector" -> embedded
    [] b = "graph" -> Intended.name = "architecture" /\ ~fellBack
    [] OTHER -> ~fellBack

Searching(b) == pc = "search" /\ Runs(b) /\ branch[b].at # "done"

Finds(b, at, found) ==
  /\ branch' = [branch EXCEPT ![b] = [at |-> at, found |-> found]]
  /\ UNCHANGED <<index, request, pc, embedded, fellBack, ranking, response>>

\* Qdrant answers; the rows are loaded by a later statement.
SearchPoints ==
  /\ Searching("vector") /\ branch["vector"].at = "wait"
  /\ Finds("vector", "hits", VectorHits(points, request.filters, FetchK))

\* Mutant: hits are taken for chunks without asking the database.
LoadChunks_Trusting ==
  /\ Searching("vector") /\ branch["vector"].at = "hits"
  /\ Finds("vector", "done", branch["vector"].found)

\* The hits that are still rows, in the order of the hits.
LoadedHits ==
  LET hits == branch["vector"].found
  IN Keep(hits, {n \in DOMAIN hits : hits[n] \in Live})

LoadChunks ==
  /\ Searching("vector") /\ branch["vector"].at = "hits"
  /\ Finds("vector", "done", LoadedHits)

\* Mutant: the rows are not limited.
SearchText_All ==
  /\ Searching("lexical")
  /\ Finds("lexical", "done", LexicalSearch(Live, request.query, request.filters, Len(Corpus)))

SearchText ==
  /\ Searching("lexical")
  /\ Finds("lexical", "done", LexicalSearch(Live, request.query, request.filters, FetchK))

SearchMetadata ==
  /\ Searching("metadata")
  /\ \E found \in MetadataSearch(Live, request.query, request.filters, FetchK) : Finds("metadata", "done", found)

SearchGraph ==
  /\ Searching("graph")
  /\ \E found \in GraphSearch(Live, request.query, FetchK) : Finds("graph", "done", found)

\* Mutant: what a branch raises is raised by the request.
BranchFails_Raises(b) ==
  /\ Searching(b)
  /\ pc' = "failed"
  /\ UNCHANGED <<index, request, search, ranking, response>>

\* An exception or a timeout: the branch has found nothing.  Branches that run in
\* parallel (rag_parallel_retrieval, the default) have a session each, so that an
\* error of the database in one is not felt by the others.
BranchFails(b) ==
  /\ Searching(b)
  /\ Finds(b, "done", <<>>)

Gathered == pc = "search" /\ \A b \in Branches : Runs(b) => branch[b].at = "done"

ShouldVectorFallback ==
  Exact /\ ~fellBack /\ \A b \in {"lexical", "metadata", "graph"} : branch[b].found = <<>>

FallBack ==
  /\ Gathered /\ ShouldVectorFallback
  /\ pc' = "fallback" /\ fellBack' = TRUE
  /\ UNCHANGED <<index, request, embedded, branch, ranking, response>>

\* The fallback has its own embedding, and may do without it.
EmbedFallback ==
  /\ pc = "fallback"
  /\ pc' = "search"
  /\ embedded' \in BOOLEAN
  /\ UNCHANGED <<index, request, fellBack, branch, ranking, response>>

Fuse ==
  /\ Gathered /\ ~ShouldVectorFallback
  /\ results' = Fused([b \in Branches |-> branch[b].found], request.query, Intended, TopK)
  /\ kinds' = {Corpus[results'[n].chunk].source : n \in DOMAIN results'} \ {Nothing}
  /\ pc' = "rank"
  /\ UNCHANGED <<index, request, search, response>>

-----------------------------------------------------------------------------
(* The reranker: rerank_with_debug_async and its local counterpart          *)

Answering == request.route = "answer"

RankLimit == IF Answering THEN AtLeast(request.topK * 3, Limits.answerItems * 2)
             ELSE AtMost(request.topK, Limits.searchItems)

\* Mutant: any evidence will do.
Unanswerable_Empty == Intended.name \in IncidentLike /\ kinds = {}

\* investigate_supported on all that was retrieved, not on what is packed.
Unanswerable == Intended.name \in IncidentLike /\ ~Supported(Intended, kinds)

Ordered(order) ==
  /\ results' = Take(order, RankLimit)
  /\ pc' = "respond"
  /\ UNCHANGED <<index, request, search, kinds, response>>

\* _skip_rerank_for_intent
SkipsRerank == Answering /\ (Exact \/ Unanswerable)

SkipRerank ==
  /\ pc = "rank" /\ SkipsRerank
  /\ Ordered(ByFused(results))

\* The model is asked, unless that is switched off or the result is clear.
ModelAsked ==
  /\ pc = "rank" /\ ~SkipsRerank
  /\ results # <<>>
  /\ \/ request.rerank = "always"
     \/ request.rerank \in {"conditional", "local"} /\ ~Decisive(results)

RerankWithoutModel ==
  /\ pc = "rank" /\ ~SkipsRerank /\ ~ModelAsked
  /\ Ordered(FallbackSort(results))

\* A local model scores all results, a remote one the first of them.
RerankByModel ==
  /\ ModelAsked
  /\ Ordered(ModelSort(results, IF request.rerank = "local" THEN Len(results) ELSE Limits.rerankItems))

\* No model, or RemoteModelError: an HTTP error or the wrong number of scores.
RerankFails ==
  /\ ModelAsked
  /\ Ordered(FallbackSort(results))

\* An answer that is no JSON, or has scores that are no numbers, is not caught.
RerankMalformed ==
  /\ ModelAsked /\ request.rerank # "local"
  /\ pc' = "failed"
  /\ UNCHANGED <<index, request, search, ranking, response>>

-----------------------------------------------------------------------------
(* The response                                                             *)

SearchEvidence ==
  PackEvidence(results, AtMost(request.topK, Limits.searchItems), Limits.searchChars, Limits.searchTotal)

AnswerEvidence ==
  PackEvidence(results, AtMost(request.topK, Limits.answerItems), Limits.answerChars, Limits.answerTotal)

IsDirectLookupCandidate(chunk) ==
  CASE Intended.name = "code_location" ->
         \/ chunk.source \in {"code", "api_doc"}
         \/ chunk.type \in ProtoTypes \cup {"go_function", "go_method", "go_type", "go_module", "function",
                                           "class", "module", "python_function", "python_class",
                                           "ts_function", "ts_class", "java_function", "java_class"}
         \/ chunk.path.suffix \in {".py", ".go", ".ts", ".tsx", ".js", ".jsx", ".java", ".proto"}
    [] Intended.name = "config_lookup" ->
         \/ chunk.source \in {"config", "deploy", "runbook", "code"}
         \/ chunk.path.suffix \in {".yaml", ".yml", ".json", ".toml", ".ini", ".env"}
    [] Intended.name = "api_contract" ->
         \/ chunk.source \in {"api_doc", "code"}
         \/ chunk.type \in ProtoTypes \cup {"api_endpoint", "proto_enum", "proto_preamble"}

\* _pack_direct_lookup_evidence
DirectEvidence ==
  IF ~Exact THEN <<>>
  ELSE PackEvidence(Keep(results, {n \in DOMAIN results : IsDirectLookupCandidate(Corpus[results[n].chunk])}),
                    AtMost(2, Limits.answerItems), Limits.directChars, Limits.directTotal)

\* _answer_warnings
AnswerWarnings(evidence) ==
  IF Intended.name \in IncidentLike
  THEN {"logs", "deploy", "incident"} \ {evidence[n].type : n \in DOMAIN evidence} ELSE {}

Responds(at, mode, evidence) ==
  /\ response' = [evidence |-> evidence, mode |-> mode,
                  missing |-> IF Answering THEN AnswerWarnings(AnswerEvidence) ELSE {}]
  /\ pc' = at
  /\ UNCHANGED <<index, request, search, ranking>>

RespondSearch ==
  /\ pc = "respond" /\ ~Answering
  /\ Responds("done", "retrieval_only", SearchEvidence)

AnswerInsufficient ==
  /\ pc = "respond" /\ Answering /\ Unanswerable
  /\ Responds("done", "insufficient_evidence", AnswerEvidence)

AnswerDirect ==
  /\ pc = "respond" /\ Answering /\ DirectEvidence # <<>>
  /\ Responds("done", "direct_evidence", DirectEvidence)

Synthesizing == pc = "respond" /\ Answering /\ ~Unanswerable /\ DirectEvidence = <<>>

AnswerWithEvidence ==
  /\ Synthesizing /\ ~request.llm
  /\ Responds("done", "retrieval_only", AnswerEvidence)

AskLlm ==
  /\ Synthesizing /\ request.llm
  /\ Responds("llm", "retrieval_only", AnswerEvidence)

LlmAnswers ==
  /\ pc = "llm"
  /\ response' = [response EXCEPT !.mode = "llm_synthesis"]
  /\ pc' = "done"
  /\ UNCHANGED <<index, request, search, ranking>>

\* An error, a timeout or an answer that is no JSON: the evidence alone.
LlmFails ==
  /\ pc = "llm"
  /\ pc' = "done"
  /\ UNCHANGED <<index, request, search, ranking, response>>

\* JSON that is not an object is used as if it were one.
LlmMalformed ==
  /\ pc = "llm"
  /\ pc' = "failed"
  /\ UNCHANGED <<index, request, search, ranking, response>>

Next ==
  \/ \E doc \in Changing : \/ DeletePoints(doc)
                           \/ \E v \in Versions \ {0} : UpsertPoints(doc, v)
                           \/ \E v \in Versions : Commit(doc, v)
  \/ Embed \/ EmbedFails
  \/ SearchPoints \/ LoadChunks \/ SearchText \/ SearchMetadata \/ SearchGraph
  \/ \E b \in Branches : BranchFails(b)
  \/ FallBack \/ EmbedFallback \/ Fuse
  \/ SkipRerank \/ RerankWithoutModel \/ RerankByModel \/ RerankFails \/ RerankMalformed
  \/ RespondSearch \/ AnswerInsufficient \/ AnswerDirect \/ AnswerWithEvidence
  \/ AskLlm \/ LlmAnswers \/ LlmFails \/ LlmMalformed

Spec == Init /\ [][Next]_vars

-----------------------------------------------------------------------------
(* Properties                                                               *)

Evidence == ToSet(response.evidence)

\* Whatever is indexed, purged or left behind in Qdrant while the branches run,
\* evidence is a chunk that Postgres held at some time of the request, and one
\* that passes the request's filters; only the graph branch, which is given no
\* filters (graph_search in _retrieve_branches), may return others.
EvidenceIsCurrent ==
  \A item \in Evidence :
    /\ item.chunk \in lived
    /\ Passes(item.chunk, request.filters) \/ Contains(branch["graph"].found, item.chunk)

\* How many texts the response may have, and how long each and all of them.
EvidenceLimits ==
  IF response.mode = "direct_evidence" THEN <<2, Limits.directChars, Limits.directTotal>>
  ELSE IF Answering THEN <<request.topK, Limits.answerChars, Limits.answerTotal>>
  ELSE <<request.topK, Limits.searchChars, Limits.searchTotal>>

Total(items) == Sum([n \in DOMAIN items |-> items[n].chars])

\* pack_evidence keeps to its limits: at most the texts that were asked for, no
\* text and no total longer than its limit but for the dots of a cut (a text may
\* be cut twice), and one text for each place in a document, even when two
\* branches have seen two versions of it.
EvidencePacked ==
  /\ Len(response.evidence) <= EvidenceLimits[1]
  /\ \A item \in Evidence : item.chars \in 1 .. EvidenceLimits[2] + 3
  /\ Total(response.evidence) <= EvidenceLimits[3] + 2
  /\ \A m, n \in DOMAIN response.evidence :
       Place(response.evidence[m].chunk) = Place(response.evidence[n].chunk) => m = n

\* An incident question is only synthesized by the model (answer) when the kind
\* of evidence it needs was retrieved; if the packing has left that kind out, a
\* warning says so.  When the answer is that evidence is insufficient, none of
\* the evidence it cites was indexed as that kind.  The packer may still call an
\* item that: it goes by older names and by the type of the chunk when a deploy
\* history has overwritten the tag, and _raw_source_types by the tag alone.
AnswerSupported ==
  pc = "done" /\ Intended.name \in IncidentLike =>
    LET needed == Required(Intended)
        cited == \E item \in Evidence : item.type = needed
    IN /\ response.mode = "llm_synthesis" => needed \in kinds /\ (cited \/ needed \in response.missing)
       /\ response.mode = "insufficient_evidence"
            => \A item \in Evidence : Corpus[item.chunk].source # needed

\* A branch that fails or times out reduces recall and no more, as the comment
\* in _retrieve_branches asks: the request fails before any branch has run, for
\* want of an embedding, or after all of them, by the answer of a model; and it
\* returns evidence whenever some branch has found a chunk, provided that every
\* chunk that is found has a text.  This is the parallel mode: branches that run
\* one after the other share the session of the request.
OneBranchSuffices ==
  /\ pc = "failed" => \/ \A b \in Branches : branch[b].at = "wait"
                      \/ \A b \in Branches : Runs(b) => branch[b].at = "done"
  /\ (/\ pc = "done"
      /\ \E b \in Branches : branch[b].found # <<>>
      /\ \A b \in Branches : \A n \in DOMAIN branch[b].found : Corpus[branch[b].found[n]].chars > 0)
     => response.evidence # <<>>
=============================================================================
