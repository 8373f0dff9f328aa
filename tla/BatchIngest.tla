----------------------------- MODULE BatchIngest -----------------------------
(***************************************************************************)
(* index_normalized_documents (incidentops/ingestion/indexer.py): one      *)
(* batch of documents is validated, parsed, chunked, embedded and stored,  *)
(* document by document, and summed up in a BatchIngestResult.  A document *)
(* that is refused leaves the others alone: what it wrote is undone by its *)
(* savepoint.  How the stores are updated in detail, and by several        *)
(* batches at once, is DocumentIndex; here a stored document is one value. *)
(***************************************************************************)
EXTENDS Chunking

CONSTANTS
  Documents,  \* the documents a batch may contain
  Earlier,    \* those that earlier batches may have stored
  MaxBatch,   \* bound: documents in a batch
  None        \* no document

ASSUME BatchAssumption ==
  /\ Earlier \subseteq Documents
  /\ None \notin Documents
  /\ MaxBatch \in Nat \ {0}

\* The text of a document is its lines, of which the blank ones are those without
\* words; what it loads as is a list of sections.
ASSUME DocumentsAssumption ==
  \A doc \in Documents :
    /\ doc.lines \in Seq([kind : LineKinds, words : Nat])
    /\ \A i \in DOMAIN doc.lines : doc.lines[i].kind = "blank" <=> doc.lines[i].words = 0
    /\ {doc.keys, doc.paths, doc.schemas} \subseteq Seq(Nat)

\* What earlier batches have stored was within the limit that is still set.
ASSUME EarlierAssumption ==
  \A doc \in Earlier : Cardinality(Pieces(doc)) <= MaxChunks

Ids == {doc.id : doc \in Documents}

\* What the parsers and the chunk loop make of each document.
Parsed   == [doc \in Documents |-> Parse(doc)]
RawOf    == [doc \in Documents |-> RawChunks(doc)]
PiecesOf == [doc \in Documents |-> Pieces(doc)]
Regrouped == {doc \in Documents : NeedsFallback(doc)}

VARIABLES
  received,  \* how many documents the request had
  todo,      \* those that are still to be indexed
  seen,      \* seen_external_ids
  store,     \* store[id]: the document as the session sees it
  result,    \* the BatchIngestResult
  fresh      \* invalidate_project has been called

vars == <<received, todo, seen, store, result, fresh>>

-----------------------------------------------------------------------------
(* validate_normalized_document and the failure taxonomy                    *)

\* The checks in their order; a document has the set of those it fails.
Checks == <<"invalid_external_id", "external_id_too_long", "unsafe_external_id", "invalid_path",
            "path_too_long", "unsafe_path", "empty_content", "invalid_size", "document_too_large",
            "invalid_content_hash", "invalid_metadata", "metadata_too_large", "binary_content">>

Failed(doc) == SelectSeq(Checks, LAMBDA check : check \in doc.problems)

\* Mutant: codes without an entry in the table are passed on as they are.
PublicCode_Raw(code) ==
  CASE code \in {"document_too_large", "external_id_too_long", "path_too_long"} -> "oversized"
    [] OTHER -> code

\* normalize_failure_code
PublicCode(code) ==
  CASE code \in {"document_too_large", "external_id_too_long", "path_too_long"} -> "oversized"
    [] code \in {"empty_content", "no_chunks_parsed"} -> "empty"
    [] code = "binary_content" -> "binary"
    [] code \in {"invalid_external_id", "unsafe_external_id", "duplicate_external_id",
                 "invalid_path", "unsafe_path", "invalid_size", "invalid_content_hash",
                 "invalid_metadata", "metadata_too_large"} -> "metadata_invalid"
    [] code = "too_many_chunks" -> "chunk_limit_exceeded"
    [] code = "embedding_error" -> "embedding_failed"
    [] code \in {"parser_exception", "embedding_failed", "vector_index_failed"} -> code
    [] OTHER -> "unknown"

FailureReasons ==
  {"oversized", "empty", "binary", "metadata_invalid", "chunk_limit_exceeded",
   "embedding_failed", "parser_exception", "vector_index_failed", "unknown"}

-----------------------------------------------------------------------------
EmptyResult == [created |-> 0, updated |-> 0, unchanged |-> 0, invalid |-> 0,
                chunks |-> 0, errors |-> <<>>]

TypeOK ==
  /\ received \in 1 .. MaxBatch
  /\ ToSet(todo) \subseteq Documents /\ Len(todo) <= received
  /\ seen \subseteq Ids
  /\ store \in [Ids -> Documents \cup {None}]
  /\ {result.created, result.updated, result.unchanged, result.invalid, result.chunks} \subseteq Nat
  /\ \A k \in DOMAIN result.errors : result.errors[k] \in FailureReasons
  /\ fresh \in BOOLEAN

Init ==
  /\ received \in 1 .. MaxBatch
  /\ todo \in [1 .. received -> Documents]
  /\ seen = {}
  /\ store \in [Ids -> Earlier \cup {None}]
  /\ \A id \in Ids : store[id] # None => store[id].id = id
  /\ result = EmptyResult
  /\ fresh = FALSE

\* The document at the head of the batch, past validation and the duplicates.
Doc == Head(todo)

Continue == todo' = Tail(todo) /\ UNCHANGED <<received, fresh>>

Error(code) == result' = [result EXCEPT !.invalid = @ + 1, !.errors = Append(@, PublicCode(code))]

SkipInvalid ==
  /\ todo # <<>>
  /\ Doc.problems # {}
  /\ Error(Failed(Doc)[1])
  /\ Continue
  /\ UNCHANGED <<seen, store>>

\* Mutant: a repeated id is passed over in silence.
SkipDuplicate_Silent ==
  /\ todo # <<>>
  /\ Doc.problems = {} /\ Doc.id \in seen
  /\ Continue
  /\ UNCHANGED <<seen, store, result>>

SkipDuplicate ==
  /\ todo # <<>>
  /\ Doc.problems = {} /\ Doc.id \in seen
  /\ Error("duplicate_external_id")
  /\ Continue
  /\ UNCHANGED <<seen, store>>

\* _index_one_document is called for a valid document that is not a duplicate.
Indexing ==
  /\ todo # <<>>
  /\ Doc.problems = {} /\ Doc.id \notin seen
  /\ seen' = seen \cup {Doc.id}

Unchanged == store[Doc.id] # None /\ store[Doc.id].hash = Doc.hash

SkipUnchanged ==
  /\ Indexing
  /\ Unchanged
  /\ result' = [result EXCEPT !.unchanged = @ + 1]
  /\ Continue
  /\ UNCHANGED store

Refuse(code) ==
  /\ Error(code)
  /\ Continue
  /\ UNCHANGED store

ParserOf(doc) == ParserFor(NormalizeSourceType(doc.type, doc.path), doc.path)

Raises(doc) == ParserOf(doc) = "regex" /\ ParserRaises(doc)

\* No parser for the document, one that raises or one that makes nothing of it.
RefuseUnparsed ==
  /\ Indexing /\ ~Unchanged
  /\ Raises(Doc) \/ Parsed[Doc] = <<>>
  /\ Refuse(IF Raises(Doc) \/ ParserOf(Doc) \in {"none", "deploys"}
            THEN "parser_exception" ELSE "no_chunks_parsed")

HasChunks == ~Raises(Doc) /\ Parsed[Doc] # <<>>

Chunked == HasChunks /\ Cardinality(PiecesOf[Doc]) <= MaxChunks

RefuseTooLong ==
  /\ Indexing /\ ~Unchanged
  /\ HasChunks
  /\ Cardinality(PiecesOf[Doc]) > MaxChunks
  /\ Refuse("too_many_chunks")

\* The provider raises, or the number or dimension of its vectors is wrong.
RefuseUnembedded ==
  /\ Indexing /\ ~Unchanged
  /\ Chunked /\ PiecesOf[Doc] # {}
  /\ \E code \in {"embedding_error", "embedding_failed"} : Refuse(code)

\* Qdrant refuses the deletion of the old vectors or the new ones.
RefuseUnpublished ==
  /\ Indexing /\ ~Unchanged
  /\ Chunked /\ (PiecesOf[Doc] # {} \/ store[Doc.id] # None)
  /\ Refuse("vector_index_failed")

\* Anything else that is raised, the database included; what a parser raises has
\* become a DocumentIndexingError.
RefuseRaised ==
  /\ Indexing /\ ~Unchanged
  /\ Refuse("index_error")

Store ==
  /\ Indexing /\ ~Unchanged
  /\ Chunked
  /\ store' = [store EXCEPT ![Doc.id] = Doc]
  /\ result' = [result EXCEPT
       !.created = IF store[Doc.id] = None THEN @ + 1 ELSE @,
       !.updated = IF store[Doc.id] # None THEN @ + 1 ELSE @,
       !.chunks  = @ + Cardinality(PiecesOf[Doc])]
  /\ Continue

\* The end of the loop: cached answers about the project are dropped.
InvalidateProject ==
  /\ todo = <<>>
  /\ result.created + result.updated > 0
  /\ ~fresh
  /\ fresh' = TRUE
  /\ UNCHANGED <<received, todo, seen, store, result>>

Next == \/ SkipInvalid \/ SkipDuplicate \/ SkipUnchanged
        \/ RefuseUnparsed \/ RefuseTooLong \/ RefuseUnembedded \/ RefuseUnpublished \/ RefuseRaised
        \/ Store \/ InvalidateProject

Spec == Init /\ [][Next]_vars

-----------------------------------------------------------------------------
(* Properties.                                                              *)

\* Every document of the request is counted exactly once, as created, updated,
\* unchanged or invalid, and each invalid one has its error: finish_sync and
\* the collector's report rely on the sums, whatever document of the batch
\* fails at whatever stage.
EveryDocumentCounted ==
  /\ result.created + result.updated + result.unchanged + result.invalid
       = received - Len(todo)
  /\ Len(result.errors) = result.invalid

\* The stored pieces respect both limits of the settings, although the estimate
\* that chooses the fallback ignores the overlap and the fallback's chunks may
\* be longer than max_chunk_tokens before they are split again.
PiecesWithinLimits ==
  \A id \in Ids : store[id] # None =>
    /\ Cardinality(PiecesOf[store[id]]) <= MaxChunks
    /\ \A piece \in PiecesOf[store[id]] : CountTokens(piece.words) <= MaxChunkTokens

\* Parsers that are meant to keep the whole text (parse_python keeps no module
\* code after the first definition, rendered sections are not lines).
KeepsText(doc) ==
  \/ ParserOf(doc) \in {"logs", "patch", "incident", "declarations", "regex", "file", "markdown"}
  \/ doc \in Regrouped

LinesKept(doc) == UNION {RawOf[doc][k].from .. RawOf[doc][k].to : k \in DOMAIN RawOf[doc]}

LinesLost(doc) == {i \in DOMAIN doc.lines : doc.lines[i].words > 0} \ LinesKept(doc)

\* The words of the raw chunk k that some piece holds.
WordsKept(doc, k) ==
  UNION {p.at .. p.at + p.words - 1 : p \in {q \in PiecesOf[doc] : q.raw = k}}

\* A stored document can be found by every word of its text: the sections, the
\* windows and the overlapping pieces leave no gap.  Only the bounded fallback
\* loses text, always the end of the document, and only when it has used up
\* max_chunks_per_document or met blank lines before a line too long to join
\* them.
TextIsSearchable ==
  \A id \in Ids : store[id] # None /\ KeepsText(store[id]) =>
    LET doc  == store[id]
        raws == RawOf[doc]
    IN /\ \A k \in DOMAIN raws : WordsKept(doc, k) = 0 .. raws[k].words - 1
       /\ LinesLost(doc) # {} =>
            LET kept == IF raws = <<>> THEN 0 ELSE raws[Len(raws)].to
            IN /\ doc \in Regrouped
               /\ \A i \in LinesLost(doc) : i > kept
               /\ Len(raws) = MaxChunks \/ doc.lines[kept + 1].words = 0
=============================================================================
