---------------------------- MODULE DocumentIndex ----------------------------
(***************************************************************************)
(* One document of one source in its two stores: the documents and chunks  *)
(* rows in Postgres and the points in Qdrant.  The writers are             *)
(* _index_one_document (incidentops/ingestion/indexer.py), run by the      *)
(* workers for the index jobs of that document, and delete_source          *)
(* (apps/api/routes/sources.py), which purges the source.                  *)
(*                                                                         *)
(* Qdrant has no transactions: a delete or an upsert is visible at once    *)
(* and stays when the database transaction around it is rolled back.  A    *)
(* variable of the relational side holds what is committed; what a         *)
(* transaction has written so far is in its own record.  All chunks that   *)
(* one execution creates are one element, named by the execution.          *)
(***************************************************************************)
EXTENDS Naturals

CONSTANTS
  Jobs,      \* index jobs that carry this document
  Hash,      \* Hash[x]: the content_hash of the payload of x
  None,      \* no row, nobody
  Purge,     \* delete_source, as a lock holder
  MaxTries   \* executions of one job (settings.rag_index_max_retries)

ASSUME DocumentAssumption ==
  /\ None \notin Jobs /\ Purge \notin Jobs /\ None # Purge
  /\ DOMAIN Hash = Jobs
  /\ \A x \in Jobs : Hash[x] # None
  /\ MaxTries \in Nat \ {0}

Chunks == Jobs \X (1 .. MaxTries)

VARIABLES
  doc,      \* documents.content_hash, None when there is no row
  chunks,   \* the chunks rows
  vectors,  \* the document's points in Qdrant
  docLock,  \* who has inserted, updated or deleted the documents row
  exec,     \* exec[x]: [pc, try, current, replaced]
  purge,    \* where delete_source is
  torn      \* history: vectors were deleted by an operation that then failed

vars == <<doc, chunks, vectors, docLock, exec, purge, torn>>

Steps == {"idle", "read", "cleared", "written", "upserted", "done"}

TypeOK ==
  /\ doc \in {Hash[x] : x \in Jobs} \cup {None}
  /\ chunks \subseteq Chunks
  /\ vectors \subseteq Chunks
  /\ docLock \in Jobs \cup {None, Purge}
  /\ exec \in [Jobs -> [pc : Steps, try : 0 .. MaxTries,
                        current : {Hash[x] : x \in Jobs} \cup {None},
                        replaced : SUBSET Chunks]]
  /\ purge \in {"no", "vectors", "rows", "done"}
  /\ torn \in BOOLEAN

Init ==
  /\ doc = None
  /\ chunks = {}
  /\ vectors = {}
  /\ docLock = None
  /\ exec = [x \in Jobs |-> [pc |-> "idle", try |-> 0, current |-> None, replaced |-> {}]]
  /\ purge = "no"
  /\ torn = FALSE

Created(x) == <<x, exec[x].try>>

Release(x) == IF docLock = x THEN None ELSE docLock

\* The execution ends; the job may be executed again (a retry, a duplicate).
EndsAt(x, step) == exec' = [exec EXCEPT ![x].pc = step, ![x].current = None, ![x].replaced = {}]

\* x has deleted vectors and will not publish new ones.
Tears(x) == exec[x].pc \in {"cleared", "written", "upserted"} /\ exec[x].current # None

-----------------------------------------------------------------------------
(* _index_one_document                                                      *)

\* Mutant: executions are not limited.
Read_NoLimit(x) ==
  /\ exec[x].pc = "idle"
  /\ purge # "done"
  /\ doc # Hash[x]
  /\ exec' = [exec EXCEPT ![x] = [pc |-> "read", try |-> @.try + 1,
                                  current |-> doc, replaced |-> {}]]
  /\ UNCHANGED <<doc, chunks, vectors, docLock, purge, torn>>

\* SELECT of the document; a job exists as long as its source.
Read(x) ==
  /\ exec[x].pc = "idle" /\ exec[x].try < MaxTries
  /\ purge # "done"
  /\ doc # Hash[x]
  /\ exec' = [exec EXCEPT ![x] = [pc |-> "read", try |-> @.try + 1,
                                  current |-> doc, replaced |-> {}]]
  /\ UNCHANGED <<doc, chunks, vectors, docLock, purge, torn>>

\* The hash is unchanged: nothing is parsed, embedded or published.
SkipUnchanged(x) ==
  /\ exec[x].pc = "idle" /\ exec[x].try < MaxTries
  /\ purge # "done"
  /\ doc = Hash[x]
  /\ exec' = [exec EXCEPT ![x].pc = "done"]
  /\ UNCHANGED <<doc, chunks, vectors, docLock, purge, torn>>

\* Parsed, chunked and embedded; the vectors of the document are deleted.
ClearVectors(x) ==
  /\ exec[x].pc = "read"
  /\ vectors' = IF exec[x].current = None THEN vectors ELSE {}
  /\ exec' = [exec EXCEPT ![x].pc = "cleared"]
  /\ UNCHANGED <<doc, chunks, docLock, purge, torn>>

\* Mutant: the row is written without waiting for its other writer.
Write_NoLock(x) ==
  /\ exec[x].pc = "cleared"
  /\ (doc = None) = (exec[x].current = None)
  /\ purge # "done"
  /\ docLock' = x
  /\ exec' = [exec EXCEPT ![x].pc = "written", ![x].replaced = chunks]
  /\ UNCHANGED <<doc, chunks, vectors, purge, torn>>

\* The savepoint: UPDATE or INSERT of the document, DELETE of the chunks it
\* has by now, INSERT of the new ones.  The statement waits for whoever has
\* the row, or the unique key, and fails when the row came or went meanwhile.
Write(x) ==
  /\ exec[x].pc = "cleared"
  /\ docLock = None
  /\ (doc = None) = (exec[x].current = None)
  /\ purge # "done"
  /\ docLock' = x
  /\ exec' = [exec EXCEPT ![x].pc = "written", ![x].replaced = chunks]
  /\ UNCHANGED <<doc, chunks, vectors, purge, torn>>

\* Mutant: only a document that is new is published.
Upsert_CreatedOnly(x) ==
  /\ exec[x].pc = "written"
  /\ vectors' = IF exec[x].current = None THEN vectors \cup {Created(x)} ELSE vectors
  /\ exec' = [exec EXCEPT ![x].pc = "upserted"]
  /\ UNCHANGED <<doc, chunks, docLock, purge, torn>>

\* Points for the new chunks, before anything is committed.
Upsert(x) ==
  /\ exec[x].pc = "written"
  /\ vectors' = vectors \cup {Created(x)}
  /\ exec' = [exec EXCEPT ![x].pc = "upserted"]
  /\ UNCHANGED <<doc, chunks, docLock, purge, torn>>

Commit(x) ==
  /\ exec[x].pc = "upserted"
  /\ doc' = Hash[x]
  /\ chunks' = (chunks \ exec[x].replaced) \cup {Created(x)}
  /\ docLock' = None
  /\ EndsAt(x, "done")
  /\ UNCHANGED <<vectors, purge, torn>>

\* The document is refused (parser, embedding, Qdrant, unique key, vanished
\* row, deadlock) or the execution is cancelled or dies: the savepoint or the
\* transaction is rolled back.  A Qdrant call whose answer is lost has
\* happened nevertheless.
Fail(x) ==
  /\ exec[x].pc \in {"read", "cleared", "written", "upserted"}
  /\ \/ UNCHANGED vectors /\ torn' = (torn \/ Tears(x))
     \/ /\ exec[x].pc = "read" /\ exec[x].current # None
        /\ vectors' = {} /\ torn' = TRUE
     \/ /\ exec[x].pc = "written"
        /\ vectors' = vectors \cup {Created(x)} /\ torn' = (torn \/ Tears(x))
  /\ docLock' = Release(x)
  /\ EndsAt(x, "idle")
  /\ UNCHANGED <<doc, chunks, purge>>

\* A redelivered entry, or a later sync, brings the same payload again.
Again(x) ==
  /\ exec[x].pc = "done" /\ exec[x].try < MaxTries
  /\ purge # "done"
  /\ EndsAt(x, "idle")
  /\ UNCHANGED <<doc, chunks, vectors, docLock, purge, torn>>

-----------------------------------------------------------------------------
(* delete_source                                                            *)

\* The points of the source go first.
PurgeVectors ==
  /\ purge = "no"
  /\ vectors' = {}
  /\ purge' = "vectors"
  /\ UNCHANGED <<doc, chunks, docLock, exec, torn>>

\* DELETE of the chunks and documents that are visible; it waits for an update
\* of the row and does not see an insert that is not committed.
PurgeRows ==
  /\ purge = "vectors"
  /\ docLock = None \/ doc = None
  /\ purge' = "rows"
  /\ docLock' = IF doc = None THEN docLock ELSE Purge
  /\ UNCHANGED <<doc, chunks, vectors, exec, torn>>

\* DELETE of the syncs and the source waits for the index job rows that
\* executions have locked; what it leaves of the documents loses its source.
PurgeCommit ==
  /\ purge = "rows"
  /\ \A x \in Jobs : exec[x].pc \in {"idle", "done"}
  /\ purge' = "done"
  /\ doc' = IF docLock = Purge THEN None ELSE doc
  /\ chunks' = IF docLock = Purge THEN {} ELSE chunks
  /\ docLock' = None
  /\ UNCHANGED <<vectors, exec, torn>>

\* Qdrant refuses, the connection is lost, or a deadlock is resolved against
\* the purge: the rows stay, the vectors do not come back.
PurgeFails ==
  /\ purge \in {"vectors", "rows"}
  /\ purge' = "no"
  /\ docLock' = Release(Purge)
  /\ torn' = TRUE
  /\ UNCHANGED <<doc, chunks, vectors, exec>>

-----------------------------------------------------------------------------
Index(x) == \/ Read(x) \/ SkipUnchanged(x) \/ ClearVectors(x) \/ Write(x)
            \/ Upsert(x) \/ Commit(x) \/ Fail(x) \/ Again(x)

Next == \/ \E x \in Jobs : Index(x)
        \/ PurgeVectors \/ PurgeRows \/ PurgeCommit \/ PurgeFails

Spec == Init /\ [][Next]_vars

-----------------------------------------------------------------------------
(* Properties.                                                              *)

\* A changed document replaces its prior chunks without duplicates (technical.md,
\* Operational Invariants, 4): whichever executions overlap, fail or are
\* repeated, the rows are exactly those of one execution, and of the content
\* the document row names.
ChunksMatchDocument ==
  /\ doc = None => chunks = {}
  /\ doc # None => \E c \in Chunks : chunks = {c} /\ Hash[c[1]] = doc

\* Every chunk can be found by vector search, unless an operation that had
\* deleted the vectors failed before it published new ones, or is under way:
\* executions that overlap and all succeed never end with a chunk whose
\* vectors the other one deleted.
VectorsComplete ==
  ~torn /\ purge = "no" /\ (\A x \in Jobs : ~Tears(x)) => chunks \subseteq vectors

\* Claimed by technical.md (Operational Invariants, 5): once delete_source has
\* committed, no document and no chunk of the source remains.
PurgeRemovesEvidence ==
  purge = "done" => doc = None /\ chunks = {}
=============================================================================
