# A TLA+ model of IncidentOps Core

IncidentOps Core ingests operational evidence (code, docs, logs, deploys)
through a collector, indexes it into Postgres and Qdrant, and answers
investigations over it with a retrieval pipeline and an agent workflow whose
side effects need a human approval. The API and the workers are stateless
processes around Postgres (the source of truth), a Redis Stream (delivery) and
Qdrant (vectors). The hard part of the program is not any single handler but
what remains true when handlers, workers, reclaimed queue entries, timeouts and
crashes interleave, and what its long chains of pure steps (parsing, chunking,
ranking, packing) keep and lose. This directory models those parts, checks them
with TLC and proves all of their safety properties with TLAPS.

## 1. The system

| part | state | operations | hard behaviour |
|---|---|---|---|
| index job pipeline (`worker/queue.py`, `worker/index_dispatch.py`, `worker/main.py`, `worker/jobs.py`) | `index_jobs` rows; stream entries and the group's pending list; a worker's in-flight entry | dispatch, publish, claim, execute, retry, acknowledge | at-least-once delivery, reclaim of live entries, SKIP LOCKED, rolled-back attempts, crashes between commit and XADD |
| embedding batcher (`retrieval/embeddings.py`) | pending requests, a text counter, the window task, one future per call | `embed`, window, `_flush` | concurrent flushes, cancellation, slices of a shared answer |
| source syncs (`apps/api/routes/sources.py`, `worker/jobs.py`, `collector/service.py`) | `sources` and `source_syncs` rows, the jobs of a sync | start, batch, finish, the report of a finished job | read-modify-write without locks, autoflush, which of the last jobs reports |
| document index (`ingestion/indexer.py`, `retrieval/vector_store.py`, `delete_source`) | `documents`, `chunks`, Qdrant points | replace a document, purge a source | two stores without a common transaction, overlapping executions |
| workflow runs (`agent/service.py`, `agent/events.py`, `apps/api/routes/runs.py`, `worker/jobs.py`) | `agent_runs`, `approvals`, drafts, events | create, enqueue, execute, approve, reject | second executions, two nested timeouts, decisions on stale reads |
| ingestion of a batch (`ingestion/indexer.py`, `normalized.py`, `failure_taxonomy.py`, `parsers/`, `chunking/`) | the batch, seen ids, the stored documents, a `BatchIngestResult` | validate, skip, parse, split, embed, store or refuse | one document of many failing at any stage, limits that interact, text lost between pieces |
| retrieval and answers (`retrieval/hybrid_search.py`, `query_intent.py`, the four searches, `reranker.py`, `evidence_packer.py`, `routes/search.py`, `routes/answer.py`) | per request: branches, results, evidence | classify, embed, branches, fallback, fuse, rerank, pack, answer | an index that changes meanwhile, two stores that disagree, failing branches and models |
| operational and evaluation runs (`operations/service.py`, `routes/operations.py`, `routes/evals.py`, `eval/runner.py`, `worker/main.py`) | `operational_runs`, `eval_runs`, their messages | idempotent create, execute, retry, mark failed | duplicate requests, enqueue errors, double deliveries |
| access (`apps/api/deps.py`, `security/auth.py`, `rbac.py`, `permission_policy.py`, `rate_limit.py`, `bootstrap_admin.py`) | token versions, roles, the limiter's windows | login, authenticate, limit, check the role, rotate | the limit itself, several processes, tokens revoked under way |
| agent graph, investigation, readiness, collector discovery, redaction | none, or request-local | pure computation | |

The parts meet in five places. The ingest endpoint commits `index_jobs` rows
and publishes nothing; the dispatcher that every worker runs publishes them.
An execution of an index job embeds through the process-wide batcher, writes
the document and reports to the sync and the source in one transaction. A
workflow run is committed and then enqueued by the API itself, without a
dispatcher; operational and evaluation runs likewise, behind the checks of
`AccessControl`. A query reads Postgres and Qdrant while executions and purges
write them.

What makes each part correct, in the order of the modules: a submitted
document is never lost and never indexed twice at once, and attempts are
bounded; a caller gets its own vectors; a source does not stay "indexing" for
nothing; the chunk rows are those of one execution and can be found in Qdrant;
a run ends, asks for approval once and is not reopened; every document of a
batch is counted once, and what is stored of it fits the limits and has no
gaps; evidence is current, fits its limits and supports the answer, and one
branch suffices to find it; one idempotency key makes one run, made by somebody
who may, and a message settles it; the limiter admits no more than its limit.

## 2. Modules

| module | models | notes |
|---|---|---|
| `IndexJobLifecycle` | what the table promises of one row | abstract specification |
| `IndexJobs` | rows, stream, dispatcher, workers | implements `IndexJobLifecycle` |
| `EmbeddingBatcher` | `AsyncEmbeddingBatcher` | one step between two suspension points |
| `SourceSync` | `start_sync`, `ingest_documents_batch`, `finish_sync`, the report of an execution | split where a transaction reads, flushes and commits |
| `DocumentIndex` | `_index_one_document`, `delete_source` | Qdrant calls outside the transaction |
| `WorkflowRun` | `start_run`, `execute_run`, `resume_after_approval`, delivery of the run's entry | |
| `Parsers` | `normalize_source_type`, `_parse_normalized_document` and the parsers | operators: a document's lines to raw chunks |
| `Chunking` | `split_text_by_tokens`, the estimate, the bounded fallback | operators over `Parsers` |
| `BatchIngest` | `index_normalized_documents` | extends `Chunking` |
| `Ranking` | `classify_query_intent`, the searches, fusion, boosts, reranking, `pack_evidence` | operators over a corpus of chunks |
| `HybridSearch` | `hybrid_search_with_debug`, `/v1/search`, `/v1/answer`, and the index as they see it | extends `Ranking` |
| `AccessControl` | tokens, roles, the limiters, login, `bootstrap_admin` | composed by `Operations` |
| `Operations` | the endpoints for observer, logging and evaluator runs, and the worker | extends `AccessControl` |
| `IndexJobs_proofs`, `EmbeddingBatcher_proofs`, `SourceSync_proofs`, `DocumentIndex_proofs`, `WorkflowRun_proofs`, `BatchIngest_proofs`, `HybridSearch_proofs`, `Operations_proofs` | the theorems about the module of that name | TLAPS; `HybridSearch_proofs` also has the lemmas about `Ranking`, `BatchIngest_proofs` those about `Parsers` and `Chunking`, `Operations_proofs` those about `AccessControl` |
| `MC...` | instances for TLC | constants and symmetry only |

Operators named `X_Something` right before an operator `X` are mutants of it:
the way a plausible slip in that code would read. No specification uses them;
putting one in the place of its original makes the property it is paired with
in `PROJECT.json` fail.

### How the code becomes state and actions

*Transactions.* A variable of the relational side is what other transactions
see. `execute_index_document_job` and `execute_run` write "running" but commit
only at the end, so "running" is never visible and is not a value of the model;
what a transaction has read or will write is in a record of its own. A row lock
is a variable (`lock`, `syncLock`, `docLock`, `rowLock`). FOR UPDATE SKIP LOCKED
is a guard on the lock being free, a plain UPDATE is an action that waits for
it, and SELECTs ignore it. SQLAlchemy flushes before every query (autoflush):
where the code runs a query after it changed a row, the row lock is taken there,
and this order is what several properties depend on. The ORM writes a column
only if its value differs from the loaded one (`Write` in `SourceSync`,
`Writes` in `WorkflowRun`), which is why a stale read can make an assignment
disappear.

*The queue.* An entry is `new`, `pending` (delivered) or `idle` (delivered
longer than `job_queue_claim_idle_ms` ago); an acknowledged entry is free. A
worker reads idle entries first (XAUTOCLAIM) and new ones otherwise. All
workers share one consumer group, so a reclaimed entry may be in the hands of
two workers.

*Time* is nondeterministic: rows and entries grow old. It is counted as a fault
while somebody still takes care of the row or entry (the system was slower than
the configured limit), and free otherwise.

*Failures.* A crash forgets a worker's memory, rolls its transaction back and
leaves its entry pending. A timeout (`asyncio.wait_for` in `_process_job`)
raises CancelledError, which `except Exception` does not catch. A Redis or
Qdrant call that raises may have happened.

### IndexJobs

`run_worker` is the program counter `pc`: `poll` (dispatch), `dispatching`
(rows locked), `publishing` (committed, XADD outstanding), `dequeue`,
`claimed`, `executing` (row locked), `retry`, `again` (the retry is enqueued),
`ack`. `Skip`, `RetryLimit`, `MarkStale` and `Start` are the four early decisions
of `execute_index_document_job`, `ExecCommit`, `ExecRaise` and `ExecAbort` its
three ends. An XACK that raises after the job was executed (`AckRaises`) is taken
for a failure of the job, which is retried or given up although its entry is no
longer known to the worker; raised on the retry path it ends the worker. `Mismatch` says which workers run with another
`vector_index_version` than a row's. Worker processes have
`worker_concurrency` = 1, the default; a process with more is several workers.

### EmbeddingBatcher

A text is the pair of its call and its index and stands for its own vector, so
`OwnVectors` is about the offset arithmetic. The lock is never held across an
await, hence a critical section belongs to its caller's step. A caller that
fills the batch runs `_flush` itself; the window task is the flusher `Window`.
A provider answers with one vector per text or fails.

### SourceSync

One source, its syncs and jobs. Batches, executions and finish requests load
`parser_errors` (`base` in their records), change it in memory and write it back
at their flush, if it has changed (`Column`), over what others have committed
meanwhile: counts can get lost. It is followed up to `MaxErrors`; a finish
request's `error_count` only shows in the status. Diagnostics and other counters
are left out. The `erred` history variable holds the syncs for which some
committed transaction had an error, and `ErrorsAreKept` compares it with the
count: it may be too low, but is zero for exactly the other syncs. The `missed` history variable
holds the syncs one of whose jobs ended on a path that does not report to the
source; `IndexingSettles` is exactly "indexing unless one of those". Retry
limits are the subject of `IndexJobs`: here an execution can always be repeated.

### DocumentIndex

One document. All chunks one execution creates are one element. The vectors are
deleted before the savepoint and inserted inside it, both visible at once. The
`torn` history variable says that an operation deleted vectors and then failed:
from then on chunks without vectors are what the code leaves behind (see 6).

### WorkflowRun

One run in queue mode. The row lock taken by the first flushed event keeps two
executions of the same run apart, but the second one does not look at the
status again after waiting: it executes a run that has ended meanwhile. A
decision loads the run, then the newest approval, then flushes (waiting for the
row only if the status changes), then commits. Event numbers are `max + 1` and
unique per run, so a decision that does not lock the row can collide with an
execution or with another decision; `DecideConflict` and `EventConflict` are
the two ways this ends. A database error of an execution (`DatabaseError`) spoils
the session in the same way: recording the failure raises as well, and what was
rolled back is acknowledged.

### Parsers, Chunking and BatchIngest

A text is a sequence of lines, a line its kind (blank, an indented or plain
text, a declaration or heading, an error) and its number of words. That is what
decides where a parser cuts and where `split_text_by_tokens` does; the words
themselves, titles, symbols and metadata are left out. A parser returns raw
chunks as line ranges with their words, structured files their keys with the
words each renders to. A parser may also raise: `parse_jsts` does on a `.jsx` file
with a plain function (`ParserRaises`, for which the flag `loads` of such a
document is false; of a structured file it says whether it can be loaded), and
the document is refused as `parser_exception`. `Pieces` is what would be stored: a raw chunk longer than
`max_chunk_tokens` is cut into overlapping pieces, and if the estimate says
there would be more than `max_chunks_per_document`, the lines are regrouped
first (`BoundedFallbackChunks`). Token counts keep the code's arithmetic:
`int(words * 1.3)` and `int(tokens / 1.3)`. `BatchIngest` takes one document at
a time through validation (the checks in their order), duplicates, the unchanged
test and every way to be refused; a refused document leaves no trace in `store`
because its savepoint undoes it (the vectors it may have deleted are
`DocumentIndex`'s subject).

### Ranking and HybridSearch

A chunk has the columns that the searches, boosts and the packer read; a query
has the groups of phrases it contains and the terms, services, endpoints and
hashes extracted from it. The tag of a chunk (`metadata.source_type`) is
arbitrary, since the entries of a deploy history may overwrite it; the type of
the chunk is what the parser gave it. Text matching is membership. The lexical rank, the
similarity and the reranker's judgement of a chunk are numbers of the instance.
`ClassifyQueryIntent` has the order of the source's tests, `WeightedRrf` its
`1 / (60 + rank)` scaled to integers, `Boosts` the reasons of `_metadata_boost`
with their weights. Every sort of the code is `Ranked`: a key, and the old order
where keys are equal (the place of a member is the number of members before it,
which is a definition the provers can use); the loop of `pack_evidence` is the
recursive function `Packing` over rounds of `Pack`. A LIMIT without ORDER BY is
a choice of rows. `HybridSearch` runs one request: each
branch is a session of its own and sees what is committed at that moment, the
vector branch in two steps (Qdrant answers, then the rows are loaded). This is
the parallel mode, the default; with `rag_parallel_retrieval` off, and in the
vector fallback, a branch uses the request's own session, so that a database
error in it also fails the branches and writes after it. That is not modelled.
`points`
and `version` change independently, as `DocumentIndex` shows they may. Failures
are actions of their own: an embedding, a branch, the reranker (a caught
`RemoteModelError`, and a malformed answer that is not caught), the model. The
`lived` history variable holds the chunks that were committed at some time of
the request.

### AccessControl and Operations

The clock ticks with every limiter check, and freely: two checks never read the
same `time.time()`, and the clocks of the processes agree. The Redis limiter
reads the clock before its pipeline runs, so a check may find one with a later
reading before it (`CheckOvertaken`). Both limiters are
modelled as the set of times in a store: one store per process for memory, one
in all for Redis, which records refused requests as well. `BootstrapAdmin` is
the command that gives the role and, with `--update-password`, revokes all
tokens. `plan` holds the settings of a deployment and the requests sent to it.
A worker's transaction locks the row of the run with its first flush, so
executions of one run queue up (`Locked`), but like a workflow run's they do not
look again. The key of an evaluator run is the id of its eval run. `lost` is the
set of runs whose failure `_mark_operational_failure` could not write.

## 3. Runs

| run | instance | checks | result |
|---|---|---|---|
| `index_one` | 1 job, 2 workers, 5 entries, 2 attempts, 1 worker retry, 3 faults | `TypeOK`, `NoStrandedJob`, `LocksMatchOwners`, `OnlyTheOwnerWrites`, `SettledRowsStay`, `ImplementsLifecycle` | holds (about 1 500 000 states) |
| `index_live` | 2 jobs, 2 workers, batch of one, rolling upgrade, 1 fault, fair | `EventuallySettled` | holds |
| `batcher` | 5 calls of sizes 1, 2, 1, 3, 0, one of another kind, `max_texts` 3, 1 cancellation, fair | `TypeOK`, `OwnVectors`, `BatchesBounded`, `OneBatchPerRequest`, `ResolvedOnce`, `BatchesResolve` | holds |
| `batcher_wakeup` | 2 calls, no cancellation, fair | `EveryCallAnswered` | violated, see 6 |
| `sync` | 1 sync, 2 documents, 2 finish requests, up to 2 errors | `TypeOK`, `ReportIsCurrent`, `IndexingSettles`, `ErrorsAreKept` | holds (about 3 900 000 states up to symmetry) |
| `document` | 3 jobs (two with the same content), 2 executions each, a purge | `TypeOK`, `ChunksMatchDocument`, `VectorsComplete` | holds (about 88 000 states) |
| `document_purge` | 1 job, a purge | `PurgeRemovesEvidence` | violated, see 6 |
| `workflow` | 2 workers, 2 reviewers, all fault kinds, 3 faults, fair | `TypeOK`, `OnePendingApproval`, `OneDraft`, `AwaitingHasApproval`, `NotReopened`, `RunEnds` | holds (about 855 000 states) |
| `workflow_timeout` | 1 worker, 1 timeout | `AckedRunIsRecorded` | violated, see 6 |
| `ingest` | batches of up to 2 of 86 documents, 2 ids, earlier contents | `TypeOK`, `EveryDocumentCounted`, `PiecesWithinLimits`, `TextIsSearchable` | holds (about 61 000 states) |
| `retrieval` | 11 requests, 7 chunks of 5 documents, 2 changes of the index | `TypeOK`, `EvidenceIsCurrent`, `EvidencePacked`, `AnswerSupported`, `OneBranchSuffices` | holds (about 300 000 states) |
| `operations` | 6 deployments, up to 3 requests, 2 workers, 2 processes, up to 4 faults, fair workers | `TypeOK`, `RunCreation`, `AdmittedBounded`, `RunSettles` | holds (about 485 000 states) |

### Bounds

`MaxFaults` bounds faults per behaviour. One duplicate needs one fault, one
reclaim another, and a crash of the second worker a third: three faults reach
every combination of two, and the proofs of section 5 drop the bound. `Entries` is large enough that an XADD always finds a free id in
the instances (each dispatch, lost reply and worker retry adds one). Two workers
suffice for the pairwise races: a worker that is done takes part again, so a run
executed by one and again by the other can be reopened by the first. The safety
properties of `sync`, which has a single sync, are proved for any number of syncs
that overlap. `max_texts` = 3 with sizes 1, 2 and 3 fills, underfills and overshoots
a batch. Two documents are what "which of the last jobs reports" needs, two
finish requests what a finish sent again needs, and two errors what a stale
write-back needs to lower a count; `FewErrors` keeps the last two apart (while
two finish requests are served, the counts go to one), which the proofs do not
need. In `document`, `MaxTries` bounds
the executions of a job as `rag_index_max_retries` does.

`ingest` uses the smallest limits at which everything happens:
`max_chunk_tokens` 200 with the code's overlap of 50 gives pieces of 153 words
that start every 115, and the texts lie around those numbers (154, 300, 453
words; lines that together need the fallback; one line longer than a piece;
blanks before it); three chunks per document make the limit and the fallback
reachable. Two documents are what duplicates and "one fails, the other does not"
need. `retrieval` has a document replaced in place (same lines, two versions),
one whose lines move, and three that stay, one of them a deploy history that
gives its chunk a tag of its own; limits of evidence are of the size of
the texts, so that cuts, exhausted budgets and left-out kinds happen; every
intent that has rules of its own occurs. Two changes are what a stale point (the
commit without the Qdrant call, and back) takes. `operations` has two requests
with one key and three faults, an evaluation with four (both attempts fail and
the failure cannot be written), the limiter at its limit with either backend and
two processes, revoked tokens and missing roles; the plans are separate so that
their products are not explored.

Deadlock is checked in `index_one` and `index_live` (workers loop for ever). The
other systems may stop: requests come to an end.

### Fairness

`IndexJobs`: weak fairness of every worker's loop and of growing old. A worker
is an endless loop around awaits with timeouts, and clocks advance; faults are
never required and are finite in number. `EmbeddingBatcher`: the sleep ends,
the event loop resumes a coroutine whose future is done, and a provider call
ends because its HTTP client has a timeout and bounded retries. `WorkflowRun`:
requests are served, workers loop, clocks advance, a decision that holds the row
commits; no reviewer has to come. `Operations`: weak fairness of each worker's
`Work`, its loop as long as nothing fails; requests need not be served, and
faults are never required.

## 4. The properties and the hazards they are for

`PROJECT.json` lists the most important hazards with their lines. The ones that shaped the
models:

* *Commit, then publish.* A dispatcher that dies between the two, a lost XADD
  reply, a reader that acknowledges an entry because somebody else holds the
  row: `NoStrandedJob` says that a row that is not done always satisfies the
  dispatcher's WHERE clause up to its age; `EventuallySettled` that this is
  enough.
* *Delivered twice.* `LocksMatchOwners`, `OnlyTheOwnerWrites`,
  `SettledRowsStay`, and the refinement: one attempt per recorded outcome.
* *Counting before or after the flush.* `ReportIsCurrent` and
  `IndexingSettles` hold because the pending query's autoflush takes the sync
  row first. Counting first, in either place, breaks them.
* *Written back from a stale read.* `ErrorsAreKept` holds because the ORM leaves
  a column alone that a transaction has not changed, and because a finish takes
  the larger of the loaded and the reported number: writing the counter back in
  every batch, or the reported number alone, breaks it.
* *Two stores.* `ChunksMatchDocument` is what the row lock of the document
  gives; `VectorsComplete` is what remains for Qdrant.
* *A second execution of a run.* `OnePendingApproval` and `OneDraft` hold
  because both executions update the run row before they look;
  `AwaitingHasApproval` and `NotReopened` do not survive a second execution and
  are stated for runs that are not reclaimed from a live worker.
* *One of many fails.* `EveryDocumentCounted`: however the documents of a batch
  fail, the sums that `finish_sync` and the collector report add up.
* *Limits that interact.* The estimate ignores the overlap, the fallback ignores
  `max_chunk_tokens`, the split ignores the number of chunks:
  `PiecesWithinLimits` says that what is stored keeps both limits all the same,
  `TextIsSearchable` that no text falls between pieces, and which text the
  fallback gives up. `EvidencePacked` says the same of the evidence, whose texts
  can be cut twice.
* *Reading while others write.* `EvidenceIsCurrent` holds because hits of Qdrant
  are looked up in Postgres; `OneBranchSuffices` because `_run` turns every
  exception of a branch into no results; `AnswerSupported` relates a decision
  made on all results to the evidence packed later.
* *Check, then insert.* `RunCreation` holds because of the unique constraint and
  not because of the SELECT before it; `RunSettles` is about every way a message
  can be lost, repeated or given up.

## 5. Proofs

Each theorem holds for every value of the constants that the named assumptions
of its module allow; TLC evaluates the same assumptions on the instances.

| module | theorem | states | for all |
|---|---|---|---|
| `IndexJobs_proofs` | `TypeCorrect` | `Spec => []TypeOK` | jobs, workers, entries, limits, faults |
| | `JobsRecoverable` | `Spec => []NoStrandedJob` | |
| | `LockSafety` | `Spec => []LocksMatchOwners` | |
| | `OwnerWrites` | `Spec => OnlyTheOwnerWrites` | |
| | `SettledStay` | `Spec => SettledRowsStay` | |
| | `Refinement` | `Spec => ImplementsLifecycle` | |
| `SourceSync_proofs` | `ReadyIsCurrent` | `Spec => []ReportIsCurrent` | overlapping syncs, jobs, finish requests |
| | `IndexingHasReason` | `Spec => []IndexingSettles` | |
| | `NoErrorForgotten` | `Spec => []ErrorsAreKept` | |
| | `TypeCorrect` | `Spec => []TypeOK` | |
| `DocumentIndex_proofs` | `ChunksMatch` | `Spec => []ChunksMatchDocument` | jobs, contents, executions of a job |
| | `VectorsAreComplete` | `Spec => []VectorsComplete` | |
| | `TypeCorrect` | `Spec => []TypeOK` | |
| `WorkflowRun_proofs` | `AtMostOnePending` | `Spec => []OnePendingApproval` | workers, reviewers, kinds and number of faults |
| | `AtMostOneDraft` | `Spec => []OneDraft` | |
| | `AwaitingDecidable` | `Spec => []AwaitingHasApproval` | |
| | `DecidedStaysDecided` | `Spec => NotReopened` | |
| | `TypeCorrect` | `Spec => []TypeOK` | |
| `EmbeddingBatcher_proofs` | `ReceivesOwnVectors` | `Spec => []OwnVectors` | calls, sizes, kinds, `max_texts` |
| | `BatchesAreBounded` | `Spec => []BatchesBounded` | |
| | `EmbeddedOnce` | `Spec => []OneBatchPerRequest` | |
| | `OutcomesStay` | `Spec => ResolvedOnce` | |
| | `TypeCorrect` | `Spec => []TypeOK` | |
| `BatchIngest_proofs` | `AllCounted` | `Spec => []EveryDocumentCounted` | documents, batch lengths, limits |
| | `LimitsRespected` | `Spec => []PiecesWithinLimits` | |
| | `Searchable` | `Spec => []TextIsSearchable` | |
| | `NoWordLost` | the pieces of a raw chunk hold its words | |
| | `NoLineLost` | the raw chunks of a document hold its lines, but for the end of one that is regrouped | |
| | `TypeCorrect` | `Spec => []TypeOK` | |
| `HybridSearch_proofs` | `OnlyCurrentEvidence` | `Spec => []EvidenceIsCurrent` | corpora, queries, filters, changes of the index, settings |
| | `EvidenceWithinLimits` | `Spec => []EvidencePacked` | |
| | `SynthesisSupported` | `Spec => []AnswerSupported` | |
| | `NoBranchIsNeeded` | `Spec => []OneBranchSuffices` | |
| | `TypeCorrect` | `Spec => []TypeOK` | |
| `Operations_proofs` | `OneRunPerKey` | `Spec => []RunCreation` | deployments, requests, users, workers |
| | `LimiterHolds` | `Spec => []AdmittedBounded` | limits, windows, processes |
| | `TypeCorrect` | `Spec => []TypeOK` | |

None of the invariants is inductive by itself. Each module has one inductive
invariant, proved by `InitInv`, `NextInv` (one step per action) and
`Invariance`; the properties follow from it. What it adds to them is the reason
the code is right.

*`IndexInv`.* `HoldsEntry`: a worker past `dequeue` refers to an entry, so
`held[w].job` is a job. `OwnedRowsOpen`: what a transaction read of a row it has
locked still holds, that is, an executed row has an attempt left and is not
settled and a dispatched row is live; without it neither the bound on `attempts`
nor `NoStrandedJob` survives a commit. `UntriedRowsFresh`: a row that does not
exist yet has attempts to spend. `LocksMatchOwners` protects `OwnedRowsOpen`
from other workers: a step that changes a row needs its lock or finds it free.
The action properties and the refinement follow action by action; `RowSteps`,
`LockedRowsOpen`, `ExecutedRow` and `DispatchedRow` say which actions change rows
at all and what is known of the row they change.

*`SyncInv`.* `LockHeld`: whoever has flushed the sync row has its lock until the
commit. Because the pending query runs after that flush, what it found cannot
change for the worse: `CountHolds` (the finish request), `LeftToAnother` (an
execution that does not report has seen another job unfinished) and
`ReportIsCurrent`. `SawFinished` and `NotBefore` say that a sync is finished for
good and not referred to before it exists. `IndexingSettles` alone is not
inductive: the last execution of a sync writes "ready" only if it differs from
the status it loaded, so a stale read would make the report disappear. `Settles`
adds what excludes this: some finished sync that the source waits for has only
executions that loaded an "indexing" source (`ReportsReach`). `Counted` adds to
`ErrorsAreKept` what a finish request has loaded (`FinishBase`): not more than it
will write, and positive only for a sync with errors. `CountIs` says how a stale
write-back changes the count (not at all, or to something positive), `Kept` that
count and history stay together.

*`DocumentInv`.* `LockMatchesWriter` (the row, or its unique key, is held from
the write to the commit) makes `WriterSawAll` inductive: the chunks an execution
replaces are all there are. `PublishedOrTorn` follows the vectors of an
execution between the upsert and the commit, which is not one step: they are
there, or a purge or another execution that has deleted vectors is to be
blamed, which `torn` records if it fails.

*`WorkflowInv`.* `LockMatchesWriter` again, and `ResultIsFresh`: that an
execution asks for approval or adds a draft was decided under the row lock and
still holds when it commits. `EndedStaysEnded` orders the API, the entry and the
executions, and keeps decisions away from runs that have not ended.
`OneExecution` is all that is true only as long as no entry is reclaimed from a
live worker, and what `AwaitingHasApproval` and `NotReopened` rest on.

*`BatcherInv`.* `FlightMatches`, `IdleIsUnknown` and `CountIsExact` tie the
program counters, the list and `_pending_texts` together. `AnswersAreOwn` needs
`SliceIsOwn`: slice k of the concatenated texts of a batch is the texts of its
k-th request. This is an induction over the length of the batch, done with
`SetInduction`, where the induction predicate is a set of numbers.

*`BatchInv`* only adds types. Its work is in lemmas about the split:
`Widths`, `MultipleBelow`, `SubTextsFit` and `SubTextsCover` do the arithmetic of
`int(words * 1.3)` and of the steps, for every setting in which the overlap is
shorter than the piece (`ChunkingAssumption`). `PiecesFinite` makes the number
of pieces a number. The lemmas about the parsers hold for every text: `Ascending`
lists a set of lines in order (`AscendingLists`, by counting the members below
each), so the section that begins at the last boundary before a line reaches to
the next boundary and holds the line (`SectionsCover`), and the window that
begins at the multiple of `WINDOW_SIZE` below a line does (`LogCovers`); a chunk
has at least the words of each of its lines (`WordsCounted`), so leaving out
blank chunks drops none of them. `Built` is the invariant of the loop of
`_build_bounded_fallback_chunks`, by induction over the lines: the chunks hold
exactly the lines before the open one, and the loop has stopped only at
`max_chunks_per_document` or at a line without words. `NoLineLost` and
`NoWordLost` together are `TextIsSearchable`. The assumptions:
`DocumentsAssumption` (blank lines are those without words; loaded sections are
lists) and `EarlierAssumption` (what earlier batches stored was within the same
`max_chunks_per_document`). That every parser returns a list of texts is proved
(`ParserKeeps`, `RawListed`).

*`SearchInv`.* `BranchesInv` says what may be in the hands of a branch: hits of
Qdrant pass the filters but need not be rows, and what a branch has found when
it is done was committed at some time of the request (`Live \subseteq lived` is
what makes that so). `FlowInv` orders the phases: no branch is between hits and
rows when the results are fused, and a request fails with all branches waiting
or all that run done. `ResultsInv` and `PackedInv` say that results and evidence
are of `Usable` chunks, found by a branch and with a tag that `_raw_source_types`
has seen, or none; this is why an answer of insufficient evidence cannot cite a
chunk tagged with the kind it misses. `ResponseInv` carries what was decided before the model is asked to the
answer. Below it lie the lemmas about `Ranking`, which hold for all arguments:
a sort returns a permutation (`RankedLists`, by counting the members ahead of
each, `SortPermutes`), a permutation keeps the sum (`SumPermuted`), each search
returns rows of the right kind and no more than asked for, the fusion loses no
chunk but by its cut (`FusedResults`), and every round of the packer keeps its
limits (`PackInv`, `PackRound`, `PackingKeepsLimits`). Inductions over lists use
`NatInductive`, in which the induction predicate is a set of numbers. The
assumptions: `RequestsAssumption` (the schemas ask for `top_k >= 1`, a query has
finitely many words), `LimitsAssumption` (the settings that bound evidence allow
at least one text of two characters; of a text with room for one character
`_compact_text` leaves nothing), `CorpusAssumption` (scores are numbers, a text
has a length), and `SourceAssumption` (the mark for a chunk without a tag is none
of the three kinds that an answer can need; nothing is assumed of the tags).

The proof of `NoBranchIsNeeded` corrected the property: that evidence is
returned whenever some branch found a chunk with a text is false in general,
because the cut to `top_k` may keep only chunks whose text is empty, and
`pack_evidence` passes over them. It is stated for the case that all that was
found has a text; the parsers leave out chunks that are empty once stripped.

*`OperationsInv`.* `Checked` carries what the checks of a request found to the
moment of the insert; `Targets` and `MessagesHaveRuns` relate requests, runs and
messages; `KeysDistinct` is the unique constraint between the insert and the
commit. For the limiter, `WindowCovered`: what was admitted and is still in the
window is kept by some store, and `WindowBounded`: each store has admitted at
most the limit in it. A check that was overtaken only adds to what Redis keeps of
the current window (`CheckOvertakenLimiter`): with its earlier reading it forgets
less. `AdmittedBounded` is then a bound on a union of sets,
one for Redis and one for each process otherwise.

Only model-checked: `EventuallySettled`, `BatchesResolve`, `RunEnds` and
`RunSettles`, because liveness under fairness, and ENABLED, are outside the
prover. The runs and the proofs are about the modules; that these say what the
Python code does rests on the translation, which the map in `PROJECT.json`
lays open line by line.

## 6. Where the code and its documentation disagree

* `batcher_wakeup`: a request below `max_texts` that arrives while the window
  task awaits the provider starts no new window (`embeddings.py:72` asks whether
  the task is done, not whether it has swapped the list out). If no other
  request follows, its caller waits until the job's timeout.
* `document_purge`: technical.md:289 says a purge removes the evidence of a
  source; a document whose first execution had not committed when the DELETE
  ran outlives it, without a source.
* `workflow_timeout`: technical.md:231 says that the worker persists status or
  records failure; the outer timeout of a run is not longer than the inner one
  that would record it, so the run is rolled back, acknowledged and stays
  "queued".

Limits of the passing properties that come from the code as well: a flush run
by a cancelled caller abandons the other requests of its batch
(`BatchesResolve` excludes it); a source stays "indexing" after jobs that end
without a report (`missed`); a failure after the vectors were deleted leaves
chunks without vectors, which an unchanged re-sync does not repair (`torn`);
a run reclaimed while it is still being executed can be reopened after its
decision, or wait for an approval that is already decided (`OneAtATime`); a run
whose API process dies before the enqueue, or whose execution the database
failed, stays "queued".

Observations without a run of their own:

* The collector's comment says that Core records a failed sync
  (`collector/service.py:121`); a batch that raises is rolled back whole and the
  sync stays "running".
* Concurrent write-backs lose increments of `parser_errors`, so the number a sync
  reports can be too low (never zero when there was an error).
* A `.jsx` file with a plain function declaration is refused as
  `parser_exception`: `_resolve_regex_declaration` knows only "js" and "ts"
  (`code_parser.py:475`) and asks the match for a group it does not have.
* An entry of a deploy history with a `source_type` of its own overwrites the tag
  of its chunk (`indexer.py:559`). `_raw_source_types` goes by the tag and the
  packer also by the chunk's type, so an answer that says it misses deploys may
  show an item it calls a deploy.
* A Redis check that another one overtook can be admitted although what should
  have kept it out was already forgotten; `AdmittedBounded` does not count it.
* The execution of an older sync sets the status of its source while a newer
  sync runs, and an older payload executed later overwrites newer content: jobs
  carry no order the code could compare. A decision on a run is accepted
  whatever the status of the run or the approval. No rule in the code or its
  documents says otherwise, so no property is stated.
* `_azure_embed` does not compare the number of vectors with the number of texts.
  Of a short answer to a shared batch, the indexer refuses only the document
  whose own slice is short.
* `metadata_search` limits its rows without an ORDER BY: which matches are
  scored is up to Postgres (every choice is explored).
* The bounded fallback drops the end of a document without an error when it has
  used up its chunks or meets blank lines before a line too long to join them.
  `parse_python` keeps neither module code after the first definition nor
  decorators; log chunks count lines from the first that is not blank.
* `split_text_by_tokens` never ends with `max_chunk_tokens` of 50 or less
  (`ChunkingAssumption`); the settings do not exclude it.
* All entries of a deploy history report line 1 and all sections of a
  configuration file the whole file, so `pack_evidence`, which keeps one text
  for each place, returns one of them.
* An embedding provider that is down fails every request that is not an exact
  lookup, although three branches do not need it. A reranker or a model whose
  answer has the wrong shape fails the request too (`RerankMalformed`,
  `LlmMalformed`).
* The graph branch ignores the filters of a request.
* An observer run that a worker has completed is overwritten with "failed" when
  the enqueue reports an error late (`RecordEnqueueFailure`); the eval run of an
  evaluation that was given up stays "queued" (`MarkFailed`), and so does the
  operational run of one that could not be enqueued.
* The second of two concurrent requests with one key fails with a server error
  instead of returning the first one's run. The Redis limiter counts refused
  requests, so a client that keeps trying is not admitted again; the memory
  limiter admits its limit in every process.

## 7. Not modelled, and the plan

Done, in the order of the plan: the index pipeline and its refinement of
`IndexJobLifecycle`, batcher, syncs, document index, workflow runs, batch
ingestion with parsers and chunking, operational and evaluation runs with access
control, retrieval and answers; each with proofs of its safety properties. What
the plan leaves open: an abstract specification of the life of a run, which
`WorkflowRun` would implement as `IndexJobs` implements `IndexJobLifecycle`.

Left out: embedding and LLM providers beyond their outcomes (HTTP clients), the
agent node graph, investigation and readiness (heuristics inside one request or
execution, without state of their own), redaction and collector discovery (text
processing without shared state), the retrieval cache (it holds the
classification and the embedding of a query, which do not depend on the index),
audit rows, validation of settings, metrics, tracing, MCP server, web page,
scripts and deployment files. `InlineQueue` and synchronous indexing are
development modes without the behaviour that is hard here. `reindex_source` is
not modelled, nor is the sequential mode of retrieval (see `HybridSearch` in 2).
Within the modelled parts, diagnostics of a sync and its counters but for
`parser_errors`,
audit and operational events, what an agent or an evaluation finds, and titles,
symbols and metadata of chunks are abstracted away.
