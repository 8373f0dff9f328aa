----------------------------- MODULE SourceSync -----------------------------
(***************************************************************************)
(* One source, its syncs and the status both report: start_sync,           *)
(* ingest_documents_batch and finish_sync (apps/api/routes/sources.py),    *)
(* the collector that calls them (incidentops/collector/service.py) and    *)
(* the part of execute_index_document_job that reports a finished document *)
(* to its sync and its source (incidentops/worker/jobs.py), with           *)
(* rag_async_indexing on.                                                  *)
(*                                                                         *)
(* Every handler is one READ COMMITTED transaction.  The sync row is read  *)
(* without a lock, changed in memory and written by the session's          *)
(* autoflush, which takes the row lock until the commit: a handler is      *)
(* split where it reads, where it flushes and where it commits.  The ORM   *)
(* writes a column only when its new value differs from the one it loaded. *)
(* How often a document is tried is IndexJobs' subject: here an execution  *)
(* may always be repeated.                                                 *)
(***************************************************************************)
EXTENDS Naturals

CONSTANTS
  Syncs,     \* the source's syncs
  Jobs,      \* the index jobs, one per valid document
  SyncOf,    \* SyncOf[j]: the sync of the batch that carries j
  Requests,  \* finish requests that can be served at the same time
  MaxErrors  \* bound: how far parser_errors is followed

ASSUME SyncAssumption ==
  /\ MaxErrors \in Nat \ {0}
  /\ SyncOf \in [Jobs -> Syncs]
  /\ Jobs \cap Requests = {}          \* a job and a request are two transactions
  /\ "none" \notin Jobs \cup Requests

None == "none"

VARIABLES
  source,    \* the source row: [status, last] (status, last_sync_status)
  sync,      \* sync[s]: the sync row: [status, errors] (errors: parser_errors)
  syncLock,  \* syncLock[s]: the transaction that has updated the row
  client,    \* client[s]: the collector run that drives s
  opened,    \* opened[s]: the source as start_sync has read it
  batch,     \* batch[s]: an ingest_documents_batch request being served
  finish,    \* finish[r]: a finish_sync request being served
  job,       \* job[j]: the committed row: absent, live, completed, failed, stale
  exec,      \* exec[j]: the execution of j
  missed,    \* history: syncs of jobs that ended without reporting to the source
  erred      \* history: syncs some committed transaction has had an error for

vars == <<source, sync, syncLock, client, opened, batch, finish, job, exec, missed, erred>>

Finals     == {"success", "partial_success", "failed", "cancelled"}
Successful == {"success", "partial_success"}

Source == [status : {"created", "syncing", "indexing", "ready", "error"},
           last : {None, "running", "running_with_errors", "indexing"} \cup Finals]
Sync == [status : {"absent", "running"} \cup Finals, errors : 0..MaxErrors]

\* A source that was just registered; also what a request holds before it reads.
\* A request's "base" is the parser_errors it has loaded.
Unread   == [status |-> "created", last |-> None]
NoBatch  == [pc |-> "idle", jobs |-> {}, base |-> 0, errors |-> 0, running |-> FALSE,
             loaded |-> None]
NoFinish == [pc |-> "idle", sync |-> None, status |-> None, base |-> 0, errors |-> 0,
             pending |-> FALSE, loaded |-> None]
NoExec   == [pc |-> "idle", result |-> None, base |-> 0, finished |-> FALSE, report |-> None,
             loaded |-> None]

TypeOK ==
  /\ source \in Source
  /\ sync \in [Syncs -> Sync]
  /\ syncLock \in [Syncs -> Jobs \cup Requests \cup {None}]
  /\ client \in [Syncs -> {"idle", "starting", "uploading", "failed"}]
  /\ opened \in [Syncs -> Source]
  /\ \A s \in Syncs : batch[s].pc \in {"idle", "read"} /\ batch[s].jobs \subseteq Jobs
  /\ \A r \in Requests : /\ finish[r].pc \in {"idle", "read", "counted"}
                         /\ finish[r].pc # "idle" => finish[r].sync \in Syncs
  /\ job \in [Jobs -> {"absent", "live", "completed", "failed", "stale"}]
  /\ \A j \in Jobs : exec[j].pc \in {"idle", "read", "flushed"}
  /\ missed \subseteq Syncs
  /\ erred \subseteq Syncs

Init ==
  /\ source = Unread
  /\ sync = [s \in Syncs |-> [status |-> "absent", errors |-> 0]]
  /\ syncLock = [s \in Syncs |-> None]
  /\ client = [s \in Syncs |-> "idle"]
  /\ opened = [s \in Syncs |-> Unread]
  /\ batch = [s \in Syncs |-> NoBatch]
  /\ finish = [r \in Requests |-> NoFinish]
  /\ job = [j \in Jobs |-> "absent"]
  /\ exec = [j \in Jobs |-> NoExec]
  /\ missed = {}
  /\ erred = {}

Finished(s) == sync[s].status \in Finals
JobsOf(s)   == {j \in Jobs : SyncOf[j] = s}
Free(s)     == syncLock[s] = None

\* UPDATE of a column: written only when its new value is not the loaded one.
Column(current, loaded, new) == IF new = loaded THEN current ELSE new

\* UPDATE of a row, column by column.
Write(row, loaded, new) ==
  [column \in DOMAIN row |-> Column(row[column], loaded[column], new[column])]

\* The history after a transaction for s that has had n errors.
Note(s, n) == IF n > 0 THEN erred \cup {s} ELSE erred

-----------------------------------------------------------------------------
(* start_sync.  A client that stops for reasons of its own (a timeout, the   *)
(* network) is one that sends no further request.                           *)

StartRead(s) ==
  /\ client[s] = "idle"
  /\ client' = [client EXCEPT ![s] = "starting"]
  /\ opened' = [opened EXCEPT ![s] = source]
  /\ UNCHANGED <<source, sync, syncLock, batch, finish, job, exec, missed, erred>>

StartCommit(s) ==
  /\ client[s] = "starting"
  /\ sync' = [sync EXCEPT ![s] = [status |-> "running", errors |-> 0]]
  /\ source' = Write(source, opened[s], [status |-> "syncing", last |-> "running"])
  /\ client' = [client EXCEPT ![s] = "uploading"]
  /\ opened' = [opened EXCEPT ![s] = Unread]
  /\ UNCHANGED <<syncLock, batch, finish, job, exec, missed, erred>>

-----------------------------------------------------------------------------
(* ingest_documents_batch.  It never asks whether the sync is finished.     *)

\* The request carries valid documents and n invalid ones.
BatchRead(s) ==
  /\ client[s] = "uploading"
  /\ batch[s] = NoBatch
  /\ \E docs \in SUBSET {j \in JobsOf(s) : job[j] = "absent"}, n \in 0..MaxErrors :
       /\ docs # {} \/ n > 0
       /\ sync[s].errors + n <= MaxErrors
       /\ batch' = [batch EXCEPT ![s] =
                      [pc |-> "read", jobs |-> docs, base |-> sync[s].errors, errors |-> n,
                       running |-> sync[s].status = "running", loaded |-> source]]
  /\ UNCHANGED <<source, sync, syncLock, client, opened, finish, job, exec, missed, erred>>

\* Mutant: the jobs are committed without waiting for the sync row.
BatchCommit_NoLock(s) ==
  LET b == batch[s]
  IN /\ b.pc = "read"
     /\ job' = [j \in Jobs |-> IF j \in b.jobs THEN "live" ELSE job[j]]
     /\ sync' = [sync EXCEPT ![s].errors = Column(@, b.base, b.base + b.errors)]
     /\ source' = IF b.errors > 0 /\ b.running
                  THEN Write(source, b.loaded, [b.loaded EXCEPT !.last = "running_with_errors"])
                  ELSE source
     /\ batch' = [batch EXCEPT ![s] = NoBatch]
     /\ erred' = Note(s, b.errors)
     /\ UNCHANGED <<syncLock, client, opened, finish, exec, missed>>

\* Mutant: the counter is written back whether or not the batch has changed it.
BatchCommit_WriteBack(s) ==
  LET b == batch[s]
  IN /\ b.pc = "read"
     /\ Free(s)
     /\ job' = [j \in Jobs |-> IF j \in b.jobs THEN "live" ELSE job[j]]
     /\ sync' = [sync EXCEPT ![s].errors = b.base + b.errors]
     /\ source' = IF b.errors > 0 /\ b.running
                  THEN Write(source, b.loaded, [b.loaded EXCEPT !.last = "running_with_errors"])
                  ELSE source
     /\ batch' = [batch EXCEPT ![s] = NoBatch]
     /\ erred' = Note(s, b.errors)
     /\ UNCHANGED <<syncLock, client, opened, finish, exec, missed>>

\* The index jobs, the counters and the source's status in one commit; the
\* flush waits for the sync row.
BatchCommit(s) ==
  LET b == batch[s]
  IN /\ b.pc = "read"
     /\ Free(s)
     /\ job' = [j \in Jobs |-> IF j \in b.jobs THEN "live" ELSE job[j]]
     /\ sync' = [sync EXCEPT ![s].errors = Column(@, b.base, b.base + b.errors)]
     /\ source' = IF b.errors > 0 /\ b.running
                  THEN Write(source, b.loaded, [b.loaded EXCEPT !.last = "running_with_errors"])
                  ELSE source
     /\ batch' = [batch EXCEPT ![s] = NoBatch]
     /\ erred' = Note(s, b.errors)
     /\ UNCHANGED <<syncLock, client, opened, finish, exec, missed>>

\* The handler raises and get_db rolls back: nothing is recorded.  The error
\* response makes the collector run raise: it logs, leaves and sends no more.
BatchFails(s) ==
  /\ batch[s].pc = "read"
  /\ batch' = [batch EXCEPT ![s] = NoBatch]
  /\ client' = [client EXCEPT ![s] = "failed"]
  /\ UNCHANGED <<source, sync, syncLock, opened, finish, job, exec, missed, erred>>

-----------------------------------------------------------------------------
(* finish_sync.  A finished sync answers at once and changes nothing.       *)

\* Mutant: the number the body reports replaces the loaded one.
FinishRead_Reported(r, s) ==
  /\ finish[r] = NoFinish
  /\ client[s] = "uploading"
  /\ ~Finished(s)
  /\ \E status \in Finals, reported \in 0..MaxErrors :
       finish' = [finish EXCEPT ![r] =
            [pc |-> "read", sync |-> s, base |-> sync[s].errors, errors |-> reported,
             pending |-> FALSE, loaded |-> source,
             status |-> IF status = "success" /\ reported > 0 THEN "partial_success" ELSE status]]
  /\ UNCHANGED <<source, sync, syncLock, client, opened, batch, job, exec, missed, erred>>

\* The body, over the sync's own diagnostics, reports a number of parser errors
\* and perhaps errors of another kind (error_count), which only the status shows.
FinishRead(r, s) ==
  /\ finish[r] = NoFinish
  /\ client[s] = "uploading"
  /\ ~Finished(s)
  /\ \E status \in Finals, reported \in 0..MaxErrors, others \in BOOLEAN :
       LET base == sync[s].errors
           errors == IF reported > base THEN reported ELSE base
       IN finish' = [finish EXCEPT ![r] =
            [pc |-> "read", sync |-> s, base |-> base, errors |-> errors, pending |-> FALSE,
             loaded |-> source,
             status |-> IF status = "success" /\ (errors > 0 \/ others)
                        THEN "partial_success" ELSE status]]
  /\ UNCHANGED <<source, sync, syncLock, client, opened, batch, job, exec, missed, erred>>

\* Some job of s is pending, queued or running for an observer.
Pending(s) == \E j \in JobsOf(s) : job[j] = "live"

\* Mutant: the jobs are counted before the sync row is written.
FinishCount_CountFirst(r) ==
  /\ finish[r].pc = "read"
  /\ finish' = [finish EXCEPT ![r].pc = "counted", ![r].pending = Pending(finish[r].sync)]
  /\ UNCHANGED <<source, sync, syncLock, client, opened, batch, job, exec, missed, erred>>

\* The count's autoflush writes the sync row first and locks it.
FinishCount(r) ==
  LET s == finish[r].sync
  IN /\ finish[r].pc = "read"
     /\ Free(s)
     /\ syncLock' = [syncLock EXCEPT ![s] = r]
     /\ finish' = [finish EXCEPT ![r].pc = "counted", ![r].pending = Pending(s)]
     /\ UNCHANGED <<source, sync, client, opened, batch, job, exec, missed, erred>>

\* Mutant: the sync row gets the status meant for the source.
FinishCommit_SameStatus(r) ==
  LET f == finish[r]
      status == IF f.status \notin Successful THEN "error"
                ELSE IF f.pending THEN "indexing" ELSE "ready"
  IN /\ f.pc = "counted"
     /\ sync' = [sync EXCEPT ![f.sync] =
                  [status |-> status, errors |-> Column(@.errors, f.base, f.errors)]]
     /\ source' = Write(source, f.loaded,
                        [status |-> status,
                         last |-> IF f.pending THEN "indexing" ELSE f.status])
     /\ syncLock' = [syncLock EXCEPT ![f.sync] = None]
     /\ finish' = [finish EXCEPT ![r] = NoFinish]
     /\ erred' = Note(f.sync, f.errors)
     /\ UNCHANGED <<client, opened, batch, job, exec, missed>>

FinishCommit(r) ==
  LET f == finish[r]
      status == IF f.status \notin Successful THEN "error"
                ELSE IF f.pending THEN "indexing" ELSE "ready"
  IN /\ f.pc = "counted"
     /\ sync' = [sync EXCEPT ![f.sync] =
                  [status |-> f.status, errors |-> Column(@.errors, f.base, f.errors)]]
     /\ source' = Write(source, f.loaded,
                        [status |-> status,
                         last |-> IF f.pending THEN "indexing" ELSE f.status])
     /\ syncLock' = [syncLock EXCEPT ![f.sync] = None]
     /\ finish' = [finish EXCEPT ![r] = NoFinish]
     /\ erred' = Note(f.sync, f.errors)
     /\ UNCHANGED <<client, opened, batch, job, exec, missed>>

-----------------------------------------------------------------------------
(* execute_index_document_job.                                              *)

\* A worker has locked the row (IndexJobs); a failed row is taken again when
\* its entry was delivered twice.
Taken(j) == job[j] \in {"live", "failed"} /\ exec[j] = NoExec

\* What a result adds to parser_errors: one document has one error at most.
Errors(result) == IF result = "failed" THEN 1 ELSE 0

\* The document has been indexed or refused; the sync is read.
ExecRead(j) ==
  LET s == SyncOf[j]
  IN /\ Taken(j)
     /\ \E result \in {"completed", "failed"} :
          /\ sync[s].errors + Errors(result) <= MaxErrors
          /\ exec' = [exec EXCEPT ![j].pc = "read", ![j].result = result,
                                  ![j].base = sync[s].errors, ![j].finished = Finished(s)]
     /\ UNCHANGED <<source, sync, syncLock, client, opened, batch, finish, job, missed, erred>>

\* What the execution of j writes to the source when it is the last one.
Report(j) ==
  LET others == JobsOf(SyncOf[j]) \ {j}
  IN IF ~exec[j].finished \/ \E k \in others : job[k] = "live" THEN None
     ELSE IF exec[j].result = "failed" \/ \E k \in others : job[k] = "failed"
          THEN "error" ELSE "ready"

\* Mutant: the pending query runs before the sync row is written.
ExecFlush_CountFirst(j) ==
  /\ exec[j].pc = "read"
  /\ exec' = [exec EXCEPT ![j].pc = "flushed", ![j].report = Report(j), ![j].loaded = source]
  /\ UNCHANGED <<source, sync, syncLock, client, opened, batch, finish, job, missed, erred>>

\* The pending query's autoflush writes sync and job and locks the sync row;
\* then the other jobs are counted and the source is read.
ExecFlush(j) ==
  /\ exec[j].pc = "read"
  /\ Free(SyncOf[j])
  /\ syncLock' = [syncLock EXCEPT ![SyncOf[j]] = j]
  /\ exec' = [exec EXCEPT ![j].pc = "flushed", ![j].report = Report(j), ![j].loaded = source]
  /\ UNCHANGED <<source, sync, client, opened, batch, finish, job, missed, erred>>

ExecCommit(j) ==
  LET e == exec[j]
      s == SyncOf[j]
  IN /\ e.pc = "flushed"
     /\ job' = [job EXCEPT ![j] = e.result]
     /\ sync' = [sync EXCEPT ![s].errors = Column(@, e.base, e.base + Errors(e.result))]
     /\ erred' = Note(s, Errors(e.result))
     /\ source' = IF e.report = None THEN source
                  ELSE Write(source, e.loaded,
                             [status |-> e.report,
                              last |-> IF e.report = "error" THEN "partial_success" ELSE "success"])
     /\ syncLock' = [syncLock EXCEPT ![s] = None]
     /\ exec' = [exec EXCEPT ![j] = NoExec]
     /\ missed' = IF ~e.finished /\ Finished(s) THEN missed \cup {s} ELSE missed
     /\ UNCHANGED <<client, opened, batch, finish>>

\* Indexing raises: the row is committed as pending, or failed for good; the
\* sync and the source are left alone.
ExecRaise(j) ==
  /\ Taken(j)
  /\ \E status \in {"live", "failed"} :
       /\ job' = [job EXCEPT ![j] = status]
       /\ missed' = IF status = "failed" THEN missed \cup {SyncOf[j]} ELSE missed
  /\ UNCHANGED <<source, sync, syncLock, client, opened, batch, finish, exec, erred>>

\* Crash, cancellation or a broken connection: the transaction is rolled back.
ExecAbort(j) ==
  /\ exec[j].pc # "idle"
  /\ exec' = [exec EXCEPT ![j] = NoExec]
  /\ syncLock' = [s \in Syncs |-> IF syncLock[s] = j THEN None ELSE syncLock[s]]
  /\ UNCHANGED <<source, sync, client, opened, batch, finish, job, missed, erred>>

\* The retry limit, or an index version that is no longer served: committed
\* without a look at sync or source.
ExecGiveUp(j) ==
  /\ Taken(j)
  /\ \E status \in {"failed", "stale"} : job' = [job EXCEPT ![j] = status]
  /\ missed' = missed \cup {SyncOf[j]}
  /\ UNCHANGED <<source, sync, syncLock, client, opened, batch, finish, exec, erred>>

-----------------------------------------------------------------------------
Batch(s) == BatchRead(s) \/ BatchCommit(s) \/ BatchFails(s)

Finish(r) == (\E s \in Syncs : FinishRead(r, s)) \/ FinishCount(r) \/ FinishCommit(r)

Exec(j) == \/ ExecRead(j) \/ ExecFlush(j) \/ ExecCommit(j)
           \/ ExecRaise(j) \/ ExecAbort(j) \/ ExecGiveUp(j)

Next ==
  \/ \E s \in Syncs : StartRead(s) \/ StartCommit(s) \/ Batch(s)
  \/ \E r \in Requests : Finish(r)
  \/ \E j \in Jobs : Exec(j)

Spec == Init /\ [][Next]_vars

-----------------------------------------------------------------------------
(* Properties.                                                              *)

\* What the last execution found out still holds when it commits: while it is
\* about to report the source "ready", no batch, retry or other execution
\* brings back an unfinished job of its sync (the lock the autoflush takes on
\* the sync row before the pending query of jobs.py).
ReportIsCurrent ==
  \A j \in Jobs : exec[j].pc = "flushed" /\ exec[j].report = "ready" =>
    \A k \in JobsOf(SyncOf[j]) \ {j} : job[k] \in {"absent", "completed", "stale"}

\* A source does not stay "indexing" for nothing: some finished sync still has
\* unfinished jobs, or one of its jobs ended on a path that does not report
\* (it read the sync before finish_sync committed, its last attempt raised, or
\* it was given up).  Of several jobs that finish side by side, one reports.
IndexingSettles ==
  source.status = "indexing" =>
    \E s \in Syncs : Finished(s) /\ (Pending(s) \/ s \in missed)

\* parser_errors is positive exactly when some committed transaction has had an
\* error: batches, executions and finish requests add to the value each of them
\* has loaded, so that a late write back can lower the count, but never to none,
\* and what is rolled back is not counted.
ErrorsAreKept ==
  \A s \in Syncs : s \in erred <=> sync[s].errors > 0
=============================================================================
