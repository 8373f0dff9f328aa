------------------------------ MODULE IndexJobs ------------------------------
(***************************************************************************)
(* Asynchronous indexing: the index_jobs rows in Postgres, the Redis       *)
(* Stream that carries their ids, the dispatcher every worker runs at the  *)
(* top of its loop, and the workers that claim, execute, acknowledge and   *)
(* retry (incidentops/worker/{queue,main,index_dispatch,jobs}.py).         *)
(*                                                                         *)
(* A row is what other transactions see of it: execute_index_document_job  *)
(* sets "running" and increments attempts inside one transaction that it   *)
(* commits only at the end, so both stay invisible until then and are lost *)
(* when the worker dies, is cancelled by its timeout or loses the database *)
(* connection.  Time appears as two nondeterministic events: a row's       *)
(* queued_at, or a delivered entry's idle time, passes                     *)
(* job_queue_claim_idle_ms.                                                *)
(***************************************************************************)
EXTENDS Naturals, FiniteSets

CONSTANTS
  Jobs,              \* row ids, numbered in created_at order
  Workers,           \* worker processes (worker_concurrency = 1)
  Entries,           \* ids of the stream entries that can be live at once
  MaxAttempts,       \* settings.rag_index_max_retries
  MaxWorkerRetries,  \* settings.worker_job_max_retries
  BatchSize,         \* settings.rag_index_dispatch_batch_size
  Mismatch,          \* <<w, j>>: w's vector_index_version is not j's index_version
  MaxFaults          \* bound: crashes, timeouts, Redis errors and delays beyond
                     \* job_queue_claim_idle_ms in a behaviour

ASSUME IndexAssumption ==
  /\ Jobs \subseteq Nat \ {0}
  /\ Entries \subseteq Nat \ {0}
  /\ 0 \notin Workers
  /\ MaxAttempts \in Nat \ {0}
  /\ MaxWorkerRetries \in Nat
  /\ BatchSize \in Nat \ {0}
  /\ Mismatch \subseteq Workers \X Jobs
  /\ MaxFaults \in Nat

VARIABLES
  status,    \* committed index_jobs.status
  attempts,  \* committed index_jobs.attempts
  aged,      \* queued_at < now - job_queue_claim_idle_ms
  lock,      \* the transaction holding the row lock, 0 when none does
  stream,    \* the stream and the group's pending-entries list
  pc,        \* where each worker is in run_worker / _process_job
  outbox,    \* rows a dispatcher has locked or has still to publish
  held,      \* the entry a worker is processing (RedisQueue._inflight)
  faults     \* faults so far

vars == <<status, attempts, aged, lock, stream, pc, outbox, held, faults>>

rowVars == <<status, attempts, aged>>

None == 0

Live     == {"pending", "queued"}
Terminal == {"completed", "failed", "stale"}
Statuses == {"absent", "purged"} \cup Live \cup Terminal

Steps == {"poll", "dispatching", "publishing", "dequeue", "claimed",
          "executing", "retry", "ack", "again"}

\* An entry id that carries nothing: acknowledged, or not used yet.
Free == [job |-> None, try |-> 0, st |-> "free"]

Entry == [job : Jobs, try : 0 .. MaxWorkerRetries,
          st : {"new", "pending", "idle"}]

NoEntry == [id |-> None, job |-> None, try |-> 0]

Holding == [id : Entries \cup {None}, job : Jobs, try : 0 .. MaxWorkerRetries]

TypeOK ==
  /\ status \in [Jobs -> Statuses]
  /\ attempts \in [Jobs -> 0 .. MaxAttempts]
  /\ aged \in [Jobs -> BOOLEAN]
  /\ lock \in [Jobs -> Workers \cup {None}]
  /\ stream \in [Entries -> Entry \cup {Free}]
  /\ pc \in [Workers -> Steps]
  /\ outbox \in [Workers -> SUBSET Jobs]
  /\ held \in [Workers -> Holding \cup {NoEntry}]
  /\ faults \in 0 .. MaxFaults

Init ==
  /\ status = [j \in Jobs |-> "absent"]
  /\ attempts = [j \in Jobs |-> 0]
  /\ aged = [j \in Jobs |-> FALSE]
  /\ lock = [j \in Jobs |-> None]
  /\ stream = [e \in Entries |-> Free]
  /\ pc = [w \in Workers |-> "poll"]
  /\ outbox = [w \in Workers |-> {}]
  /\ held = [w \in Workers |-> NoEntry]
  /\ faults = 0

Goto(w, step) == pc' = [pc EXCEPT ![w] = step]

Fault == /\ faults < MaxFaults
         /\ faults' = faults + 1

-----------------------------------------------------------------------------
(* The queue.  An id is reused only when no worker still refers to it, so   *)
(* that acknowledging an entry somebody else acknowledged stays a no-op.    *)

Unused == {e \in Entries : stream[e] = Free /\ \A w \in Workers : held[w].id # e}

\* RedisQueue.enqueue: XADD.
Enqueue(j, n) ==
  \E e \in Unused :
    /\ \A f \in Unused : e <= f
    /\ stream' = [stream EXCEPT ![e] = [job |-> j, try |-> n, st |-> "new"]]

\* The entry goes to w: XREADGROUP and XAUTOCLAIM both list it as pending on
\* w with its idle time reset.
Deliver(w, e) ==
  /\ stream' = [stream EXCEPT ![e].st = "pending"]
  /\ held' = [held EXCEPT ![w] = [id |-> e, job |-> stream[e].job, try |-> stream[e].try]]

\* RedisQueue.acknowledge: XACK of the entry w remembers in _inflight.
XAck(w) ==
  /\ stream' = [e \in Entries |-> IF e = held[w].id THEN Free ELSE stream[e]]
  /\ held' = [held EXCEPT ![w] = NoEntry]

-----------------------------------------------------------------------------
(* The API: rows appear with the ingest batch and go with their source.     *)

\* ingest_documents_batch commits a row; it publishes nothing itself.
CreateJob(j) ==
  /\ status[j] = "absent"
  /\ status' = [status EXCEPT ![j] = "pending"]
  /\ UNCHANGED <<attempts, aged, lock, stream, pc, outbox, held, faults>>

\* delete_source cascades to index_jobs and waits for a row lock.
PurgeJob(j) ==
  /\ status[j] \notin {"absent", "purged"}
  /\ lock[j] = None
  /\ status' = [status EXCEPT ![j] = "purged"]
  /\ UNCHANGED <<attempts, aged, lock, stream, pc, outbox, held, faults>>

-----------------------------------------------------------------------------
(* Time.  Growing old is a fault while the row, or the entry, is still being *)
(* taken care of: the queue was slower than job_queue_claim_idle_ms, or the *)
(* execution longer.  What nobody takes care of any more just grows old.    *)

OnTheWay(j) ==
  \/ \E e \in Entries : stream[e].job = j
  \/ \E w \in Workers : \/ j \in outbox[w]
                        \/ held[w].job = j /\ pc[w] \notin {"ack", "again"}

AgeRow(j) ==
  /\ status[j] = "queued" /\ ~aged[j]
  /\ \/ OnTheWay(j) /\ Fault
     \/ ~OnTheWay(j) /\ UNCHANGED faults
  /\ aged' = [aged EXCEPT ![j] = TRUE]
  /\ UNCHANGED <<status, attempts, lock, stream, pc, outbox, held>>

AgeEntry(e) ==
  /\ stream[e].st = "pending"
  /\ \/ (\E w \in Workers : held[w].id = e) /\ Fault
     \/ (\A w \in Workers : held[w].id # e) /\ UNCHANGED faults
  /\ stream' = [stream EXCEPT ![e].st = "idle"]
  /\ UNCHANGED <<rowVars, lock, pc, outbox, held>>

-----------------------------------------------------------------------------
(* dispatch_recoverable_index_jobs, at the top of every loop.               *)

\* Mutant: only never published rows are dispatched.
Recoverable_PendingOnly(j) == attempts[j] < MaxAttempts /\ status[j] = "pending"

Recoverable(j) ==
  /\ attempts[j] < MaxAttempts
  /\ status[j] = "pending" \/ (status[j] = "queued" /\ aged[j])

\* The first n of S in created_at order.
Oldest(S, n) == {j \in S : Cardinality({k \in S : k < j}) < n}

\* SELECT ... ORDER BY created_at LIMIT n FOR UPDATE SKIP LOCKED.
DispatchSelect(w) ==
  LET batch == Oldest({j \in Jobs : Recoverable(j) /\ lock[j] = None}, BatchSize)
  IN /\ pc[w] = "poll"
     /\ \/ batch = {} /\ Goto(w, "dequeue") /\ UNCHANGED <<lock, outbox>>
        \/ /\ batch # {}
           /\ lock' = [j \in Jobs |-> IF j \in batch THEN w ELSE lock[j]]
           /\ outbox' = [outbox EXCEPT ![w] = batch]
           /\ Goto(w, "dispatching")
     /\ UNCHANGED <<rowVars, stream, held, faults>>

\* status = "queued", queued_at = now, commit.
DispatchCommit(w) ==
  /\ pc[w] = "dispatching"
  /\ status' = [j \in Jobs |-> IF j \in outbox[w] THEN "queued" ELSE status[j]]
  /\ aged' = [j \in Jobs |-> aged[j] /\ j \notin outbox[w]]
  /\ lock' = [j \in Jobs |-> IF lock[j] = w THEN None ELSE lock[j]]
  /\ Goto(w, "publishing")
  /\ UNCHANGED <<attempts, stream, outbox, held, faults>>

\* The loop over the committed batch goes on without j, or is over.
Published(w, j) ==
  /\ outbox' = [outbox EXCEPT ![w] = @ \ {j}]
  /\ Goto(w, IF outbox[w] = {j} THEN "dequeue" ELSE "publishing")

Publish(w) ==
  /\ pc[w] = "publishing"
  /\ \E j \in outbox[w] : Enqueue(j, 0) /\ Published(w, j)
  /\ UNCHANGED <<rowVars, lock, held, faults>>

\* enqueue raised: XADD did not happen, or did and its reply was lost.  The
\* conditional UPDATE waits for the row lock and leaves a row alone that is
\* no longer "queued".
PublishFail(w) ==
  /\ pc[w] = "publishing"
  /\ Fault
  /\ \E j \in outbox[w] :
       /\ lock[j] = None
       /\ Enqueue(j, 0) \/ UNCHANGED stream
       /\ status' = [status EXCEPT ![j] = IF @ = "queued" THEN "pending" ELSE @]
       /\ aged' = [aged EXCEPT ![j] = @ /\ status[j] # "queued"]
       /\ Published(w, j)
  /\ UNCHANGED <<attempts, lock, held>>

-----------------------------------------------------------------------------
(* RedisQueue.dequeue: XAUTOCLAIM first, XREADGROUP when it yields nothing. *)

IdleEntries == {e \in Entries : stream[e].st = "idle"}

Claim(w) ==
  /\ pc[w] = "dequeue"
  /\ \E e \in IdleEntries : Deliver(w, e)
  /\ Goto(w, "claimed")
  /\ UNCHANGED <<rowVars, lock, outbox, faults>>

ReadNew(w) ==
  /\ pc[w] = "dequeue"
  /\ \/ IdleEntries = {} /\ UNCHANGED faults
     \/ IdleEntries # {} /\ Fault  \* XAUTOCLAIM raised; the code goes on
  /\ \E e \in Entries : stream[e].st = "new" /\ Deliver(w, e)
  /\ Goto(w, "claimed")
  /\ UNCHANGED <<rowVars, lock, outbox>>

DequeueNone(w) ==
  /\ pc[w] = "dequeue"
  /\ \A e \in Entries : stream[e].st \notin {"idle", "new"}
  /\ Goto(w, "poll")
  /\ UNCHANGED <<rowVars, lock, stream, outbox, held, faults>>

-----------------------------------------------------------------------------
(* execute_index_document_job.                                              *)

\* SELECT ... FOR UPDATE SKIP LOCKED returns nothing, or a row that is done.
Skip(w) ==
  LET j == held[w].job
  IN /\ pc[w] = "claimed"
     /\ lock[j] # None \/ status[j] \in {"absent", "purged", "completed", "stale"}
     /\ Goto(w, "ack")
     /\ UNCHANGED <<rowVars, lock, stream, outbox, held, faults>>

\* Mutant: the SELECT does not lock.
Takes_Unlocked(w) == /\ pc[w] = "claimed"
                     /\ status[held[w].job] \in Live \cup {"failed"}

\* Mutant: a completed row is not recognised as done.
Takes_Completed(w) == /\ pc[w] = "claimed"
                      /\ lock[held[w].job] = None
                      /\ status[held[w].job] \in Live \cup {"failed", "completed"}

\* The row is ours and not done (the code's "running" is never committed).
Takes(w) == /\ pc[w] = "claimed"
            /\ lock[held[w].job] = None
            /\ status[held[w].job] \in Live \cup {"failed"}

RetryLimit(w) ==
  /\ Takes(w)
  /\ attempts[held[w].job] >= MaxAttempts
  /\ status' = [status EXCEPT ![held[w].job] = "failed"]
  /\ Goto(w, "ack")
  /\ UNCHANGED <<attempts, aged, lock, stream, outbox, held, faults>>

\* Mutant: the version is compared before the row is locked.
MarkStale_Unlocked(w) ==
  /\ pc[w] = "claimed"
  /\ status[held[w].job] \in Live \cup {"failed"}
  /\ <<w, held[w].job>> \in Mismatch
  /\ status' = [status EXCEPT ![held[w].job] = "stale"]
  /\ Goto(w, "ack")
  /\ UNCHANGED <<attempts, aged, lock, stream, outbox, held, faults>>

MarkStale(w) ==
  /\ Takes(w)
  /\ attempts[held[w].job] < MaxAttempts
  /\ <<w, held[w].job>> \in Mismatch
  /\ status' = [status EXCEPT ![held[w].job] = "stale"]
  /\ Goto(w, "ack")
  /\ UNCHANGED <<attempts, aged, lock, stream, outbox, held, faults>>

\* Mutant: no retry limit.
Start_NoLimit(w) ==
  /\ Takes(w)
  /\ <<w, held[w].job>> \notin Mismatch
  /\ lock' = [lock EXCEPT ![held[w].job] = w]
  /\ Goto(w, "executing")
  /\ UNCHANGED <<rowVars, stream, outbox, held, faults>>

Start(w) ==
  /\ Takes(w)
  /\ attempts[held[w].job] < MaxAttempts
  /\ <<w, held[w].job>> \notin Mismatch
  /\ lock' = [lock EXCEPT ![held[w].job] = w]
  /\ Goto(w, "executing")
  /\ UNCHANGED <<rowVars, stream, outbox, held, faults>>

\* Mutant: the attempt is not charged.
Commit_Free(w, s) ==
  /\ status' = [status EXCEPT ![held[w].job] = s]
  /\ lock' = [lock EXCEPT ![held[w].job] = None]
  /\ UNCHANGED <<attempts, aged, stream, outbox, held, faults>>

\* The transaction ends with the row in state s and one more attempt.
Commit(w, s) ==
  LET j == held[w].job
  IN /\ status' = [status EXCEPT ![j] = s]
     /\ attempts' = [attempts EXCEPT ![j] = @ + 1]
     /\ lock' = [lock EXCEPT ![j] = None]
     /\ UNCHANGED <<aged, stream, outbox, held, faults>>

\* Indexed, or rejected document by document (no exception is raised).
ExecCommit(w) ==
  /\ pc[w] = "executing"
  /\ \E s \in {"completed", "failed"} : Commit(w, s)
  /\ Goto(w, "ack")

\* Mutant: retryable is computed from the attempts before this one.
ExecRaise_OffByOne(w) ==
  /\ pc[w] = "executing"
  /\ Commit(w, IF attempts[held[w].job] < MaxAttempts THEN "pending" ELSE "failed")
  /\ Goto(w, "retry")

\* An exception inside the try block: recorded, committed, raised again.
ExecRaise(w) ==
  /\ pc[w] = "executing"
  /\ Commit(w, IF attempts[held[w].job] + 1 < MaxAttempts THEN "pending" ELSE "failed")
  /\ Goto(w, "retry")

\* wait_for cancels the coroutine, or the session is beyond repair: the
\* except clause does not run or cannot commit, and the transaction is rolled
\* back with its attempt.
ExecAbort(w) ==
  /\ pc[w] = "executing"
  /\ Fault
  /\ lock' = [lock EXCEPT ![held[w].job] = None]
  /\ Goto(w, "retry")
  /\ UNCHANGED <<rowVars, stream, outbox, held>>

-----------------------------------------------------------------------------
(* _process_job after execute_job.                                          *)

\* _can_retry: a new entry first, the acknowledgement after it.
RetryEnqueue(w) ==
  /\ pc[w] = "retry"
  /\ held[w].try < MaxWorkerRetries
  /\ Enqueue(held[w].job, held[w].try + 1)
  /\ Goto(w, "again")
  /\ UNCHANGED <<rowVars, lock, outbox, held, faults>>

\* RedisQueue.fail: the failed stream gets a copy, the entry is acknowledged.
DeadLetter(w) ==
  /\ pc[w] = "retry"
  /\ held[w].try >= MaxWorkerRetries
  /\ XAck(w)
  /\ Goto(w, "poll")
  /\ UNCHANGED <<rowVars, lock, outbox, faults>>

Acknowledge(w) ==
  /\ pc[w] \in {"ack", "again"}
  /\ XAck(w)
  /\ Goto(w, "poll")
  /\ UNCHANGED <<rowVars, lock, outbox, faults>>

\* XACK raises after the job was executed: the except clause takes it for a
\* failure of the job, whose entry _inflight has forgotten, so that it is not
\* acknowledged again.  (Raised in that clause, it ends the worker: Crash.)
AckRaises(w) ==
  /\ pc[w] = "ack"
  /\ Fault
  /\ \/ UNCHANGED stream
     \/ stream' = [stream EXCEPT ![held[w].id] = Free]
  /\ held' = [held EXCEPT ![w].id = None]
  /\ Goto(w, "retry")
  /\ UNCHANGED <<rowVars, lock, outbox>>

\* The process dies and is restarted: its transaction is rolled back and its
\* memory is gone; its entry stays in the pending-entries list.
Crash(w) ==
  /\ Fault
  /\ lock' = [j \in Jobs |-> IF lock[j] = w THEN None ELSE lock[j]]
  /\ outbox' = [outbox EXCEPT ![w] = {}]
  /\ held' = [held EXCEPT ![w] = NoEntry]
  /\ Goto(w, "poll")
  /\ UNCHANGED <<rowVars, stream>>

-----------------------------------------------------------------------------
Dispatch(w) == DispatchSelect(w) \/ DispatchCommit(w) \/ Publish(w)
Dequeue(w)  == Claim(w) \/ ReadNew(w) \/ DequeueNone(w)
Take(w)     == RetryLimit(w) \/ MarkStale(w) \/ Start(w)
Execute(w)  == Skip(w) \/ Take(w) \/ ExecCommit(w) \/ ExecRaise(w)
Settle(w)   == RetryEnqueue(w) \/ DeadLetter(w) \/ Acknowledge(w)

Work(w)   == Dispatch(w) \/ Dequeue(w) \/ Execute(w) \/ Settle(w)
Break(w)  == PublishFail(w) \/ ExecAbort(w) \/ AckRaises(w) \/ Crash(w)

Next ==
  \/ \E j \in Jobs : CreateJob(j) \/ PurgeJob(j) \/ AgeRow(j)
  \/ \E e \in Entries : AgeEntry(e)
  \/ \E w \in Workers : Work(w) \/ Break(w)

Spec == Init /\ [][Next]_vars

\* Every worker keeps running its loop and clocks advance: the event loop and
\* the wall clock give this.  Faults are never required.
Fairness ==
  /\ \A w \in Workers : WF_vars(Work(w))
  /\ \A j \in Jobs : WF_vars(AgeRow(j))
  /\ \A e \in Entries : WF_vars(AgeEntry(e))

FairSpec == Spec /\ Fairness
-----------------------------------------------------------------------------
(* Properties.                                                              *)

\* No row is ever stranded: whatever crashed, timed out, was delivered twice
\* or acknowledged by a worker that found the row locked, a row that is not
\* done satisfies the dispatcher's WHERE clause as soon as it is old enough
\* (index_dispatch.py: jobs are "recoverable after an API process dies").
NoStrandedJob ==
  \A j \in Jobs : status[j] \notin {"absent", "purged"} \cup Terminal
                    => status[j] \in Live /\ attempts[j] < MaxAttempts

\* A row lock belongs to the one worker that is executing or dispatching the
\* row, so reclaimed and duplicate entries never run a document twice at the
\* same time (FOR UPDATE SKIP LOCKED), and no crash leaks a lock.
LocksMatchOwners ==
  \A j \in Jobs, w \in Workers :
    lock[j] = w <=> \/ pc[w] = "executing" /\ held[w].job = j
                    \/ pc[w] = "dispatching" /\ j \in outbox[w]

\* While a worker holds the row lock no other actor commits a change to the
\* row: what the transaction read at line 250 of jobs.py still holds when it
\* commits, however often the entry was reclaimed meanwhile.
OnlyTheOwnerWrites ==
  [][\A j \in Jobs, w \in Workers :
       lock[j] = w /\ lock'[j] = w => status'[j] = status[j] /\ attempts'[j] = attempts[j]]_vars

\* Duplicate deliveries never undo or repeat a finished job: a completed or
\* stale row leaves that status only by being purged.
SettledRowsStay ==
  [][\A j \in Jobs : status[j] \in {"completed", "stale"} =>
       status'[j] \in {status[j], "purged"} /\ attempts'[j] = attempts[j]]_vars

\* Every submitted job is eventually indexed, given up, retired or purged,
\* provided faults stop: no combination of lost publications, reclaimed
\* entries and skipped locks leaves it waiting for ever.
EventuallySettled ==
  \A j \in Jobs : status[j] = "pending" ~> status[j] \in Terminal \cup {"purged"}

\* Seen from the table, the pipeline is IndexJobLifecycle: one attempt is
\* charged per recorded outcome, in the same commit, and never beyond the
\* limit.
Lifecycle == INSTANCE IndexJobLifecycle WITH
  phase <- [j \in Jobs |-> IF status[j] \in Live THEN "live" ELSE status[j]],
  spent <- attempts

ImplementsLifecycle == Lifecycle!Spec
=============================================================================
