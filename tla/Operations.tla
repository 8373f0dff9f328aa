------------------------------ MODULE Operations ------------------------------
(***************************************************************************)
(* Operational runs: the endpoints that create observer, logging and       *)
(* evaluator runs (apps/api/routes/operations.py and evals.py,             *)
(* operations/service.py) behind the checks of AccessControl, and the      *)
(* worker's execution of them (worker/main.py, worker/jobs.py,             *)
(* eval/runner.py).                                                        *)
(*                                                                         *)
(* An execution is one transaction: its first flush locks the run's row    *)
(* and nothing of it is seen before it commits.  The runs of the observer  *)
(* and logging endpoints carry the client's idempotency key; the key of an *)
(* evaluator run is the id of its eval run.  A message is named by the     *)
(* request that sent it and the retries before it: a message sent twice is *)
(* one that is delivered twice.                                            *)
(***************************************************************************)
EXTENDS AccessControl

CONSTANTS
  Workers,     \* worker processes
  MaxRetries   \* worker_job_max_retries

ASSUME OperationsAssumption == MaxRetries \in Nat

VARIABLES
  target,   \* target[r]: the request that created the run r found or created
  runs,     \* runs[r]: status of the operational run r created, committed
  evals,    \* evals[r]: status of the eval run r created, committed
  queue,    \* messages not yet delivered
  pending,  \* messages delivered and not acknowledged
  job,      \* job[w]: the message w works on
  stage,    \* where each worker is
  lost      \* runs whose failure a worker could not record

runVars == <<target, runs, evals>>
workVars == <<queue, pending, job, stage, lost>>
vars == <<accessVars, runVars, workVars>>

TERMINAL_STATUSES == {"completed", "failed"}

Statuses == {"absent", "queued"} \cup TERMINAL_STATUSES

Messages == Requests \X (0 .. MaxRetries)

NoJob == <<>>

Labels == {"new", "arrived", "authenticated", "admitted", "allowed", "absent", "inserted",
           "found", "committed", "raised", "done", "refused", "error", "dead"}

TypeOK ==
  /\ AccessTypeOK
  /\ pc \in [Requests -> Labels]
  /\ target \in [Requests -> Requests]
  /\ runs \in [Requests -> Statuses] /\ evals \in [Requests -> Statuses]
  /\ queue \subseteq Messages /\ pending \subseteq Messages
  /\ \A w \in Workers :
       IF stage[w] = "idle" THEN job[w] = NoJob
       ELSE /\ stage[w] \in {"taken", "read", "executing", "failing", "settled"}
            /\ job[w] \in Messages
            /\ runs[target[job[w][1]]] # "absent"
  /\ lost \subseteq Requests

Init ==
  /\ AccessInit
  /\ target = [r \in Requests |-> r]
  /\ runs = [r \in Requests |-> "absent"]
  /\ evals = [r \in Requests |-> "absent"]
  /\ queue = {} /\ pending = {}
  /\ job = [w \in Workers |-> NoJob]
  /\ stage = [w \in Workers |-> "idle"]
  /\ lost = {}

-----------------------------------------------------------------------------
(* The endpoints *)

\* The unique constraint: project, run type and idempotency key
KeyOf(r) == <<plan.type[r], IF plan.type[r] = "evaluator" THEN r ELSE "key">>

WithKey(r) == {x \in Requests : runs[x] # "absent" /\ KeyOf(x) = KeyOf(r)}

\* A worker's transaction has updated the row of this run.
Locked(r) == \E w \in Workers : stage[w] = "executing" /\ target[job[w][1]] = r

Request(r, from, to) ==
  /\ pc[r] \in from
  /\ Goto(r, to)
  /\ UNCHANGED <<plan, now, events, admitted, account, token, sent>>

\* Inline evaluations have no operational run: run_eval_persisted.
EvaluateInline(r, outcome) ==
  /\ plan.worker_mode = "inline" /\ plan.type[r] = "evaluator"
  /\ Request(r, {"allowed"}, "done")
  /\ evals' = [evals EXCEPT ![r] = outcome]
  /\ UNCHANGED <<budget, target, runs, workVars>>

\* create_operational_run: the SELECT.  A settled run is the answer.
SelectRun(r) ==
  /\ ~ (plan.worker_mode = "inline" /\ plan.type[r] = "evaluator")
  /\ \/ /\ WithKey(r) = {}
        /\ Request(r, {"allowed"}, "absent")
        /\ UNCHANGED target
     \/ \E x \in WithKey(r) :
          /\ Request(r, {"allowed"}, IF runs[x] = "queued" THEN "found" ELSE "done")
          /\ target' = [target EXCEPT ![r] = x]
  /\ UNCHANGED <<budget, runs, evals, workVars>>

\* Mutant: the table has no unique constraint.
InsertRun_NoConstraint(r) ==
  /\ Request(r, {"absent"}, "inserted")
  /\ UNCHANGED <<budget, runVars, workVars>>

\* create_operational_run: the flush waits for a transaction that has inserted
\* the key, and fails when the key is taken.
InsertRun(r) ==
  /\ \A x \in Requests \ {r} : pc[x] = "inserted" => KeyOf(x) # KeyOf(r)
  /\ Request(r, {"absent"}, IF WithKey(r) = {} THEN "inserted" ELSE "error")
  /\ UNCHANGED <<budget, runVars, workVars>>

\* _enqueue with the inline worker: executed and committed in the request
RunInline(r) ==
  /\ plan.worker_mode = "inline"
  /\ Request(r, {"inserted", "found"}, "done")
  /\ runs' = [runs EXCEPT ![target[r]] = "completed"]
  /\ UNCHANGED <<budget, target, evals, workVars>>

CommitRun(r) ==
  /\ plan.worker_mode = "queue"
  /\ Request(r, {"inserted", "found"}, "committed")
  /\ runs' = IF pc[r] = "inserted" THEN [runs EXCEPT ![r] = "queued"] ELSE runs
  /\ evals' = IF plan.type[r] = "evaluator" THEN [evals EXCEPT ![r] = "queued"] ELSE evals
  /\ UNCHANGED <<budget, target, workVars>>

\* Mutant: the message is sent before the run is committed.
Enqueue_BeforeCommit(r) ==
  /\ plan.worker_mode = "queue"
  /\ Request(r, {"inserted"}, "inserted")
  /\ queue' = queue \cup {<<r, 0>>}
  /\ UNCHANGED <<budget, runVars, pending, job, stage, lost>>

Enqueue(r) ==
  /\ Request(r, {"committed"}, "done")
  /\ queue' = queue \cup {<<r, 0>>}
  /\ UNCHANGED <<budget, runVars, pending, job, stage, lost>>

\* The queue raises, and may have stored the message all the same.
EnqueueRaises(r, stored) ==
  /\ Spend("faults")
  /\ Request(r, {"committed"}, "raised")
  /\ queue' = IF stored THEN queue \cup {<<r, 0>>} ELSE queue
  /\ UNCHANGED <<runVars, pending, job, stage, lost>>

\* _enqueue fails the run, whatever its status is by now; run_eval_endpoint
\* fails the eval run and leaves the operational run queued.
RecordEnqueueFailure(r) ==
  /\ ~ Locked(target[r])
  /\ Request(r, {"raised"}, "error")
  /\ IF plan.type[r] = "evaluator"
     THEN evals' = [evals EXCEPT ![r] = "failed"] /\ UNCHANGED runs
     ELSE runs' = [runs EXCEPT ![target[r]] = "failed"] /\ UNCHANGED evals
  /\ UNCHANGED <<budget, target, workVars>>

\* The server dies, or the database fails: what is not committed is undone.
ApiCrash(r) ==
  /\ Spend("faults")
  /\ Request(r, {"absent", "inserted", "found", "committed", "raised"}, "dead")
  /\ UNCHANGED <<runVars, workVars>>

-----------------------------------------------------------------------------
(* The worker *)

RunOf(w) == target[job[w][1]]

Held(m) == \E w \in Workers : job[w] = m

Step(w, from, to) ==
  /\ stage[w] = from
  /\ stage' = [stage EXCEPT ![w] = to]
  /\ UNCHANGED <<plan, now, events, admitted, account, token, pc, sent, target>>

\* RedisQueue.dequeue: a new message
Take(w, m) ==
  /\ m \in queue
  /\ Step(w, "idle", "taken")
  /\ queue' = queue \ {m}
  /\ pending' = pending \cup {m}
  /\ job' = [job EXCEPT ![w] = m]
  /\ UNCHANGED <<budget, runs, evals, lost>>

\* RedisQueue.dequeue: one that has been idle too long, its worker gone or only slow
Reclaim(w, m) ==
  /\ m \in pending
  /\ IF Held(m) THEN Spend("faults") ELSE UNCHANGED budget
  /\ Step(w, "idle", "taken")
  /\ job' = [job EXCEPT ![w] = m]
  /\ UNCHANGED <<runs, evals, queue, pending, lost>>

\* The job's SELECT takes no lock; a settled run is left alone.
ReadRun(w) ==
  /\ Step(w, "taken", IF runs[RunOf(w)] \in TERMINAL_STATUSES THEN "settled" ELSE "read")
  /\ UNCHANGED <<budget, runs, evals, queue, pending, job, lost>>

\* _start, or the evaluator's first flush
StartRun(w) ==
  /\ Step(w, "read", "executing")
  /\ ~ Locked(RunOf(w))
  /\ UNCHANGED <<budget, runs, evals, queue, pending, job, lost>>

\* run_observer, run_logging_aggregate or execute_eval_run, and the commit.
\* An evaluation fails when its cases cannot be loaded.
FinishRun(w, outcome) ==
  LET r == RunOf(w)
  IN  /\ stage[w] = "executing"
      /\ plan.type[r] # "evaluator" => outcome = "completed"
      /\ Step(w, "executing", "settled")
      /\ runs' = [runs EXCEPT ![r] = outcome]
      /\ evals' = IF plan.type[r] = "evaluator" THEN [evals EXCEPT ![r] = outcome] ELSE evals
      /\ UNCHANGED <<budget, queue, pending, job, lost>>

CanRetry(w) == job[w][2] < MaxRetries

\* The job raises or times out: its transaction is undone, and it is sent again.
RetryRun(w) ==
  /\ Spend("faults")
  /\ stage[w] \in {"taken", "read", "executing"}
  /\ CanRetry(w)
  /\ Step(w, stage[w], "settled")
  /\ queue' = queue \cup {<<job[w][1], job[w][2] + 1>>}
  /\ UNCHANGED <<runs, evals, pending, job, lost>>

\* The job raises or times out for the last time.
GiveUp(w) ==
  /\ Spend("faults")
  /\ stage[w] \in {"taken", "read", "executing"}
  /\ ~ CanRetry(w)
  /\ Step(w, stage[w], "failing")
  /\ UNCHANGED <<runs, evals, queue, pending, job, lost>>

\* Mutant: the worker drops the job without recording the failure.
MarkFailed_Silent(w) ==
  /\ Step(w, "failing", "settled")
  /\ UNCHANGED <<budget, runs, evals, queue, pending, job, lost>>

\* _mark_operational_failure; the eval run stays as it is.
MarkFailed(w) ==
  /\ Step(w, "failing", "settled")
  /\ ~ Locked(RunOf(w))
  /\ runs' = [runs EXCEPT ![RunOf(w)] = IF @ \in TERMINAL_STATUSES THEN @ ELSE "failed"]
  /\ UNCHANGED <<budget, evals, queue, pending, job, lost>>

\* _mark_operational_failure logs what it cannot write.
MarkRaises(w) ==
  /\ Spend("faults")
  /\ Step(w, "failing", "settled")
  /\ lost' = lost \cup {RunOf(w)}
  /\ UNCHANGED <<runs, evals, queue, pending, job>>

\* acknowledge, or fail, of a message that this worker or another one took
Acknowledge(w) ==
  /\ Step(w, "settled", "idle")
  /\ pending' = pending \ {job[w]}
  /\ job' = [job EXCEPT ![w] = NoJob]
  /\ UNCHANGED <<budget, runs, evals, queue, lost>>

WorkerCrash(w) ==
  /\ Spend("faults")
  /\ stage[w] # "idle"
  /\ Step(w, stage[w], "idle")
  /\ job' = [job EXCEPT ![w] = NoJob]
  /\ UNCHANGED <<runs, evals, queue, pending, lost>>

-----------------------------------------------------------------------------
Endpoint(r) ==
  \/ \E outcome \in TERMINAL_STATUSES : EvaluateInline(r, outcome)
  \/ SelectRun(r)
  \/ InsertRun(r)
  \/ RunInline(r)
  \/ CommitRun(r)
  \/ Enqueue(r)
  \/ \E stored \in BOOLEAN : EnqueueRaises(r, stored)
  \/ RecordEnqueueFailure(r)
  \/ ApiCrash(r)

\* What a worker does while nothing fails, but for a message held by another
Work(w) ==
  \/ \E m \in queue : Take(w, m)
  \/ \E m \in pending : ~ Held(m) /\ Reclaim(w, m)
  \/ ReadRun(w)
  \/ StartRun(w)
  \/ \E outcome \in TERMINAL_STATUSES : FinishRun(w, outcome)
  \/ MarkFailed(w)
  \/ Acknowledge(w)

Fault(w) ==
  \/ \E m \in pending : Held(m) /\ Reclaim(w, m)
  \/ RetryRun(w)
  \/ GiveUp(w)
  \/ MarkRaises(w)
  \/ WorkerCrash(w)

Next ==
  \/ AccessNext /\ UNCHANGED <<runVars, workVars>>
  \/ \E r \in Requests : Endpoint(r)
  \/ \E w \in Workers : Work(w) \/ Fault(w)

\* A worker's loop goes on as long as its process lives.
Spec == Init /\ [][Next]_vars /\ \A w \in Workers : WF_vars(Work(w))

-----------------------------------------------------------------------------
\* However requests with one idempotency key interleave, they make one run
\* (create_operational_run); and whoever made a run was an admin of the project
\* whose token had not been revoked when the request arrived (get_current_user,
\* ensure_project_access), unless the deployment lets everybody in.
RunCreation ==
  \A r \in Requests : runs[r] # "absent" =>
    /\ WithKey(r) = {r}
    /\ sent[r].token.version = sent[r].valid
    /\ plan.bypass \/ account[plan.user[r]].role = "admin"

\* A run that the queue has a message for is settled in the end, across lost
\* workers, retries and double deliveries, unless the worker that gave it up
\* could not write that down (_process_job, mark_operational_run_failed).
RunSettles ==
  \A r \in Requests :
    (\E m \in queue \cup pending : target[m[1]] = r)
      ~> (runs[r] \in TERMINAL_STATUSES \/ r \in lost)
=============================================================================
