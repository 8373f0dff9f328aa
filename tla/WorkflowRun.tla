----------------------------- MODULE WorkflowRun -----------------------------
(***************************************************************************)
(* One investigation run, from POST /v1/runs to the reviewers' decision:   *)
(* start_run, approve_run and reject_run (apps/api/routes/runs.py),        *)
(* execute_workflow_run_job (incidentops/worker/jobs.py) around            *)
(* execute_run (incidentops/agent/service.py), and the worker loop that    *)
(* delivers its only queue entry (incidentops/worker/main.py).             *)
(*                                                                         *)
(* The worker reads the run without a lock; the UPDATE to "running" that   *)
(* the first event flushes takes the row lock, which is kept to the end of *)
(* the execution: nothing of it is visible before that commit.  The ORM    *)
(* writes a column only when its value differs from the loaded one, so a   *)
(* decision may leave the run row alone; its event is then numbered        *)
(* without the lock, and (run_id, sequence_no) is unique: of two such      *)
(* transactions the second to insert fails when the first commits.         *)
(***************************************************************************)
EXTENDS Naturals, Sequences

CONSTANTS
  Workers,     \* worker processes
  Reviewers,   \* approve and reject requests
  Faults,      \* the faults that may happen
  MaxFaults    \* bound: faults in a behaviour

FaultKinds == {"api_crash", "enqueue_error", "slow", "worker_crash", "timeout", "database"}

ASSUME WorkflowAssumption ==
  /\ Faults \subseteq FaultKinds
  /\ MaxFaults \in Nat
  /\ "none" \notin Workers \cup Reviewers
  /\ Workers \cap Reviewers = {}

None == "none"

VARIABLES
  run,        \* agent_runs.status, committed
  approvals,  \* the run's approvals rows in the order of their creation
  drafts,     \* how many issue drafts the run has
  rowLock,    \* whose transaction has updated the agent_runs row
  entry,      \* the queue entry: none, new, pending, idle, acked
  api,        \* where start_run is
  pc,         \* where each worker is
  result,     \* result[w]: what w's transaction is about to commit
  decision,   \* decision[d]: the request and what it has read
  faults      \* faults[kind]: how often it has happened

vars == <<run, approvals, drafts, rowLock, entry, api, pc, result, decision, faults>>

\* TERMINAL_RUN_STATUSES of jobs.py
Terminal == {"awaiting_approval", "completed", "failed", "rejected"}

NoResult == [status |-> None, asks |-> FALSE, drafts |-> FALSE]

\* loaded: the run's status; index and was: the newest approval and its status
NoDecision == [pc |-> "idle", approved |-> FALSE, index |-> 0, was |-> None, loaded |-> None]

TypeOK ==
  /\ run \in {"absent", "queued"} \cup Terminal
  /\ \A i \in DOMAIN approvals : approvals[i] \in {"pending", "approved", "rejected"}
  /\ drafts \in Nat
  /\ rowLock \in Workers \cup Reviewers \cup {None}
  /\ entry \in {"none", "new", "pending", "idle", "acked"}
  /\ api \in {"idle", "created", "failing", "done"}
  /\ pc \in [Workers -> {"idle", "claimed", "loaded", "executing", "persisted", "ack"}]
  /\ \A d \in Reviewers : decision[d].pc \in {"idle", "loaded", "selected", "flushed", "done"}
  /\ faults \in [FaultKinds -> 0 .. MaxFaults]

Init ==
  /\ run = "absent"
  /\ approvals = <<>>
  /\ drafts = 0
  /\ rowLock = None
  /\ entry = "none"
  /\ api = "idle"
  /\ pc = [w \in Workers |-> "idle"]
  /\ result = [w \in Workers |-> NoResult]
  /\ decision = [d \in Reviewers |-> NoDecision]
  /\ faults = [kind \in FaultKinds |-> 0]

FaultsSoFar == faults["api_crash"] + faults["enqueue_error"] + faults["slow"]
               + faults["worker_crash"] + faults["timeout"] + faults["database"]

Fault(kind) ==
  /\ kind \in Faults
  /\ FaultsSoFar < MaxFaults
  /\ faults' = [faults EXCEPT ![kind] = @ + 1]

Goto(w, step) == pc' = [pc EXCEPT ![w] = step]

-----------------------------------------------------------------------------
(* start_run in queue mode                                                  *)

\* create_run and the audit events, committed before anything is enqueued.
CreateRun ==
  /\ api = "idle"
  /\ run' = "queued"
  /\ api' = "created"
  /\ UNCHANGED <<approvals, drafts, rowLock, entry, pc, result, decision, faults>>

EnqueueRun ==
  /\ api = "created"
  /\ entry' = "new"
  /\ api' = "done"
  /\ UNCHANGED <<run, approvals, drafts, rowLock, pc, result, decision, faults>>

\* enqueue raises; the entry may have been added all the same.
EnqueueRaises ==
  /\ api = "created"
  /\ Fault("enqueue_error")
  /\ entry' \in {"none", "new"}
  /\ api' = "failing"
  /\ UNCHANGED <<run, approvals, drafts, rowLock, pc, result, decision>>

\* The handler then records the failure; the UPDATE waits for the row.
RecordEnqueueFailure ==
  /\ api = "failing"
  /\ rowLock = None
  /\ run' = "failed"
  /\ api' = "done"
  /\ UNCHANGED <<approvals, drafts, rowLock, entry, pc, result, decision, faults>>

\* The API process dies between the commit and the enqueue.
ApiCrash ==
  /\ api \in {"created", "failing"}
  /\ Fault("api_crash")
  /\ api' = "done"
  /\ UNCHANGED <<run, approvals, drafts, rowLock, entry, pc, result, decision>>

-----------------------------------------------------------------------------
(* The worker                                                               *)

\* Mutant: entries of dead workers are not claimed.
Dequeue_NewOnly(w) ==
  /\ pc[w] = "idle"
  /\ entry = "new"
  /\ entry' = "pending"
  /\ Goto(w, "claimed")
  /\ UNCHANGED <<run, approvals, drafts, rowLock, api, result, decision, faults>>

Dequeue(w) ==
  /\ pc[w] = "idle"
  /\ entry \in {"new", "idle"}
  /\ entry' = "pending"
  /\ Goto(w, "claimed")
  /\ UNCHANGED <<run, approvals, drafts, rowLock, api, result, decision, faults>>

\* The entry's idle time passes job_queue_claim_idle_ms: by itself when nobody
\* works on it any more, because the run takes longer otherwise.
AgeEntry ==
  /\ entry = "pending"
  /\ \/ (\E w \in Workers : pc[w] # "idle") /\ Fault("slow")
     \/ (\A w \in Workers : pc[w] = "idle") /\ UNCHANGED faults
  /\ entry' = "idle"
  /\ UNCHANGED <<run, approvals, drafts, rowLock, api, pc, result, decision>>

\* Mutant: a redelivered entry executes a run that has already ended.
Load_Always(w) ==
  /\ pc[w] = "claimed"
  /\ Goto(w, "loaded")
  /\ UNCHANGED <<run, approvals, drafts, rowLock, entry, api, result, decision, faults>>

\* SELECT of the run; a run that is done is not executed again.
Load(w) ==
  /\ pc[w] = "claimed"
  /\ Goto(w, IF run \in Terminal THEN "ack" ELSE "loaded")
  /\ UNCHANGED <<run, approvals, drafts, rowLock, entry, api, result, decision, faults>>

\* Mutant: the status stays "queued" until the end, so nothing locks the row.
StartRun_NoUpdate(w) ==
  /\ pc[w] = "loaded"
  /\ Goto(w, "executing")
  /\ UNCHANGED <<run, approvals, drafts, rowLock, entry, api, result, decision, faults>>

\* run.status = running, flushed with the first event.
StartRun(w) ==
  /\ pc[w] = "loaded"
  /\ rowLock = None
  /\ rowLock' = w
  /\ Goto(w, "executing")
  /\ UNCHANGED <<run, approvals, drafts, entry, api, result, decision, faults>>

\* _ensure_pending_approval finds none to reuse.
Asks == \A i \in DOMAIN approvals : approvals[i] # "pending"

\* The graph has run: risk gate passed or approval needed.  The approval and
\* the draft are added unless the queries find one.
Persist(w) ==
  /\ pc[w] = "executing"
  /\ \E status \in {"awaiting_approval", "completed"} :
       result' = [result EXCEPT ![w] =
         [status |-> status, asks |-> status = "awaiting_approval" /\ Asks,
          drafts |-> drafts = 0]]
  /\ Goto(w, "persisted")
  /\ UNCHANGED <<run, approvals, drafts, rowLock, entry, api, decision, faults>>

CommitRun(w) ==
  /\ pc[w] = "persisted"
  /\ run' = result[w].status
  /\ approvals' = IF result[w].asks THEN Append(approvals, "pending") ELSE approvals
  /\ drafts' = IF result[w].drafts THEN drafts + 1 ELSE drafts
  /\ rowLock' = None
  /\ result' = [result EXCEPT ![w] = NoResult]
  /\ Goto(w, "ack")
  /\ UNCHANGED <<entry, api, decision, faults>>

\* A node or the retrieval failed for good, and the session is still usable: the
\* run is recorded as failed.
FailRun(w) ==
  /\ pc[w] = "executing"
  /\ run' = "failed"
  /\ rowLock' = None
  /\ Goto(w, "ack")
  /\ UNCHANGED <<approvals, drafts, entry, api, result, decision, faults>>

\* The worker's wait_for, whose deadline is the inner timeout's or earlier,
\* cancels the job: CancelledError passes "except Exception" and the session
\* is rolled back; _can_retry refuses and fail() acknowledges the entry.
Timeout(w) ==
  /\ pc[w] \in {"loaded", "executing", "persisted"}
  /\ Fault("timeout")
  /\ rowLock' = IF rowLock = w THEN None ELSE rowLock
  /\ Goto(w, "ack")
  /\ result' = [result EXCEPT ![w] = NoResult]
  /\ UNCHANGED <<run, approvals, drafts, entry, api, decision>>

\* The database fails a statement of the execution: the session is spoiled, so
\* that recording the failure raises as well, and the entry is acknowledged.
DatabaseError(w) ==
  /\ pc[w] \in {"claimed", "loaded", "executing", "persisted"}
  /\ Fault("database")
  /\ rowLock' = IF rowLock = w THEN None ELSE rowLock
  /\ Goto(w, "ack")
  /\ result' = [result EXCEPT ![w] = NoResult]
  /\ UNCHANGED <<run, approvals, drafts, entry, api, decision>>

\* The next event's number is taken by a decision that holds no row lock: the
\* failed INSERT spoils the session, the handler's own event fails with it, and
\* the worker acknowledges what it rolled back.
EventConflict(w) ==
  /\ pc[w] \in {"executing", "persisted"}
  /\ \E d \in Reviewers : decision[d].pc = "flushed"
  /\ rowLock' = None
  /\ Goto(w, "ack")
  /\ result' = [result EXCEPT ![w] = NoResult]
  /\ UNCHANGED <<run, approvals, drafts, entry, api, decision, faults>>

Acknowledge(w) ==
  /\ pc[w] = "ack"
  /\ entry' = "acked"
  /\ Goto(w, "idle")
  /\ UNCHANGED <<run, approvals, drafts, rowLock, api, result, decision, faults>>

WorkerCrash(w) ==
  /\ pc[w] # "idle"
  /\ Fault("worker_crash")
  /\ rowLock' = IF rowLock = w THEN None ELSE rowLock
  /\ Goto(w, "idle")
  /\ result' = [result EXCEPT ![w] = NoResult]
  /\ UNCHANGED <<run, approvals, drafts, entry, api, decision>>

-----------------------------------------------------------------------------
(* approve_run and reject_run: resume_after_approval                        *)

Decide(d, request) == decision' = [decision EXCEPT ![d] = request]

\* Mutant: the run is given the approval's status.
Outcome_Approval(request) == IF request.approved THEN "approved" ELSE "rejected"

\* The status the request gives the run; the approval is given the like.
Outcome(request) == IF request.approved THEN "completed" ELSE "rejected"

Verdict(request) == IF request.approved THEN "approved" ELSE "rejected"

\* Transactions with an uncommitted event of the run.
Open == {w \in Workers : pc[w] \in {"executing", "persisted"}}
        \cup {d \in Reviewers : decision[d].pc = "flushed"}

\* SELECT of the run, whatever its status.
DecideLoad(d) ==
  /\ decision[d].pc = "idle"
  /\ run # "absent"
  /\ \E approved \in BOOLEAN :
       Decide(d, [NoDecision EXCEPT !.pc = "loaded", !.approved = approved, !.loaded = run])
  /\ UNCHANGED <<run, approvals, drafts, rowLock, entry, api, pc, result, faults>>

\* The newest approval is the one decided, whatever its status; without one the
\* request changes nothing.
DecideSelect(d) ==
  /\ decision[d].pc = "loaded"
  /\ Decide(d, IF approvals = <<>> THEN [decision[d] EXCEPT !.pc = "done"]
                ELSE [decision[d] EXCEPT !.pc = "selected", !.index = Len(approvals),
                                         !.was = approvals[Len(approvals)]])
  /\ UNCHANGED <<run, approvals, drafts, rowLock, entry, api, pc, result, faults>>

Writes(request) == Outcome(request) # request.loaded

\* The event's query flushes the changed columns, which waits for the run row
\* if its status changes; then the event is numbered and inserted.
DecideFlush(d) ==
  /\ decision[d].pc = "selected"
  /\ Writes(decision[d]) => rowLock = None
  /\ Open = {}
  /\ rowLock' = IF Writes(decision[d]) THEN d ELSE rowLock
  /\ Decide(d, [decision[d] EXCEPT !.pc = "flushed"])
  /\ UNCHANGED <<run, approvals, drafts, entry, api, pc, result, faults>>

\* The number is one that an open transaction then commits: the request fails
\* and get_db rolls it back.
DecideConflict(d) ==
  /\ decision[d].pc = "selected"
  /\ Writes(decision[d]) => rowLock = None
  /\ Open # {}
  /\ Decide(d, [decision[d] EXCEPT !.pc = "done"])
  /\ UNCHANGED <<run, approvals, drafts, rowLock, entry, api, pc, result, faults>>

DecideCommit(d) ==
  LET request == decision[d]
  IN /\ request.pc = "flushed"
     /\ run' = IF Writes(request) THEN Outcome(request) ELSE run
     /\ approvals' = IF Verdict(request) = request.was THEN approvals
                     ELSE [approvals EXCEPT ![request.index] = Verdict(request)]
     /\ rowLock' = IF rowLock = d THEN None ELSE rowLock
     /\ Decide(d, [request EXCEPT !.pc = "done"])
     /\ UNCHANGED <<drafts, entry, api, pc, result, faults>>

-----------------------------------------------------------------------------
Api == CreateRun \/ EnqueueRun \/ RecordEnqueueFailure

Work(w) == \/ Dequeue(w) \/ Load(w) \/ StartRun(w) \/ Persist(w) \/ CommitRun(w)
           \/ FailRun(w) \/ Acknowledge(w)

Next ==
  \/ Api \/ EnqueueRaises \/ ApiCrash \/ AgeEntry
  \/ \E w \in Workers : Work(w) \/ EventConflict(w) \/ Timeout(w) \/ DatabaseError(w) \/ WorkerCrash(w)
  \/ \E d \in Reviewers :
       DecideLoad(d) \/ DecideSelect(d) \/ DecideFlush(d) \/ DecideConflict(d) \/ DecideCommit(d)

Spec == Init /\ [][Next]_vars

\* Requests are served, workers loop, clocks advance; reviewers owe nothing, but a
\* transaction that holds the row comes to its end.
Fairness == /\ WF_vars(Api)
            /\ WF_vars(AgeEntry)
            /\ \A w \in Workers : WF_vars(Work(w))
            /\ \A d \in Reviewers : WF_vars(DecideCommit(d))

FairSpec == Spec /\ Fairness

-----------------------------------------------------------------------------
(* Properties.                                                              *)

\* At most one approval is pending, however often the entry is reclaimed while
\* the run is being executed: two would make _ensure_pending_approval and the
\* reviewers disagree about the one to decide.
OnePendingApproval ==
  \A i, k \in DOMAIN approvals :
    approvals[i] = "pending" /\ approvals[k] = "pending" => i = k

\* A second execution of the run does not add a second issue draft: its check
\* comes after the first one's commit because both update the run row first.
OneDraft == drafts <= 1

\* No entry was reclaimed from a worker still executing it, so executions of the
\* run never overlap.
OneAtATime == faults["slow"] = 0

\* As long as executions do not overlap, a run that waits for approval has one to
\* decide, so a reviewer can always move it on, whatever crashes, times out or
\* is decided in between.  (Two slow executions break this: see the README.)
AwaitingHasApproval ==
  OneAtATime /\ run = "awaiting_approval" =>
    \E i \in DOMAIN approvals : approvals[i] = "pending"

\* Under the same condition a completed or rejected run is not reopened by the
\* entry of a worker that crashed between its commit and its acknowledgement.
NotReopened ==
  [][OneAtATime /\ run \in {"completed", "rejected"} => run' # "awaiting_approval"]_vars

\* Crashed workers and reclaimed entries do not lose a run: it is executed to an
\* end, or the API process died before it enqueued it, an execution timed out or
\* the database failed one.
RunEnds ==
  run = "queued" ~> \/ run \in Terminal
                    \/ faults["api_crash"] + faults["timeout"] + faults["database"] > 0

\* Claimed by technical.md (Async Runtime): the worker persists the status and
\* acknowledges or records the failure, so a run whose entry was dealt with is
\* not "queued" any more.
AckedRunIsRecorded == entry = "acked" => run # "queued"
=============================================================================
