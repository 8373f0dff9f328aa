------------------------- MODULE WorkflowRun_proofs -------------------------
(***************************************************************************)
(* Proofs about WorkflowRun, for any number of workers, reviewers and      *)
(* faults.                                                                 *)
(***************************************************************************)
EXTENDS WorkflowRun, SequenceTheorems, TLAPS

Running(w) == pc[w] \in {"loaded", "executing", "persisted"}

Decided == {"completed", "rejected"}

ApprovalStatus == {"pending", "approved", "rejected"}

RunStatus == {"absent", "queued"} \cup Terminal

Result == [status : {None} \cup Terminal, asks : BOOLEAN, drafts : BOOLEAN]

Request == [pc : {"idle", "loaded", "selected", "flushed", "done"}, approved : BOOLEAN,
            index : Nat, was : ApprovalStatus \cup {None}, loaded : RunStatus \cup {None}]

\* What TypeOK leaves open.
DataTypes ==
  /\ approvals \in Seq(ApprovalStatus)
  /\ result \in [Workers -> Result]
  /\ decision \in [Reviewers -> Request]

\* The run row is locked by the transaction that has updated it: an execution
\* past its first event, or a flushed decision that changes the status.
LockMatchesWriter ==
  /\ \A w \in Workers : pc[w] \in {"executing", "persisted"} <=> rowLock = w
  /\ \A d \in Reviewers :
       rowLock = d => decision[d].pc = "flushed" /\ Writes(decision[d])

\* What an execution found when it looked for an approval and a draft still
\* holds when it commits.
ResultIsFresh ==
  \A w \in Workers : pc[w] = "persisted" =>
    /\ result[w].status \in {"awaiting_approval", "completed"}
    /\ result[w].asks => Asks
    /\ result[w].drafts => drafts = 0

\* A decision that has selected an approval has one to change.
SelectedExists ==
  \A d \in Reviewers : decision[d].pc \in {"selected", "flushed"} =>
    decision[d].index \in 1 .. Len(approvals)

\* The run exists before it is enqueued, an approval is created only with the
\* end of an execution, and a run that has ended stays so.
EndedStaysEnded ==
  /\ api = "idle" => run = "absent"
  /\ api \in {"idle", "created"} => entry = "none"
  /\ entry = "none" => \A w \in Workers : pc[w] = "idle"
  /\ approvals # <<>> => run \in Terminal
  /\ \A d \in Reviewers : decision[d].loaded \in Terminal => run \in Terminal

\* As long as no entry is reclaimed from a worker that still executes it, one
\* worker at most deals with the run, the run has no approval while it is
\* executed, and a decided run is neither executed nor waiting.
OneExecution == OneAtATime =>
  /\ \A w \in Workers : pc[w] # "idle" =>
       entry = "pending" /\ \A v \in Workers \ {w} : pc[v] = "idle"
  /\ \A w \in Workers : Running(w) => approvals = <<>>
  /\ \A w \in Workers : pc[w] = "persisted" /\ result[w].status = "awaiting_approval" =>
       result[w].asks
  /\ run \in Decided => \A w \in Workers : ~Running(w)
  /\ \A d \in Reviewers : decision[d].loaded \in Decided =>
       run # "awaiting_approval" /\ \A w \in Workers : ~Running(w)

WorkflowInv ==
  /\ TypeOK
  /\ DataTypes
  /\ LockMatchesWriter
  /\ ResultIsFresh
  /\ SelectedExists
  /\ EndedStaysEnded
  /\ OneExecution
  /\ OnePendingApproval
  /\ OneDraft
  /\ AwaitingHasApproval

-----------------------------------------------------------------------------
\* The initial state satisfies the invariant.
LEMMA InitInv == Init => WorkflowInv
  BY WorkflowAssumption
  DEF Init, WorkflowInv, TypeOK, DataTypes, LockMatchesWriter, ResultIsFresh, SelectedExists,
      EndedStaysEnded, OneExecution, OnePendingApproval, OneDraft, AwaitingHasApproval, Request,
      Result, RunStatus, ApprovalStatus, NoResult, NoDecision, None, Running, Terminal, Decided,
      FaultKinds, OneAtATime

\* A request that goes on is a request.
LEMMA RequestStep ==
  ASSUME NEW request \in Request, NEW step \in {"loaded", "selected", "flushed", "done"}
  PROVE  [request EXCEPT !.pc = step] \in Request
  BY DEF Request

\* So is one that has selected an approval,
LEMMA RequestSelects ==
  ASSUME NEW request \in Request, NEW i \in Nat, NEW status \in ApprovalStatus
  PROVE  [request EXCEPT !.pc = "selected", !.index = i, !.was = status] \in Request
  BY DEF Request

\* and one that has loaded the run.
LEMMA RequestLoads ==
  ASSUME NEW approved \in BOOLEAN, NEW status \in RunStatus
  PROVE  [NoDecision EXCEPT !.pc = "loaded", !.approved = approved, !.loaded = status] \in Request
  BY DEF Request, NoDecision, None

\* WorkflowInv is inductive: one step per action.
LEMMA NextInv == WorkflowInv /\ [Next]_vars => WorkflowInv'
<1> SUFFICES ASSUME WorkflowInv, [Next]_vars PROVE WorkflowInv'
  OBVIOUS
<1> USE WorkflowAssumption
    DEF WorkflowInv, TypeOK, DataTypes, LockMatchesWriter, ResultIsFresh, SelectedExists,
        EndedStaysEnded, OneExecution, Running, Terminal, Decided, RunStatus, ApprovalStatus,
        OneAtATime, None, Goto, Decide, FaultKinds, Asks
<1>1. CASE CreateRun
  <2>1. TypeOK' /\ DataTypes'
    BY <1>1 DEF CreateRun
  <2>2. LockMatchesWriter' /\ ResultIsFresh' /\ SelectedExists' /\ EndedStaysEnded'
    BY <1>1 DEF CreateRun
  <2>3. OneExecution'
    BY <1>1 DEF CreateRun
  <2>4. OnePendingApproval' /\ OneDraft' /\ AwaitingHasApproval'
    BY <1>1 DEF CreateRun, OnePendingApproval, OneDraft, AwaitingHasApproval
  <2> QED
    BY <2>1, <2>2, <2>3, <2>4
<1>2. CASE EnqueueRun
  <2>1. TypeOK' /\ DataTypes'
    BY <1>2 DEF EnqueueRun
  <2>2. LockMatchesWriter' /\ ResultIsFresh' /\ SelectedExists' /\ EndedStaysEnded'
    BY <1>2 DEF EnqueueRun
  <2>3. OneExecution'
    BY <1>2 DEF EnqueueRun
  <2>4. OnePendingApproval' /\ OneDraft' /\ AwaitingHasApproval'
    BY <1>2 DEF EnqueueRun, OnePendingApproval, OneDraft, AwaitingHasApproval
  <2> QED
    BY <2>1, <2>2, <2>3, <2>4
<1>3. CASE RecordEnqueueFailure
  <2>1. TypeOK' /\ DataTypes'
    BY <1>3 DEF RecordEnqueueFailure
  <2>2. LockMatchesWriter' /\ ResultIsFresh' /\ SelectedExists' /\ EndedStaysEnded'
    BY <1>3 DEF RecordEnqueueFailure
  <2>3. OneExecution'
    BY <1>3 DEF RecordEnqueueFailure
  <2>4. OnePendingApproval' /\ OneDraft' /\ AwaitingHasApproval'
    BY <1>3 DEF RecordEnqueueFailure, OnePendingApproval, OneDraft, AwaitingHasApproval
  <2> QED
    BY <2>1, <2>2, <2>3, <2>4
<1>4. CASE EnqueueRaises
  <2>1. TypeOK' /\ DataTypes'
    BY <1>4 DEF EnqueueRaises, Fault, FaultsSoFar
  <2>2. LockMatchesWriter' /\ ResultIsFresh' /\ SelectedExists' /\ EndedStaysEnded'
    BY <1>4 DEF EnqueueRaises, Fault, FaultsSoFar
  <2>3. OneExecution'
    BY <1>4 DEF EnqueueRaises, Fault, FaultsSoFar
  <2>4. OnePendingApproval' /\ OneDraft' /\ AwaitingHasApproval'
    BY <1>4 DEF EnqueueRaises, Fault, FaultsSoFar, OnePendingApproval, OneDraft, AwaitingHasApproval
  <2> QED
    BY <2>1, <2>2, <2>3, <2>4
<1>5. CASE ApiCrash
  <2>1. TypeOK' /\ DataTypes'
    BY <1>5 DEF ApiCrash, Fault, FaultsSoFar
  <2>2. LockMatchesWriter' /\ ResultIsFresh' /\ SelectedExists' /\ EndedStaysEnded'
    BY <1>5 DEF ApiCrash, Fault, FaultsSoFar
  <2>3. OneExecution'
    BY <1>5 DEF ApiCrash, Fault, FaultsSoFar
  <2>4. OnePendingApproval' /\ OneDraft' /\ AwaitingHasApproval'
    BY <1>5 DEF ApiCrash, Fault, FaultsSoFar, OnePendingApproval, OneDraft, AwaitingHasApproval
  <2> QED
    BY <2>1, <2>2, <2>3, <2>4
<1>6. CASE AgeEntry
  <2>1. TypeOK' /\ DataTypes'
    BY <1>6 DEF AgeEntry, Fault, FaultsSoFar
  <2>2. LockMatchesWriter' /\ ResultIsFresh' /\ SelectedExists' /\ EndedStaysEnded'
    BY <1>6 DEF AgeEntry, Fault, FaultsSoFar
  <2>3. OneExecution'
    BY <1>6 DEF AgeEntry, Fault, FaultsSoFar
  <2>4. OnePendingApproval' /\ OneDraft' /\ AwaitingHasApproval'
    BY <1>6 DEF AgeEntry, Fault, FaultsSoFar, OnePendingApproval, OneDraft, AwaitingHasApproval
  <2> QED
    BY <2>1, <2>2, <2>3, <2>4
<1>7. ASSUME NEW w \in Workers, Dequeue(w) PROVE WorkflowInv'
  <2>1. TypeOK' /\ DataTypes'
    BY <1>7 DEF Dequeue
  <2>2. LockMatchesWriter' /\ ResultIsFresh' /\ SelectedExists' /\ EndedStaysEnded'
    BY <1>7 DEF Dequeue
  <2>3. OneExecution'
    BY <1>7 DEF Dequeue
  <2>4. OnePendingApproval' /\ OneDraft' /\ AwaitingHasApproval'
    BY <1>7 DEF Dequeue, OnePendingApproval, OneDraft, AwaitingHasApproval
  <2> QED
    BY <2>1, <2>2, <2>3, <2>4
<1>8. ASSUME NEW w \in Workers, Load(w) PROVE WorkflowInv'
  <2>1. TypeOK' /\ DataTypes'
    BY <1>8 DEF Load
  <2>2. LockMatchesWriter' /\ ResultIsFresh' /\ SelectedExists' /\ EndedStaysEnded'
    BY <1>8 DEF Load
  <2>3. OneExecution'
    BY <1>8 DEF Load
  <2>4. OnePendingApproval' /\ OneDraft' /\ AwaitingHasApproval'
    BY <1>8 DEF Load, OnePendingApproval, OneDraft, AwaitingHasApproval
  <2> QED
    BY <2>1, <2>2, <2>3, <2>4
<1>9. ASSUME NEW w \in Workers, StartRun(w) PROVE WorkflowInv'
  <2>1. TypeOK' /\ DataTypes'
    BY <1>9 DEF StartRun
  <2>2. LockMatchesWriter' /\ ResultIsFresh' /\ SelectedExists' /\ EndedStaysEnded'
    BY <1>9 DEF StartRun
  <2>3. OneExecution'
    BY <1>9 DEF StartRun
  <2>4. OnePendingApproval' /\ OneDraft' /\ AwaitingHasApproval'
    BY <1>9 DEF StartRun, OnePendingApproval, OneDraft, AwaitingHasApproval
  <2> QED
    BY <2>1, <2>2, <2>3, <2>4
<1>10. ASSUME NEW w \in Workers, Persist(w) PROVE WorkflowInv'
  <2>a. PICK status \in {"awaiting_approval", "completed"} :
          result' = [result EXCEPT ![w] =
            [status |-> status, asks |-> status = "awaiting_approval" /\ Asks,
             drafts |-> drafts = 0]]
    BY <1>10 DEF Persist
  <2>b. /\ result'[w] = [status |-> status, asks |-> status = "awaiting_approval" /\ Asks,
                        drafts |-> drafts = 0]
        /\ \A v \in Workers \ {w} : result'[v] = result[v]
    BY <2>a
  <2>c. /\ result'[w].status = status
        /\ result'[w].asks <=> status = "awaiting_approval" /\ Asks
        /\ result'[w].drafts <=> drafts = 0
    <3> DEFINE asks == status = "awaiting_approval" /\ Asks
               fresh == drafts = 0
    <3>1. asks \in BOOLEAN /\ fresh \in BOOLEAN
      OBVIOUS
    <3>2. result'[w] = [status |-> status, asks |-> asks, drafts |-> fresh]
      BY <2>b
    <3> HIDE DEF asks, fresh
    <3>3. result'[w].status = status /\ result'[w].asks = asks /\ result'[w].drafts = fresh
      BY <3>2
    <3> QED
      BY <3>1, <3>3 DEF asks, fresh
  <2>d. /\ Asks' <=> Asks
        /\ pc' = [pc EXCEPT ![w] = "persisted"]
        /\ UNCHANGED <<run, approvals, drafts, entry, decision, faults>>
        /\ pc[w] = "executing"
    BY <1>10 DEF Persist
  <2>1. TypeOK' /\ DataTypes'
    BY <1>10 DEF Persist, Result, NoResult
  <2>2. LockMatchesWriter' /\ SelectedExists' /\ EndedStaysEnded'
    BY <1>10 DEF Persist
  <2>3. ResultIsFresh'
    <3> HIDE DEF Asks
    <3>1. ASSUME NEW v \in Workers \ {w}
          PROVE  result'[v] = result[v] /\ pc'[v] = pc[v]
      BY <3>1, <2>b, <2>d
    <3> QED
      BY <2>c, <2>d, <3>1 DEF ResultIsFresh
  <2>4. OneExecution'
    <3>1. ASSUME NEW v \in Workers \ {w}
          PROVE  result'[v] = result[v] /\ pc'[v] = pc[v]
      BY <3>1, <2>b, <2>d
    <3>2. OneAtATime => Asks
      BY <2>d
    <3> HIDE DEF Asks
    <3> QED
      BY <2>c, <2>d, <3>1, <3>2
  <2>5. OnePendingApproval' /\ OneDraft' /\ AwaitingHasApproval'
    BY <1>10 DEF Persist, OnePendingApproval, OneDraft, AwaitingHasApproval
  <2> QED
    BY <2>1, <2>2, <2>3, <2>4, <2>5
<1>11. ASSUME NEW w \in Workers, CommitRun(w) PROVE WorkflowInv'
  <2>1. TypeOK' /\ DataTypes'
    BY <1>11 DEF CommitRun, Result, NoResult
  <2>2. LockMatchesWriter' /\ ResultIsFresh' /\ SelectedExists' /\ EndedStaysEnded'
    BY <1>11 DEF CommitRun
  <2>3. OneExecution'
    BY <1>11 DEF CommitRun
  <2>4. OnePendingApproval' /\ OneDraft'
    BY <1>11 DEF CommitRun, OnePendingApproval, OneDraft
  <2>5. AwaitingHasApproval'
    <3> SUFFICES ASSUME OneAtATime', run' = "awaiting_approval"
                 PROVE  \E i \in DOMAIN approvals' : approvals'[i] = "pending"
      BY DEF AwaitingHasApproval
    <3>1. approvals' = Append(approvals, "pending")
      BY <1>11 DEF CommitRun
    <3>2. Len(approvals) + 1 \in DOMAIN approvals' /\ approvals'[Len(approvals) + 1] = "pending"
      BY <3>1
    <3> QED
      BY <3>2
  <2> QED
    BY <2>1, <2>2, <2>3, <2>4, <2>5
<1>12. ASSUME NEW w \in Workers, FailRun(w) PROVE WorkflowInv'
  <2>1. TypeOK' /\ DataTypes'
    BY <1>12 DEF FailRun
  <2>2. LockMatchesWriter' /\ ResultIsFresh' /\ SelectedExists' /\ EndedStaysEnded'
    BY <1>12 DEF FailRun
  <2>3. OneExecution'
    BY <1>12 DEF FailRun
  <2>4. OnePendingApproval' /\ OneDraft' /\ AwaitingHasApproval'
    BY <1>12 DEF FailRun, OnePendingApproval, OneDraft, AwaitingHasApproval
  <2> QED
    BY <2>1, <2>2, <2>3, <2>4
<1>13. ASSUME NEW w \in Workers, Acknowledge(w) PROVE WorkflowInv'
  <2>1. TypeOK' /\ DataTypes'
    BY <1>13 DEF Acknowledge
  <2>2. LockMatchesWriter' /\ ResultIsFresh' /\ SelectedExists' /\ EndedStaysEnded'
    BY <1>13 DEF Acknowledge
  <2>3. OneExecution'
    BY <1>13 DEF Acknowledge
  <2>4. OnePendingApproval' /\ OneDraft' /\ AwaitingHasApproval'
    BY <1>13 DEF Acknowledge, OnePendingApproval, OneDraft, AwaitingHasApproval
  <2> QED
    BY <2>1, <2>2, <2>3, <2>4
<1>14. ASSUME NEW w \in Workers, EventConflict(w) PROVE WorkflowInv'
  <2>1. TypeOK' /\ DataTypes'
    BY <1>14 DEF EventConflict, Result, NoResult
  <2>2. LockMatchesWriter' /\ ResultIsFresh' /\ SelectedExists' /\ EndedStaysEnded'
    BY <1>14 DEF EventConflict
  <2>3. OneExecution'
    BY <1>14 DEF EventConflict
  <2>4. OnePendingApproval' /\ OneDraft' /\ AwaitingHasApproval'
    BY <1>14 DEF EventConflict, OnePendingApproval, OneDraft, AwaitingHasApproval
  <2> QED
    BY <2>1, <2>2, <2>3, <2>4
<1>15. ASSUME NEW w \in Workers, Timeout(w) PROVE WorkflowInv'
  <2>1. TypeOK' /\ DataTypes'
    BY <1>15 DEF Timeout, Fault, FaultsSoFar, Result, NoResult
  <2>2. LockMatchesWriter' /\ ResultIsFresh' /\ SelectedExists' /\ EndedStaysEnded'
    BY <1>15 DEF Timeout, Fault, FaultsSoFar
  <2>3. OneExecution'
    BY <1>15 DEF Timeout, Fault, FaultsSoFar
  <2>4. OnePendingApproval' /\ OneDraft' /\ AwaitingHasApproval'
    BY <1>15 DEF Timeout, Fault, FaultsSoFar, OnePendingApproval, OneDraft, AwaitingHasApproval
  <2> QED
    BY <2>1, <2>2, <2>3, <2>4
<1>23. ASSUME NEW w \in Workers, DatabaseError(w) PROVE WorkflowInv'
  <2>1. TypeOK' /\ DataTypes'
    BY <1>23 DEF DatabaseError, Fault, FaultsSoFar, Result, NoResult
  <2>2. LockMatchesWriter' /\ ResultIsFresh' /\ SelectedExists' /\ EndedStaysEnded'
    BY <1>23 DEF DatabaseError, Fault, FaultsSoFar
  <2>3. OneExecution'
    BY <1>23 DEF DatabaseError, Fault, FaultsSoFar
  <2>4. OnePendingApproval' /\ OneDraft' /\ AwaitingHasApproval'
    BY <1>23 DEF DatabaseError, Fault, FaultsSoFar, OnePendingApproval, OneDraft, AwaitingHasApproval
  <2> QED
    BY <2>1, <2>2, <2>3, <2>4
<1>16. ASSUME NEW w \in Workers, WorkerCrash(w) PROVE WorkflowInv'
  <2>1. TypeOK' /\ DataTypes'
    BY <1>16 DEF WorkerCrash, Fault, FaultsSoFar, Result, NoResult
  <2>2. LockMatchesWriter' /\ ResultIsFresh' /\ SelectedExists' /\ EndedStaysEnded'
    BY <1>16 DEF WorkerCrash, Fault, FaultsSoFar
  <2>3. OneExecution'
    BY <1>16 DEF WorkerCrash, Fault, FaultsSoFar
  <2>4. OnePendingApproval' /\ OneDraft' /\ AwaitingHasApproval'
    BY <1>16 DEF WorkerCrash, Fault, FaultsSoFar, OnePendingApproval, OneDraft, AwaitingHasApproval
  <2> QED
    BY <2>1, <2>2, <2>3, <2>4
<1>17. ASSUME NEW d \in Reviewers, DecideLoad(d) PROVE WorkflowInv'
  <2>1. TypeOK'
    BY <1>17 DEF DecideLoad
  <2>2. DataTypes'
    <3>1. \A approved \in BOOLEAN :
            [NoDecision EXCEPT !.pc = "loaded", !.approved = approved, !.loaded = run] \in Request
      BY RequestLoads
    <3>2. PICK approved \in BOOLEAN :
            decision' = [decision EXCEPT ![d] =
              [NoDecision EXCEPT !.pc = "loaded", !.approved = approved, !.loaded = run]]
      BY <1>17 DEF DecideLoad
    <3>3. decision' \in [Reviewers -> Request]
      BY <3>1, <3>2
    <3> QED
      BY <1>17, <3>3 DEF DecideLoad
  <2>3. LockMatchesWriter' /\ ResultIsFresh' /\ SelectedExists' /\ EndedStaysEnded'
    BY <1>17 DEF DecideLoad, Writes, Outcome, Request, NoDecision
  <2>4. OneExecution'
    BY <1>17 DEF DecideLoad
  <2>5. OnePendingApproval' /\ OneDraft' /\ AwaitingHasApproval'
    BY <1>17 DEF DecideLoad, OnePendingApproval, OneDraft, AwaitingHasApproval
  <2> QED
    BY <2>1, <2>2, <2>3, <2>4, <2>5
<1>18. ASSUME NEW d \in Reviewers, DecideSelect(d) PROVE WorkflowInv'
  <2>1. TypeOK'
    BY <1>18 DEF DecideSelect
  <2>2. DataTypes'
    <3>1. [decision[d] EXCEPT !.pc = "done"] \in Request
      BY RequestStep
    <3>2. ASSUME approvals # <<>>
          PROVE  [decision[d] EXCEPT !.pc = "selected", !.index = Len(approvals),
                                     !.was = approvals[Len(approvals)]] \in Request
      <4>1. Len(approvals) \in Nat /\ approvals[Len(approvals)] \in ApprovalStatus
        BY <3>2
      <4> QED
        BY <4>1, RequestSelects
    <3>3. decision' \in [Reviewers -> Request]
      BY <1>18, <3>1, <3>2 DEF DecideSelect
    <3> QED
      BY <1>18, <3>3 DEF DecideSelect
  <2>3. LockMatchesWriter' /\ ResultIsFresh' /\ SelectedExists' /\ EndedStaysEnded'
    BY <1>18 DEF DecideSelect, Writes, Outcome, Request, NoDecision
  <2>4. OneExecution'
    BY <1>18 DEF DecideSelect
  <2>5. OnePendingApproval' /\ OneDraft' /\ AwaitingHasApproval'
    BY <1>18 DEF DecideSelect, OnePendingApproval, OneDraft, AwaitingHasApproval
  <2> QED
    BY <2>1, <2>2, <2>3, <2>4, <2>5
<1>19. ASSUME NEW d \in Reviewers, DecideFlush(d) PROVE WorkflowInv'
  <2>1. TypeOK'
    BY <1>19 DEF DecideFlush
  <2>2. DataTypes'
    <3>1. [decision[d] EXCEPT !.pc = "flushed"] \in Request
      BY RequestStep
    <3>2. decision' \in [Reviewers -> Request]
      BY <1>19, <3>1 DEF DecideFlush
    <3> QED
      BY <1>19, <3>2 DEF DecideFlush
  <2>3. LockMatchesWriter' /\ ResultIsFresh' /\ SelectedExists' /\ EndedStaysEnded'
    BY <1>19 DEF DecideFlush, Writes, Outcome, Request, NoDecision
  <2>4. OneExecution'
    BY <1>19 DEF DecideFlush
  <2>5. OnePendingApproval' /\ OneDraft' /\ AwaitingHasApproval'
    BY <1>19 DEF DecideFlush, OnePendingApproval, OneDraft, AwaitingHasApproval
  <2> QED
    BY <2>1, <2>2, <2>3, <2>4, <2>5
<1>20. ASSUME NEW d \in Reviewers, DecideConflict(d) PROVE WorkflowInv'
  <2>1. TypeOK'
    BY <1>20 DEF DecideConflict
  <2>2. DataTypes'
    <3>1. [decision[d] EXCEPT !.pc = "done"] \in Request
      BY RequestStep
    <3>2. decision' \in [Reviewers -> Request]
      BY <1>20, <3>1 DEF DecideConflict
    <3> QED
      BY <1>20, <3>2 DEF DecideConflict
  <2>3. LockMatchesWriter' /\ ResultIsFresh' /\ SelectedExists' /\ EndedStaysEnded'
    BY <1>20 DEF DecideConflict, Writes, Outcome, Request, NoDecision
  <2>4. OneExecution'
    BY <1>20 DEF DecideConflict
  <2>5. OnePendingApproval' /\ OneDraft' /\ AwaitingHasApproval'
    BY <1>20 DEF DecideConflict, OnePendingApproval, OneDraft, AwaitingHasApproval
  <2> QED
    BY <2>1, <2>2, <2>3, <2>4, <2>5
<1>21. ASSUME NEW d \in Reviewers, DecideCommit(d) PROVE WorkflowInv'
  <2>1. TypeOK'
    BY <1>21 DEF DecideCommit, Writes, Outcome, Verdict
  <2>2. DataTypes'
    <3>1. [decision[d] EXCEPT !.pc = "done"] \in Request
      BY RequestStep
    <3>2. decision' \in [Reviewers -> Request]
      BY <1>21, <3>1 DEF DecideCommit
    <3>3. approvals' \in Seq(ApprovalStatus)
      BY <1>21, ExceptSeq DEF DecideCommit, Verdict
    <3> QED
      BY <1>21, <3>2, <3>3 DEF DecideCommit
  <2>3. LockMatchesWriter' /\ ResultIsFresh' /\ SelectedExists' /\ EndedStaysEnded'
    BY <1>21 DEF DecideCommit, Writes, Outcome, Request, NoDecision, Verdict
  <2>4. OneExecution'
    BY <1>21 DEF DecideCommit, Writes, Outcome, Verdict
  <2>5. OnePendingApproval' /\ OneDraft' /\ AwaitingHasApproval'
    BY <1>21 DEF DecideCommit, OnePendingApproval, Writes, Outcome, Verdict, OneDraft,
                 AwaitingHasApproval
  <2> QED
    BY <2>1, <2>2, <2>3, <2>4, <2>5
<1>22. CASE UNCHANGED vars
  BY <1>22 DEF vars, OnePendingApproval, OneDraft, AwaitingHasApproval
<1> QED
  BY <1>1, <1>2, <1>3, <1>4, <1>5, <1>6, <1>7, <1>8, <1>9, <1>10, <1>11, <1>12,
     <1>13, <1>14, <1>15, <1>16, <1>17, <1>18, <1>19, <1>20, <1>21, <1>22, <1>23
  DEF Next, Api, Work

-----------------------------------------------------------------------------
\* WorkflowInv holds in every reachable state.
THEOREM Invariance == Spec => []WorkflowInv
  BY InitInv, NextInv, PTL DEF Spec

\* Every variable keeps its type.
THEOREM TypeCorrect == Spec => []TypeOK
<1>1. WorkflowInv => TypeOK
  BY DEF WorkflowInv
<1> QED
  BY <1>1, Invariance, PTL

\* _ensure_pending_approval never makes a second pending approval, however many
\* workers execute the run at the same time and whatever reviewers decide.
THEOREM AtMostOnePending == Spec => []OnePendingApproval
<1>1. WorkflowInv => OnePendingApproval
  BY DEF WorkflowInv
<1> QED
  BY <1>1, Invariance, PTL

\* Executions of one run never add a second issue draft.
THEOREM AtMostOneDraft == Spec => []OneDraft
<1>1. WorkflowInv => OneDraft
  BY DEF WorkflowInv
<1> QED
  BY <1>1, Invariance, PTL

\* While executions do not overlap, a run that waits for approval has an approval
\* to decide.
THEOREM AwaitingDecidable == Spec => []AwaitingHasApproval
<1>1. WorkflowInv => AwaitingHasApproval
  BY DEF WorkflowInv
<1> QED
  BY <1>1, Invariance, PTL

\* While executions do not overlap, execute_workflow_run_job never takes a decided
\* run back to waiting: only a commit could, and none of a decided run is under way.
THEOREM DecidedStaysDecided == Spec => NotReopened
<1>1. WorkflowInv /\ [Next]_vars =>
        [OneAtATime /\ run \in {"completed", "rejected"} => run' # "awaiting_approval"]_vars
  <2> SUFFICES ASSUME WorkflowInv, Next, OneAtATime, run \in {"completed", "rejected"},
                      run' = "awaiting_approval"
               PROVE  FALSE
    BY DEF vars
  <2>1. PICK w \in Workers : CommitRun(w)
    BY DEF Next, Api, Work, CreateRun, EnqueueRun, RecordEnqueueFailure, EnqueueRaises, ApiCrash,
           AgeEntry, Dequeue, Load, StartRun, Persist, FailRun, Acknowledge, EventConflict,
           Timeout, DatabaseError, WorkerCrash, DecideLoad, DecideSelect, DecideFlush, DecideConflict,
           DecideCommit, Outcome
  <2> QED
    BY <2>1 DEF CommitRun, WorkflowInv, OneExecution, Running, Decided
<1> QED
  BY <1>1, Invariance, PTL DEF Spec, NotReopened
=============================================================================
