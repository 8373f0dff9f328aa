-------------------------- MODULE IndexJobs_proofs --------------------------
(***************************************************************************)
(* Proofs about IndexJobs, for any number of rows, workers, entries,       *)
(* attempts, retries and faults.                                           *)
(***************************************************************************)
EXTENDS IndexJobs, TLAPS

\* A worker past dequeue refers to an entry.
HoldsEntry ==
  \A w \in Workers : pc[w] \in {"claimed", "executing", "retry", "ack", "again"} => held[w] \in Holding

\* What a transaction read of a row it locked still holds: an executed row has
\* an attempt left and is not settled, a dispatched row is live.
OwnedRowsOpen ==
  \A w \in Workers :
    /\ pc[w] = "executing" =>
         attempts[held[w].job] < MaxAttempts /\ status[held[w].job] \in Live \cup {"failed"}
    /\ pc[w] = "dispatching" =>
         \A j \in outbox[w] : attempts[j] < MaxAttempts /\ status[j] \in Live

\* A row that does not exist yet will start with attempts to spend.
UntriedRowsFresh == \A j \in Jobs : status[j] = "absent" => attempts[j] < MaxAttempts

IndexInv ==
  /\ TypeOK
  /\ NoStrandedJob
  /\ LocksMatchOwners
  /\ HoldsEntry
  /\ OwnedRowsOpen
  /\ UntriedRowsFresh

-----------------------------------------------------------------------------
\* The initial state satisfies the invariant.
LEMMA InitInv == Init => IndexInv
<1> SUFFICES ASSUME Init PROVE IndexInv
  OBVIOUS
<1> USE IndexAssumption DEF Init, None
<1>1. TypeOK
  BY DEF TypeOK, Statuses, Steps
<1>2. NoStrandedJob
  BY DEF NoStrandedJob
<1>3. LocksMatchOwners
  BY DEF LocksMatchOwners
<1>4. HoldsEntry /\ OwnedRowsOpen /\ UntriedRowsFresh
  BY DEF HoldsEntry, OwnedRowsOpen, UntriedRowsFresh
<1> QED
  BY <1>1, <1>2, <1>3, <1>4 DEF IndexInv

\* Ending an execution with outcome s keeps the invariant: the row was ours,
\* so no other transaction relies on what is overwritten.
LEMMA CommitInv ==
  ASSUME IndexInv, NEW w \in Workers, pc[w] = "executing",
         NEW s \in {"completed", "failed", "pending"},
         s = "pending" => attempts[held[w].job] + 1 < MaxAttempts,
         Commit(w, s), NEW step \in {"ack", "retry"}, Goto(w, step)
  PROVE  IndexInv'
<1> DEFINE j == held[w].job
<1> USE IndexAssumption DEF Goto, None
<1>1. j \in Jobs /\ held[w] \in Holding
  BY DEF IndexInv, HoldsEntry, Holding
<1>2. attempts[j] < MaxAttempts /\ lock[j] = w
  BY <1>1 DEF IndexInv, OwnedRowsOpen, LocksMatchOwners
<1>3. \A v \in Workers \ {w} :
        ~(pc[v] = "executing" /\ held[v].job = j) /\ ~(pc[v] = "dispatching" /\ j \in outbox[v])
  BY <1>1, <1>2 DEF IndexInv, LocksMatchOwners
<1>4. /\ status' = [status EXCEPT ![j] = s]
      /\ attempts' = [attempts EXCEPT ![j] = attempts[j] + 1]
      /\ lock' = [lock EXCEPT ![j] = None]
      /\ UNCHANGED <<aged, stream, outbox, held, faults>>
      /\ pc' = [pc EXCEPT ![w] = step]
  BY DEF Commit
<1> HIDE DEF j
<1>5. attempts[j] + 1 \in 0 .. MaxAttempts
  BY <1>1, <1>2 DEF IndexInv, TypeOK
<1>6. TypeOK'
  BY <1>1, <1>4, <1>5 DEF IndexInv, TypeOK, Statuses, Live, Terminal, Steps
<1>7. NoStrandedJob'
  BY <1>1, <1>4 DEF IndexInv, TypeOK, NoStrandedJob, Live, Terminal, j
<1>8. LocksMatchOwners'
  BY <1>1, <1>2, <1>3, <1>4 DEF IndexInv, TypeOK, LocksMatchOwners, j
<1>9. HoldsEntry'
  BY <1>1, <1>4 DEF IndexInv, TypeOK, HoldsEntry
<1>10. OwnedRowsOpen'
  <2> SUFFICES ASSUME NEW v \in Workers
               PROVE  /\ pc'[v] = "executing" =>
                           /\ attempts'[held[v].job] < MaxAttempts
                           /\ status'[held[v].job] \in Live \cup {"failed"}
                      /\ pc'[v] = "dispatching" =>
                           \A k \in outbox[v] : attempts'[k] < MaxAttempts /\ status'[k] \in Live
    BY <1>4 DEF OwnedRowsOpen
  <2>1. CASE v = w
    BY <2>1, <1>4 DEF IndexInv, TypeOK
  <2>2. CASE v # w
    <3>1. pc'[v] = pc[v]
      BY <2>2, <1>4 DEF IndexInv, TypeOK
    <3>2. ASSUME pc[v] = "executing"
          PROVE  /\ attempts'[held[v].job] < MaxAttempts
                 /\ status'[held[v].job] \in Live \cup {"failed"}
      <4>1. held[v].job # j /\ held[v].job \in Jobs
        BY <3>2, <2>2, <1>3 DEF IndexInv, HoldsEntry, Holding
      <4> QED
        BY <4>1, <3>2, <1>4 DEF IndexInv, TypeOK, OwnedRowsOpen
    <3>3. ASSUME pc[v] = "dispatching", NEW k \in outbox[v]
          PROVE  attempts'[k] < MaxAttempts /\ status'[k] \in Live
      <4>1. k # j /\ k \in Jobs
        BY <3>3, <2>2, <1>3 DEF IndexInv, TypeOK
      <4> QED
        BY <4>1, <3>3, <1>4 DEF IndexInv, TypeOK, OwnedRowsOpen
    <3> QED
      BY <3>1, <3>2, <3>3
  <2> QED
    BY <2>1, <2>2
<1>11. UntriedRowsFresh'
  BY <1>1, <1>4 DEF IndexInv, TypeOK, UntriedRowsFresh
<1> QED
  BY <1>6, <1>7, <1>8, <1>9, <1>10, <1>11 DEF IndexInv

\* IndexInv is inductive: one step per action.
LEMMA NextInv == IndexInv /\ [Next]_vars => IndexInv'
<1> SUFFICES ASSUME IndexInv, [Next]_vars PROVE IndexInv'
  OBVIOUS
<1> USE IndexAssumption
    DEF IndexInv, TypeOK, NoStrandedJob, LocksMatchOwners, HoldsEntry, OwnedRowsOpen,
        UntriedRowsFresh, None, Statuses, Live, Terminal, Steps, Goto, rowVars
<1>1. ASSUME NEW j \in Jobs, CreateJob(j) PROVE IndexInv'
  <2>1. TypeOK'
    BY <1>1 DEF CreateJob
  <2>2. NoStrandedJob'
    BY <1>1 DEF CreateJob
  <2>3. LocksMatchOwners'
    BY <1>1 DEF CreateJob
  <2>4. HoldsEntry'
    BY <1>1 DEF CreateJob
  <2>5. OwnedRowsOpen'
    BY <1>1 DEF CreateJob
  <2>6. UntriedRowsFresh'
    BY <1>1 DEF CreateJob
  <2> QED
    BY <2>1, <2>2, <2>3, <2>4, <2>5, <2>6
<1>2. ASSUME NEW j \in Jobs, PurgeJob(j) PROVE IndexInv'
  BY <1>2 DEF PurgeJob
<1>3. ASSUME NEW j \in Jobs, AgeRow(j) PROVE IndexInv'
  BY <1>3 DEF AgeRow, Fault
<1>4. ASSUME NEW e \in Entries, AgeEntry(e) PROVE IndexInv'
  <2>1. TypeOK'
    BY <1>4 DEF AgeEntry, Fault, Entry, Free
  <2>2. NoStrandedJob'
    BY <1>4 DEF AgeEntry, Fault, Entry, Free
  <2>3. LocksMatchOwners'
    BY <1>4 DEF AgeEntry, Fault, Entry, Free
  <2>4. HoldsEntry'
    BY <1>4 DEF AgeEntry, Fault, Entry, Free
  <2>5. OwnedRowsOpen'
    BY <1>4 DEF AgeEntry, Fault, Entry, Free
  <2>6. UntriedRowsFresh'
    BY <1>4 DEF AgeEntry, Fault, Entry, Free
  <2> QED
    BY <2>1, <2>2, <2>3, <2>4, <2>5, <2>6
<1>5. ASSUME NEW w \in Workers, DispatchSelect(w) PROVE IndexInv'
  <2> DEFINE free == {j \in Jobs : Recoverable(j) /\ lock[j] = None}
             batch == Oldest(free, BatchSize)
  <2>1. batch \subseteq {j \in Jobs : Recoverable(j) /\ lock[j] = None}
    BY DEF Oldest
  <2>2. /\ pc[w] = "poll"
        /\ UNCHANGED <<status, attempts, aged, stream, held, faults>>
        /\ \/ pc' = [pc EXCEPT ![w] = "dequeue"] /\ UNCHANGED <<lock, outbox>>
           \/ /\ lock' = [j \in Jobs |-> IF j \in batch THEN w ELSE lock[j]]
              /\ outbox' = [outbox EXCEPT ![w] = batch]
              /\ pc' = [pc EXCEPT ![w] = "dispatching"]
    BY <1>5 DEF DispatchSelect
  <2> HIDE DEF batch
  <2>a. batch \in SUBSET Jobs
    BY <2>1
  <2>3. TypeOK'
    <3> HIDE DEF NoStrandedJob, LocksMatchOwners, HoldsEntry, OwnedRowsOpen, UntriedRowsFresh
    <3>1. lock' \in [Jobs -> Workers \cup {None}] /\ outbox' \in [Workers -> SUBSET Jobs]
      <4>1. CASE UNCHANGED <<lock, outbox>>
        BY <4>1
      <4>2. CASE /\ lock' = [j \in Jobs |-> IF j \in batch THEN w ELSE lock[j]]
                 /\ outbox' = [outbox EXCEPT ![w] = batch]
        BY <4>2, <2>a
      <4> QED
        BY <4>1, <4>2, <2>2
    <3>2. pc' \in [Workers -> Steps]
      BY <2>2
    <3> QED
      BY <2>2, <3>1, <3>2
  <2>4. NoStrandedJob'
    BY <2>2
  <2>5. LocksMatchOwners'
    BY <2>1, <2>2
  <2>6. HoldsEntry'
    BY <2>2
  <2>7. OwnedRowsOpen'
    <3>1. \A k \in batch : attempts[k] < MaxAttempts /\ status[k] \in Live
      BY <2>1 DEF Recoverable
    <3>2. CASE pc' = [pc EXCEPT ![w] = "dequeue"] /\ UNCHANGED <<lock, outbox>>
      BY <2>2, <3>2
    <3>3. CASE /\ outbox' = [outbox EXCEPT ![w] = batch]
               /\ pc' = [pc EXCEPT ![w] = "dispatching"]
      <4>1. ASSUME NEW v \in Workers, v # w
            PROVE  pc'[v] = pc[v] /\ outbox'[v] = outbox[v]
        BY <3>3, <4>1
      <4>2. pc'[w] = "dispatching" /\ outbox'[w] = batch
        BY <3>3
      <4>3. ASSUME NEW v \in Workers, pc'[v] = "executing"
            PROVE  /\ attempts'[held'[v].job] < MaxAttempts
                   /\ status'[held'[v].job] \in Live \cup {"failed"}
        <5>1. pc[v] = "executing"
          BY <4>1, <4>2, <4>3
        <5> QED
          BY <5>1, <2>2
      <4>4. ASSUME NEW v \in Workers, pc'[v] = "dispatching", NEW k \in outbox'[v]
            PROVE  attempts'[k] < MaxAttempts /\ status'[k] \in Live
        <5>1. CASE v = w
          BY <5>1, <4>2, <4>4, <3>1, <2>2
        <5>2. CASE v # w
          <6>1. pc[v] = "dispatching" /\ k \in outbox[v]
            BY <5>2, <4>1, <4>4
          <6>2. attempts[k] < MaxAttempts /\ status[k] \in Live
            BY <6>1
          <6> QED
            BY <6>2, <2>2
        <5> QED
          BY <5>1, <5>2
      <4> QED
        BY <4>3, <4>4
    <3> QED
      BY <2>2, <3>2, <3>3
  <2>8. UntriedRowsFresh'
    BY <2>2
  <2> QED
    BY <2>3, <2>4, <2>5, <2>6, <2>7, <2>8
<1>6. ASSUME NEW w \in Workers, DispatchCommit(w) PROVE IndexInv'
  <2>1. \A j \in outbox[w] : lock[j] = w /\ attempts[j] < MaxAttempts /\ j \in Jobs
    BY <1>6 DEF DispatchCommit
  <2>2. TypeOK'
    BY <1>6 DEF DispatchCommit
  <2>3. NoStrandedJob'
    BY <1>6, <2>1 DEF DispatchCommit
  <2>4. LocksMatchOwners'
    BY <1>6 DEF DispatchCommit
  <2>5. HoldsEntry'
    BY <1>6 DEF DispatchCommit
  <2>6. ASSUME NEW v \in Workers, pc'[v] = "executing"
        PROVE  /\ attempts'[held'[v].job] < MaxAttempts
               /\ status'[held'[v].job] \in Live \cup {"failed"}
    <3>1. v # w /\ pc[v] = "executing" /\ held[v].job \in Jobs
      BY <1>6, <2>6 DEF DispatchCommit, Holding
    <3>2. lock[held[v].job] = v
      <4> HIDE DEF TypeOK, NoStrandedJob, HoldsEntry, OwnedRowsOpen, UntriedRowsFresh
      <4> QED
        BY <3>1
    <3>3. held[v].job \notin outbox[w]
      BY <2>1, <3>1, <3>2
    <3> QED
      BY <1>6, <3>1, <3>3 DEF DispatchCommit
  <2>7. ASSUME NEW v \in Workers, pc'[v] = "dispatching", NEW j \in outbox'[v]
        PROVE  attempts'[j] < MaxAttempts /\ status'[j] \in Live
    BY <1>6, <2>7 DEF DispatchCommit
  <2>8. OwnedRowsOpen'
    BY <2>6, <2>7
  <2>9. UntriedRowsFresh'
    BY <1>6 DEF DispatchCommit
  <2> QED
    BY <2>2, <2>3, <2>4, <2>5, <2>8, <2>9
<1>7. ASSUME NEW w \in Workers, Publish(w) PROVE IndexInv'
  BY <1>7 DEF Publish, Published, Enqueue, Unused, Entry
<1>8. ASSUME NEW w \in Workers, PublishFail(w) PROVE IndexInv'
  BY <1>8 DEF PublishFail, Fault, Published, Enqueue, Unused, Entry
<1>9. ASSUME NEW w \in Workers, Claim(w) PROVE IndexInv'
  BY <1>9 DEF Claim, Deliver, IdleEntries, Entry, Free, Holding
<1>10. ASSUME NEW w \in Workers, ReadNew(w) PROVE IndexInv'
  BY <1>10 DEF ReadNew, Fault, Deliver, Entry, Free, Holding
<1>11. ASSUME NEW w \in Workers, DequeueNone(w) PROVE IndexInv'
  BY <1>11 DEF DequeueNone
<1>12. ASSUME NEW w \in Workers, Skip(w) PROVE IndexInv'
  BY <1>12 DEF Skip
<1>13. ASSUME NEW w \in Workers, RetryLimit(w) PROVE IndexInv'
  BY <1>13 DEF RetryLimit, Takes, Holding
<1>14. ASSUME NEW w \in Workers, MarkStale(w) PROVE IndexInv'
  <2> DEFINE j == held[w].job
  <2>1. j \in Jobs /\ lock[j] = None /\ pc[w] = "claimed"
    BY <1>14 DEF MarkStale, Takes, Holding
  <2>2. \A v \in Workers :
          ~(pc[v] = "executing" /\ held[v].job = j) /\ ~(pc[v] = "dispatching" /\ j \in outbox[v])
    <3> HIDE DEF TypeOK, NoStrandedJob, HoldsEntry, OwnedRowsOpen, UntriedRowsFresh
    <3>1. \A v \in Workers : lock[j] # v
      BY <2>1
    <3> HIDE DEF j
    <3>2. j \in Jobs
      BY <2>1
    <3> QED
      BY <3>1, <3>2
  <2>3. /\ status' = [status EXCEPT ![j] = "stale"]
        /\ pc' = [pc EXCEPT ![w] = "ack"]
        /\ UNCHANGED <<attempts, aged, lock, stream, outbox, held, faults>>
    BY <1>14 DEF MarkStale
  <2> HIDE DEF j
  <2>4. TypeOK' /\ NoStrandedJob' /\ UntriedRowsFresh'
    BY <2>1, <2>3
  <2>5. LocksMatchOwners'
    BY <2>1, <2>3
  <2>6. HoldsEntry'
    BY <2>1, <2>3
  <2>7. ASSUME NEW v \in Workers, pc'[v] = "executing"
        PROVE  status'[held'[v].job] \in Live \cup {"failed"}
    <3>1. pc[v] = "executing" /\ held[v].job \in Jobs \ {j}
      BY <2>2, <2>3, <2>7 DEF Holding
    <3> QED
      BY <2>3, <3>1
  <2>8. ASSUME NEW v \in Workers, pc'[v] = "dispatching", NEW k \in outbox'[v]
        PROVE  status'[k] \in Live
    <3>1. pc[v] = "dispatching" /\ k \in Jobs \ {j}
      BY <2>2, <2>3, <2>8
    <3> QED
      BY <2>3, <2>8, <3>1
  <2>9. OwnedRowsOpen'
    BY <2>3, <2>7, <2>8
  <2> QED
    BY <2>4, <2>5, <2>6, <2>9
<1>15. ASSUME NEW w \in Workers, Start(w) PROVE IndexInv'
  <2>1. TypeOK'
    BY <1>15 DEF Start, Takes, Holding
  <2>2. NoStrandedJob'
    BY <1>15 DEF Start, Takes, Holding
  <2>3. LocksMatchOwners'
    BY <1>15 DEF Start, Takes, Holding
  <2>4. HoldsEntry'
    BY <1>15 DEF Start, Takes, Holding
  <2>5. OwnedRowsOpen'
    BY <1>15 DEF Start, Takes, Holding
  <2>6. UntriedRowsFresh'
    BY <1>15 DEF Start, Takes, Holding
  <2> QED
    BY <2>1, <2>2, <2>3, <2>4, <2>5, <2>6
<1>16. ASSUME NEW w \in Workers, ExecCommit(w) PROVE IndexInv'
  <2>1. PICK s \in {"completed", "failed"} : Commit(w, s)
    BY <1>16 DEF ExecCommit
  <2> HIDE DEF IndexInv, TypeOK, NoStrandedJob, LocksMatchOwners, HoldsEntry, OwnedRowsOpen,
               UntriedRowsFresh, None, Statuses, Live, Terminal, Steps, Goto, rowVars
  <2> QED
    BY <1>16, <2>1, CommitInv DEF ExecCommit
<1>17. ASSUME NEW w \in Workers, ExecRaise(w) PROVE IndexInv'
  <2> DEFINE s == IF attempts[held[w].job] + 1 < MaxAttempts THEN "pending" ELSE "failed"
  <2>1. pc[w] = "executing" /\ Commit(w, s) /\ Goto(w, "retry")
    BY <1>17 DEF ExecRaise
  <2>2. s \in {"completed", "failed", "pending"}
        /\ (s = "pending" => attempts[held[w].job] + 1 < MaxAttempts)
    OBVIOUS
  <2> HIDE DEF s
  <2> HIDE DEF IndexInv, TypeOK, NoStrandedJob, LocksMatchOwners, HoldsEntry, OwnedRowsOpen,
               UntriedRowsFresh, None, Statuses, Live, Terminal, Steps, Goto, rowVars
  <2> QED
    BY <2>1, <2>2, CommitInv
<1>18. ASSUME NEW w \in Workers, ExecAbort(w) PROVE IndexInv'
  BY <1>18 DEF ExecAbort, Fault, Holding
<1>19. ASSUME NEW w \in Workers, RetryEnqueue(w) PROVE IndexInv'
  BY <1>19 DEF RetryEnqueue, Enqueue, Unused, Entry, Holding
<1>20. ASSUME NEW w \in Workers, DeadLetter(w) PROVE IndexInv'
  BY <1>20 DEF DeadLetter, XAck, Holding
<1>21. ASSUME NEW w \in Workers, Acknowledge(w) PROVE IndexInv'
  BY <1>21 DEF Acknowledge, XAck, Holding
<1>22. ASSUME NEW w \in Workers, AckRaises(w) PROVE IndexInv'
  BY <1>22 DEF AckRaises, Fault, Holding
<1>23. ASSUME NEW w \in Workers, Crash(w) PROVE IndexInv'
  BY <1>23 DEF Crash, Fault
<1>24. CASE UNCHANGED vars
  BY <1>24 DEF vars
<1> QED
  BY <1>1, <1>2, <1>3, <1>4, <1>5, <1>6, <1>7, <1>8, <1>9, <1>10, <1>11,
     <1>12, <1>13, <1>14, <1>15, <1>16, <1>17, <1>18, <1>19, <1>20, <1>21, <1>22, <1>23, <1>24
  DEF Next, Work, Break, Dispatch, Dequeue, Execute, Take, Settle

\* The inductive invariant holds in every reachable state.
LEMMA Invariance == Spec => []IndexInv
  BY InitInv, NextInv, PTL DEF Spec

-----------------------------------------------------------------------------
\* The committed rows, the stream and every worker's memory stay well typed;
\* in particular no row is ever charged more than MaxAttempts attempts
\* (execute_index_document_job, jobs.py 257-273).
THEOREM TypeCorrect == Spec => []TypeOK
  BY Invariance, PTL DEF IndexInv

\* For any number of workers, crashes, timeouts and duplicate deliveries, a row
\* that is not done can be dispatched again (index_dispatch.py 34-46).
THEOREM JobsRecoverable == Spec => []NoStrandedJob
  BY Invariance, PTL DEF IndexInv

\* Row locks are held by exactly the transaction that works on the row, hence
\* by one worker at a time.
THEOREM LockSafety == Spec => []LocksMatchOwners
  BY Invariance, PTL DEF IndexInv

-----------------------------------------------------------------------------
\* The actions that may change a committed status or attempt counter; every
\* other step leaves both as they are.
LEMMA RowSteps ==
  ASSUME IndexInv, [Next]_vars
  PROVE  \/ UNCHANGED <<status, attempts>>
         \/ \E j \in Jobs : CreateJob(j) \/ PurgeJob(j)
         \/ \E w \in Workers : \/ DispatchCommit(w) \/ PublishFail(w) \/ RetryLimit(w)
                               \/ MarkStale(w) \/ ExecCommit(w) \/ ExecRaise(w)
  BY DEF Next, vars, Work, Break, Dispatch, Dequeue, Execute, Take, Settle, rowVars,
     AgeRow, AgeEntry, DispatchSelect, Publish, Claim, ReadNew, DequeueNone, Skip, Start,
     ExecAbort, RetryEnqueue, DeadLetter, Acknowledge, AckRaises, Crash

\* Attempt counters are numbers.
LEMMA AttemptsNat ==
  ASSUME IndexInv, NEW j \in Jobs
  PROVE  attempts[j] \in Nat
  BY IndexAssumption DEF IndexInv, TypeOK

\* A locked row belongs to a worker that has found it open.
LEMMA LockedRowsOpen ==
  ASSUME IndexInv, NEW j \in Jobs, lock[j] # None
  PROVE  status[j] \in Live \cup {"failed"} /\ attempts[j] < MaxAttempts
<1>1. PICK w \in Workers : lock[j] = w
  BY DEF IndexInv, TypeOK
<1> QED
  BY <1>1 DEF IndexInv, LocksMatchOwners, OwnedRowsOpen

\* The row an execution commits is locked by that worker.
LEMMA ExecutedRow ==
  ASSUME IndexInv, NEW w \in Workers, pc[w] = "executing"
  PROVE  held[w].job \in Jobs /\ lock[held[w].job] = w
  BY DEF IndexInv, HoldsEntry, Holding, LocksMatchOwners

\* The row a dispatcher commits is locked by that worker and live.
LEMMA DispatchedRow ==
  ASSUME IndexInv, NEW w \in Workers, pc[w] = "dispatching", NEW j \in outbox[w]
  PROVE  j \in Jobs /\ lock[j] = w /\ status[j] \in Live
  BY DEF IndexInv, TypeOK, LocksMatchOwners, OwnedRowsOpen

\* A row changes hands only through its lock: what a transaction read under the
\* lock is what it overwrites, for every interleaving of workers, dispatchers,
\* purges and redeliveries.
THEOREM OwnerWrites == Spec => OnlyTheOwnerWrites
<1> DEFINE Held == \A j \in Jobs, w \in Workers :
                     lock[j] = w /\ lock'[j] = w =>
                       status'[j] = status[j] /\ attempts'[j] = attempts[j]
<1>1. IndexInv /\ [Next]_vars => Held
  <2> SUFFICES ASSUME IndexInv, [Next]_vars, NEW k \in Jobs, NEW v \in Workers,
                      lock[k] = v, lock'[k] = v
               PROVE  status'[k] = status[k] /\ attempts'[k] = attempts[k]
    OBVIOUS
  <2> USE IndexAssumption DEF None
  <2>0. lock[k] # None /\ status[k] \in Live \cup {"failed"}
    BY LockedRowsOpen
  <2>1. CASE UNCHANGED <<status, attempts>>
    BY <2>1
  <2>2. ASSUME NEW j \in Jobs, CreateJob(j) \/ PurgeJob(j)
        PROVE  status'[k] = status[k] /\ attempts'[k] = attempts[k]
    <3>1. k # j /\ UNCHANGED attempts
      BY <2>0, <2>2 DEF CreateJob, PurgeJob, Live
    <3> QED
      BY <3>1, <2>2 DEF CreateJob, PurgeJob, IndexInv, TypeOK
  <2>3. ASSUME NEW w \in Workers, DispatchCommit(w)
        PROVE  status'[k] = status[k] /\ attempts'[k] = attempts[k]
    <3>1. k \notin outbox[w]
      BY <2>3, DispatchedRow DEF DispatchCommit
    <3> QED
      BY <3>1, <2>3 DEF DispatchCommit
  <2>4. ASSUME NEW w \in Workers, PublishFail(w)
        PROVE  status'[k] = status[k] /\ attempts'[k] = attempts[k]
    BY <2>0, <2>4 DEF PublishFail, IndexInv, TypeOK
  <2>5. ASSUME NEW w \in Workers, RetryLimit(w) \/ MarkStale(w)
        PROVE  status'[k] = status[k] /\ attempts'[k] = attempts[k]
    <3>1. k # held[w].job
      BY <2>0, <2>5 DEF RetryLimit, MarkStale, Takes
    <3> QED
      BY <3>1, <2>5 DEF RetryLimit, MarkStale, IndexInv, TypeOK
  <2>6. ASSUME NEW w \in Workers, ExecCommit(w) \/ ExecRaise(w)
        PROVE  status'[k] = status[k] /\ attempts'[k] = attempts[k]
    <3>1. PICK s : Commit(w, s)
      BY <2>6 DEF ExecCommit, ExecRaise
    <3>2. pc[w] = "executing"
      BY <2>6 DEF ExecCommit, ExecRaise
    <3>3. k # held[w].job
      BY <3>1, <3>2, ExecutedRow DEF Commit, IndexInv, TypeOK
    <3> QED
      BY <3>1, <3>3 DEF Commit, IndexInv, TypeOK
  <2> QED
    BY <2>1, <2>2, <2>3, <2>4, <2>5, <2>6, RowSteps
<1>2. IndexInv /\ [Next]_vars => [Held]_vars
  BY <1>1
<1>3. [][Held]_vars <=> OnlyTheOwnerWrites
  BY DEF OnlyTheOwnerWrites
<1> QED
  BY <1>2, <1>3, Invariance, PTL DEF Spec

\* No redelivery, retry or dispatch ever reopens a completed or stale row.
THEOREM SettledStay == Spec => SettledRowsStay
<1> DEFINE Stays == \A j \in Jobs : status[j] \in {"completed", "stale"} =>
                      status'[j] \in {status[j], "purged"} /\ attempts'[j] = attempts[j]
<1>1. IndexInv /\ [Next]_vars => Stays
  <2> SUFFICES ASSUME IndexInv, [Next]_vars, NEW k \in Jobs, status[k] \in {"completed", "stale"}
               PROVE  status'[k] \in {status[k], "purged"} /\ attempts'[k] = attempts[k]
    OBVIOUS
  <2> USE IndexAssumption DEF None
  <2>0. lock[k] = None
    BY LockedRowsOpen DEF Live
  <2>1. CASE UNCHANGED <<status, attempts>>
    BY <2>1
  <2>2. ASSUME NEW j \in Jobs, CreateJob(j) \/ PurgeJob(j)
        PROVE  status'[k] \in {status[k], "purged"} /\ attempts'[k] = attempts[k]
    BY <2>2 DEF CreateJob, PurgeJob, IndexInv, TypeOK
  <2>3. ASSUME NEW w \in Workers, DispatchCommit(w)
        PROVE  status'[k] \in {status[k], "purged"} /\ attempts'[k] = attempts[k]
    <3>1. k \notin outbox[w]
      BY <2>3, DispatchedRow DEF DispatchCommit, Live
    <3> QED
      BY <3>1, <2>3 DEF DispatchCommit
  <2>4. ASSUME NEW w \in Workers, PublishFail(w)
        PROVE  status'[k] \in {status[k], "purged"} /\ attempts'[k] = attempts[k]
    BY <2>4 DEF PublishFail, IndexInv, TypeOK
  <2>5. ASSUME NEW w \in Workers, RetryLimit(w) \/ MarkStale(w)
        PROVE  status'[k] \in {status[k], "purged"} /\ attempts'[k] = attempts[k]
    <3>1. k # held[w].job
      BY <2>5 DEF RetryLimit, MarkStale, Takes, Live
    <3> QED
      BY <3>1, <2>5 DEF RetryLimit, MarkStale, IndexInv, TypeOK
  <2>6. ASSUME NEW w \in Workers, ExecCommit(w) \/ ExecRaise(w)
        PROVE  status'[k] \in {status[k], "purged"} /\ attempts'[k] = attempts[k]
    <3>1. PICK s : Commit(w, s)
      BY <2>6 DEF ExecCommit, ExecRaise
    <3>2. pc[w] = "executing"
      BY <2>6 DEF ExecCommit, ExecRaise
    <3>3. k # held[w].job
      BY <2>0, <3>2, ExecutedRow
    <3> QED
      BY <3>1, <3>3 DEF Commit, IndexInv, TypeOK
  <2> QED
    BY <2>1, <2>2, <2>3, <2>4, <2>5, <2>6, RowSteps
<1>2. IndexInv /\ [Next]_vars => [Stays]_vars
  BY <1>1
<1>3. [][Stays]_vars <=> SettledRowsStay
  BY DEF SettledRowsStay
<1> QED
  BY <1>2, <1>3, Invariance, PTL DEF Spec

-----------------------------------------------------------------------------
\* Seen from the table the pipeline is the abstract lifecycle: outcomes are
\* recorded one row at a time and charged one attempt each, dispatching and
\* publishing are invisible, and the retry-limit branch never fires on a row
\* that is still live.
THEOREM Refinement == Spec => ImplementsLifecycle
<1> DEFINE ph == [j \in Jobs |-> IF status[j] \in Live THEN "live" ELSE status[j]]
<1>1. Init => Lifecycle!Init
  BY DEF Init, Lifecycle!Init, Live
<1>2. IndexInv /\ [Next]_vars => [Lifecycle!Next]_(Lifecycle!vars)
  <2> SUFFICES ASSUME IndexInv, [Next]_vars
               PROVE  Lifecycle!Next \/ UNCHANGED <<ph, attempts>>
    BY DEF Lifecycle!vars
  <2> USE IndexAssumption DEF None
  <2>1. ASSUME UNCHANGED <<status, attempts>> PROVE UNCHANGED <<ph, attempts>>
    BY <2>1
  <2>2. ASSUME NEW j \in Jobs, CreateJob(j) PROVE Lifecycle!Submit(j)
    BY <2>2 DEF CreateJob, Lifecycle!Submit, IndexInv, TypeOK, Live
  <2>3. ASSUME NEW j \in Jobs, PurgeJob(j) PROVE Lifecycle!Remove(j)
    BY <2>3 DEF PurgeJob, Lifecycle!Remove, IndexInv, TypeOK, Live
  <2>4. ASSUME NEW w \in Workers, DispatchCommit(w) PROVE UNCHANGED <<ph, attempts>>
    <3>1. \A j \in outbox[w] : status[j] \in Live
      BY <2>4, DispatchedRow DEF DispatchCommit
    <3> QED
      BY <2>4, <3>1 DEF DispatchCommit, Live, IndexInv, TypeOK
  <2>5. ASSUME NEW w \in Workers, PublishFail(w) PROVE UNCHANGED <<ph, attempts>>
    BY <2>5 DEF PublishFail, Live, IndexInv, TypeOK
  <2>6. ASSUME NEW w \in Workers, RetryLimit(w) PROVE UNCHANGED <<ph, attempts>>
    <3>1. held[w].job \in Jobs
      BY <2>6 DEF RetryLimit, Takes, IndexInv, HoldsEntry, Holding
    <3>2. status[held[w].job] = "failed"
      <4> DEFINE j == held[w].job
      <4>0. status[j] \in Live \cup {"failed"} /\ attempts[j] >= MaxAttempts
        BY <2>6 DEF RetryLimit, Takes
      <4>a. attempts[j] \in Nat
        BY <3>1, AttemptsNat
      <4>1. ~(attempts[j] < MaxAttempts)
        BY <4>0, <4>a
      <4>2. status[j] \notin {"absent", "purged"} \cup Terminal => attempts[j] < MaxAttempts
        BY <3>1 DEF IndexInv, NoStrandedJob
      <4> HIDE DEF j
      <4> QED
        BY <4>0, <4>1, <4>2 DEF Live, Terminal, j
    <3> QED
      BY <2>6, <3>1, <3>2 DEF RetryLimit, IndexInv, TypeOK
  <2>7. ASSUME NEW w \in Workers, MarkStale(w) PROVE Lifecycle!Next
    <3>1. PICK j \in Jobs : j = held[w].job
      BY <2>7 DEF MarkStale, Takes, IndexInv, HoldsEntry, Holding
    <3>2. Lifecycle!Retire(j)
      BY <2>7, <3>1 DEF MarkStale, Takes, Lifecycle!Retire, IndexInv, TypeOK, Live
    <3> QED
      BY <3>2 DEF Lifecycle!Next
  <2>8. ASSUME NEW w \in Workers, ExecCommit(w) \/ ExecRaise(w)
        PROVE  Lifecycle!Next
    <3>1. pc[w] = "executing"
      BY <2>8 DEF ExecCommit, ExecRaise
    <3>0. PICK j \in Jobs : j = held[w].job
      BY <3>1, ExecutedRow
    <3>2. PICK s \in {"pending", "completed", "failed"} :
            Commit(w, s) /\ (s = "pending" => attempts[j] + 1 < MaxAttempts)
      BY <2>8, <3>0 DEF ExecCommit, ExecRaise
    <3>3. j \in Jobs /\ attempts[j] < MaxAttempts /\ status[j] \in Live \cup {"failed"}
      BY <3>0, <3>1, ExecutedRow, LockedRowsOpen, IndexAssumption
    <3>4. /\ status' = [status EXCEPT ![j] = s]
          /\ attempts' = [attempts EXCEPT ![j] = attempts[j] + 1]
      BY <3>0, <3>2 DEF Commit
    <3> DEFINE p == IF s \in Live THEN "live" ELSE s
    <3>5. ph' = [ph EXCEPT ![j] = p]
      BY <3>3, <3>4 DEF IndexInv, TypeOK
    <3>6. ph[j] \in {"live", "failed"} /\ p \in {"live", "completed", "failed"}
      BY <3>2, <3>3 DEF Live
    <3>7. p = "live" => attempts[j] + 1 < MaxAttempts
      BY <3>2 DEF Live
    <3>8. Lifecycle!Attempt(j)
      <4> HIDE DEF p
      <4> QED
        BY <3>3, <3>4, <3>5, <3>6, <3>7 DEF Lifecycle!Attempt
    <3> QED
      BY <3>8 DEF Lifecycle!Next
  <2> QED
    <3>1. ASSUME NEW j \in Jobs, CreateJob(j) \/ PurgeJob(j) PROVE Lifecycle!Next
      BY <3>1, <2>2, <2>3 DEF Lifecycle!Next
    <3> HIDE DEF ph
    <3> QED
      BY <3>1, <2>1, <2>4, <2>5, <2>6, <2>7, <2>8, RowSteps
<1> QED
  BY <1>1, <1>2, Invariance, PTL DEF Spec, ImplementsLifecycle, Lifecycle!Spec
=============================================================================
