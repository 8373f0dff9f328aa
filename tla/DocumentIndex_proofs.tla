------------------------ MODULE DocumentIndex_proofs ------------------------
(***************************************************************************)
(* Proofs about DocumentIndex, for any number of jobs, contents and        *)
(* executions of a job.                                                    *)
(***************************************************************************)
EXTENDS DocumentIndex, TLAPS

\* The records of exec.
Execution == [pc : Steps, try : 0 .. MaxTries,
              current : {Hash[x] : x \in Jobs} \cup {None}, replaced : SUBSET Chunks]

Holds(x) == exec[x].pc \in {"written", "upserted"}

\* The row, or its unique key, is locked by whoever has written it and not yet
\* committed; the purge locks a row that exists.
LockMatchesWriter ==
  /\ \A x \in Jobs : Holds(x) <=> docLock = x
  /\ docLock = Purge => purge = "rows"

\* What a writer saw of the document and its chunks still holds when it commits.
WriterSawAll ==
  \A x \in Jobs : Holds(x) => exec[x].replaced = chunks

\* An execution past its first statement has a number.
Numbered == \A x \in Jobs : exec[x].pc \notin {"idle", "done"} => exec[x].try > 0

\* What was published is there when it is committed, unless an operation that
\* is under way, or that failed, has deleted it.
PublishedOrTorn ==
  \A x \in Jobs : exec[x].pc = "upserted" =>
    \/ Created(x) \in vectors
    \/ torn
    \/ purge # "no"
    \/ \E y \in Jobs \ {x} : Tears(y)

DocumentInv ==
  /\ TypeOK
  /\ LockMatchesWriter
  /\ WriterSawAll
  /\ Numbered
  /\ PublishedOrTorn
  /\ ChunksMatchDocument
  /\ VectorsComplete

-----------------------------------------------------------------------------
\* The initial state satisfies the invariant.
LEMMA InitInv == Init => DocumentInv
<1> SUFFICES ASSUME Init PROVE DocumentInv
  OBVIOUS
<1> USE DocumentAssumption DEF Init
<1>1. exec \in [Jobs -> Execution]
  <2>1. [pc |-> "idle", try |-> 0, current |-> None, replaced |-> {}] \in Execution
    BY DEF Execution, Steps
  <2> QED
    BY <2>1
<1>2. TypeOK
  BY <1>1 DEF TypeOK, Execution
<1>3. LockMatchesWriter /\ WriterSawAll /\ Numbered /\ PublishedOrTorn
  BY DEF LockMatchesWriter, WriterSawAll, Numbered, Holds, PublishedOrTorn
<1>4. ChunksMatchDocument /\ VectorsComplete
  BY DEF ChunksMatchDocument, VectorsComplete
<1> QED
  BY <1>2, <1>3, <1>4 DEF DocumentInv

\* The identity of the chunks that an execution creates.
LEMMA CreatedType ==
  ASSUME TypeOK, Numbered, NEW x \in Jobs, exec[x].pc \notin {"idle", "done"}
  PROVE  Created(x) \in Chunks /\ Created(x)[1] = x
<1>1. exec[x].try \in 1 .. MaxTries
  BY DocumentAssumption DEF TypeOK, Numbered
<1> QED
  BY <1>1 DEF Created, Chunks

\* Ending an execution keeps the records of exec well formed.
LEMMA EndsAtType ==
  ASSUME TypeOK, NEW x \in Jobs, NEW step \in Steps, EndsAt(x, step)
  PROVE  exec' \in [Jobs -> Execution]
<1>1. exec \in [Jobs -> Execution]
  BY DEF TypeOK, Execution
<1>2. [exec[x] EXCEPT !.pc = step, !.current = None, !.replaced = {}] \in Execution
  BY <1>1 DEF Execution
<1> QED
  BY <1>1, <1>2 DEF EndsAt

\* DocumentInv is inductive: one step per action.
LEMMA NextInv == DocumentInv /\ [Next]_vars => DocumentInv'
<1> SUFFICES ASSUME DocumentInv, [Next]_vars PROVE DocumentInv'
  OBVIOUS
<1> USE DocumentAssumption DEF DocumentInv, Steps, Holds
<1>1. ASSUME NEW x \in Jobs, Read(x) PROVE DocumentInv'
  <2>1. TypeOK'
    BY <1>1 DEF Read, TypeOK
  <2>2. LockMatchesWriter' /\ WriterSawAll' /\ Numbered'
    BY <1>1 DEF Read, TypeOK, LockMatchesWriter, WriterSawAll, Numbered
  <2>3. PublishedOrTorn'
    BY <1>1 DEF Read, TypeOK, PublishedOrTorn, Tears, Created
  <2>4. ChunksMatchDocument' /\ VectorsComplete'
    BY <1>1 DEF Read, TypeOK, ChunksMatchDocument, VectorsComplete, Tears
  <2> QED
    BY <2>1, <2>2, <2>3, <2>4
<1>2. ASSUME NEW x \in Jobs, SkipUnchanged(x) PROVE DocumentInv'
  <2>1. TypeOK'
    BY <1>2 DEF SkipUnchanged, TypeOK
  <2>2. LockMatchesWriter' /\ WriterSawAll' /\ Numbered'
    BY <1>2 DEF SkipUnchanged, TypeOK, LockMatchesWriter, WriterSawAll, Numbered
  <2>3. PublishedOrTorn'
    BY <1>2 DEF SkipUnchanged, TypeOK, PublishedOrTorn, Tears, Created
  <2>4. ChunksMatchDocument' /\ VectorsComplete'
    BY <1>2 DEF SkipUnchanged, TypeOK, ChunksMatchDocument, VectorsComplete, Tears
  <2> QED
    BY <2>1, <2>2, <2>3, <2>4
<1>3. ASSUME NEW x \in Jobs, ClearVectors(x) PROVE DocumentInv'
  <2>1. TypeOK'
    BY <1>3 DEF ClearVectors, TypeOK
  <2>2. LockMatchesWriter' /\ WriterSawAll' /\ Numbered'
    BY <1>3 DEF ClearVectors, TypeOK, LockMatchesWriter, WriterSawAll, Numbered
  <2>3. PublishedOrTorn'
    BY <1>3 DEF ClearVectors, TypeOK, PublishedOrTorn, Tears, Created
  <2>4. ChunksMatchDocument' /\ VectorsComplete'
    BY <1>3 DEF ClearVectors, TypeOK, ChunksMatchDocument, VectorsComplete, Tears
  <2> QED
    BY <2>1, <2>2, <2>3, <2>4
<1>4. ASSUME NEW x \in Jobs, Write(x) PROVE DocumentInv'
  <2>1. TypeOK'
    <3>1. exec \in [Jobs -> Execution] /\ chunks \in SUBSET Chunks
      BY DEF TypeOK, Execution
    <3>2. [exec[x] EXCEPT !.pc = "written", !.replaced = chunks] \in Execution
      BY <3>1 DEF Execution
    <3>3. exec' \in [Jobs -> Execution]
      BY <1>4, <3>1, <3>2 DEF Write
    <3> QED
      BY <1>4, <3>3 DEF Write, TypeOK, Execution
  <2>2. LockMatchesWriter' /\ WriterSawAll' /\ Numbered'
    BY <1>4 DEF Write, TypeOK, LockMatchesWriter, WriterSawAll, Numbered
  <2>3. PublishedOrTorn'
    BY <1>4 DEF Write, TypeOK, PublishedOrTorn, Tears, Created
  <2>4. ChunksMatchDocument' /\ VectorsComplete'
    BY <1>4 DEF Write, TypeOK, ChunksMatchDocument, VectorsComplete, Tears
  <2> QED
    BY <2>1, <2>2, <2>3, <2>4
<1>5. ASSUME NEW x \in Jobs, Upsert(x) PROVE DocumentInv'
  <2>0. Created(x) \in Chunks
    BY <1>5, CreatedType DEF Upsert
  <2>1. TypeOK'
    BY <1>5, <2>0 DEF Upsert, TypeOK
  <2>2. LockMatchesWriter' /\ WriterSawAll' /\ Numbered'
    BY <1>5 DEF Upsert, TypeOK, LockMatchesWriter, WriterSawAll, Numbered
  <2>3. PublishedOrTorn'
    BY <1>5 DEF Upsert, TypeOK, PublishedOrTorn, Tears, Created
  <2>4. ChunksMatchDocument' /\ VectorsComplete'
    BY <1>5 DEF Upsert, TypeOK, ChunksMatchDocument, VectorsComplete, Tears
  <2> QED
    BY <2>1, <2>2, <2>3, <2>4
<1>6. ASSUME NEW x \in Jobs, Commit(x) PROVE DocumentInv'
  <2>0. Created(x) \in Chunks /\ Created(x)[1] = x /\ chunks' = {Created(x)}
    BY <1>6, CreatedType DEF Commit, WriterSawAll
  <2>1. TypeOK'
    <3>1. exec' \in [Jobs -> Execution]
      BY <1>6, EndsAtType DEF Commit
    <3> QED
      BY <1>6, <2>0, <3>1 DEF Commit, TypeOK, Execution
  <2>2. LockMatchesWriter' /\ WriterSawAll' /\ Numbered'
    BY <1>6 DEF Commit, EndsAt, TypeOK, LockMatchesWriter, WriterSawAll, Numbered
  <2>3. PublishedOrTorn'
    BY <1>6 DEF Commit, EndsAt, TypeOK, LockMatchesWriter, PublishedOrTorn, Tears, Created
  <2>4. ChunksMatchDocument'
    BY <1>6, <2>0 DEF Commit, ChunksMatchDocument
  <2>5. VectorsComplete'
    <3>1. ASSUME NEW y \in Jobs \ {x} PROVE Tears(y)' <=> Tears(y)
      BY <1>6, <3>1 DEF Commit, EndsAt, TypeOK, Tears
    <3> QED
      BY <1>6, <2>0, <3>1 DEF Commit, PublishedOrTorn, VectorsComplete
  <2> QED
    BY <2>1, <2>2, <2>3, <2>4, <2>5
<1>7. ASSUME NEW x \in Jobs, Fail(x) PROVE DocumentInv'
  <2>0. exec[x].pc \notin {"idle", "done"} /\ Created(x) \in Chunks
    BY <1>7, CreatedType DEF Fail
  <2>1. TypeOK'
    <3>1. exec' \in [Jobs -> Execution]
      BY <1>7, EndsAtType DEF Fail
    <3> QED
      BY <1>7, <2>0, <3>1 DEF Fail, Release, TypeOK, Execution
  <2>2. LockMatchesWriter' /\ WriterSawAll' /\ Numbered'
    BY <1>7 DEF Fail, EndsAt, Release, TypeOK, LockMatchesWriter, WriterSawAll, Numbered
  <2>3. ASSUME NEW y \in Jobs \ {x}
        PROVE  (Tears(y)' <=> Tears(y)) /\ exec'[y] = exec[y] /\ Created(y)' = Created(y)
    BY <1>7, <2>3 DEF Fail, EndsAt, TypeOK, Tears, Created
  <2>a. exec'[x].pc = "idle" /\ ~Tears(x)'
    BY <1>7 DEF Fail, EndsAt, TypeOK, Tears
  <2>b. torn' \/ (vectors \subseteq vectors' /\ ~Tears(x) /\ torn' = torn)
    BY <1>7 DEF Fail, TypeOK
  <2>4. PublishedOrTorn'
    BY <1>7, <2>3, <2>a, <2>b DEF Fail, PublishedOrTorn
  <2>5. ChunksMatchDocument' /\ VectorsComplete'
    BY <1>7, <2>3, <2>a, <2>b DEF Fail, ChunksMatchDocument, VectorsComplete
  <2> QED
    BY <2>1, <2>2, <2>4, <2>5
<1>8. ASSUME NEW x \in Jobs, Again(x) PROVE DocumentInv'
  <2>1. TypeOK'
    <3>1. exec' \in [Jobs -> Execution]
      BY <1>8, EndsAtType DEF Again
    <3> QED
      BY <1>8, <3>1 DEF Again, TypeOK, Execution
  <2>2. LockMatchesWriter' /\ WriterSawAll' /\ Numbered'
    BY <1>8 DEF Again, EndsAt, TypeOK, LockMatchesWriter, WriterSawAll, Numbered
  <2>3. PublishedOrTorn'
    BY <1>8 DEF Again, EndsAt, TypeOK, PublishedOrTorn, Tears, Created
  <2>4. ChunksMatchDocument' /\ VectorsComplete'
    BY <1>8 DEF Again, EndsAt, TypeOK, ChunksMatchDocument, VectorsComplete, Tears
  <2> QED
    BY <2>1, <2>2, <2>3, <2>4
<1> USE DEF TypeOK, LockMatchesWriter, WriterSawAll, Numbered, PublishedOrTorn,
            ChunksMatchDocument, VectorsComplete
<1>9. CASE PurgeVectors
  BY <1>9 DEF PurgeVectors
<1>10. CASE PurgeRows
  BY <1>10 DEF PurgeRows, Created, Tears
<1>11. CASE PurgeCommit
  BY <1>11 DEF PurgeCommit
<1>12. CASE PurgeFails
  BY <1>12 DEF PurgeFails, Release
<1>13. CASE UNCHANGED vars
  BY <1>13 DEF vars, Created, Tears
<1> QED
  BY <1>1, <1>2, <1>3, <1>4, <1>5, <1>6, <1>7, <1>8, <1>9, <1>10, <1>11, <1>12, <1>13
  DEF Next, Index

-----------------------------------------------------------------------------
\* DocumentInv holds in every reachable state.
THEOREM Invariance == Spec => []DocumentInv
  BY InitInv, NextInv, PTL DEF Spec

\* Every variable keeps its type.
THEOREM TypeCorrect == Spec => []TypeOK
<1>1. DocumentInv => TypeOK
  BY DEF DocumentInv
<1> QED
  BY <1>1, Invariance, PTL

\* However the executions of _index_one_document for one document overlap, fail
\* and are repeated, its chunks rows are those of one execution, and of the
\* content the documents row names.
THEOREM ChunksMatch == Spec => []ChunksMatchDocument
<1>1. DocumentInv => ChunksMatchDocument
  BY DEF DocumentInv
<1> QED
  BY <1>1, Invariance, PTL

\* Executions of _index_one_document that overlap and succeed never leave a
\* chunk without its vectors.
THEOREM VectorsAreComplete == Spec => []VectorsComplete
<1>1. DocumentInv => VectorsComplete
  BY DEF DocumentInv
<1> QED
  BY <1>1, Invariance, PTL
=============================================================================
