-------------------------- MODULE SourceSync_proofs --------------------------
(***************************************************************************)
(* Proofs about SourceSync, for any number of syncs, documents and finish  *)
(* requests: the syncs of a source may overlap in any way.                 *)
(***************************************************************************)
EXTENDS SourceSync, TLAPS

-----------------------------------------------------------------------------
(* Rows                                                                     *)

SourceStatus == {"created", "syncing", "indexing", "ready", "error"}
LastStatus   == {None, "running", "running_with_errors", "indexing"} \cup Finals

Counts == 0..MaxErrors

Batches  == [pc : {"idle", "read"}, jobs : SUBSET Jobs, base : Counts, errors : Counts,
             running : BOOLEAN, loaded : Source \cup {None}]
Finishes == [pc : {"idle", "read", "counted"}, sync : Syncs \cup {None},
             status : Finals \cup {None}, base : Counts, errors : Counts,
             pending : BOOLEAN, loaded : Source \cup {None}]
Execs    == [pc : {"idle", "read", "flushed"}, result : {None, "completed", "failed"},
             base : Counts, finished : BOOLEAN, report : {None, "error", "ready"},
             loaded : Source \cup {None}]

\* An update of the source row yields a source row; its status is the new one
\* unless that is the one the transaction had loaded.
LEMMA WriteIs ==
  ASSUME NEW row \in Source, NEW loaded, NEW new \in Source
  PROVE  /\ Write(row, loaded, new) \in Source
         /\ Write(row, loaded, new).status
              = IF new.status = loaded.status THEN row.status ELSE new.status
<1>1. /\ DOMAIN row = {"status", "last"} /\ row.status \in SourceStatus /\ row.last \in LastStatus
      /\ new.status \in SourceStatus /\ new.last \in LastStatus
  BY DEF Source, SourceStatus, LastStatus
<1> DEFINE w == Write(row, loaded, new)
<1>2. w = [column \in {"status", "last"} |->
             IF new[column] = loaded[column] THEN row[column] ELSE new[column]]
  BY <1>1 DEF Write, Column
<1>3. w["status"] = IF new.status = loaded.status THEN row.status ELSE new.status
  BY <1>2
<1>4. w["last"] = IF new.last = loaded.last THEN row.last ELSE new.last
  BY <1>2
<1>5. w = [status |-> w["status"], last |-> w["last"]]
  BY <1>2
<1> HIDE DEF w
<1> QED
  BY <1>1, <1>3, <1>4, <1>5 DEF Source, SourceStatus, LastStatus, w

\* Updates of rows keep their types.
LEMMA SyncRecord ==
  ASSUME NEW x \in Sync, NEW e \in Counts
  PROVE  /\ [x EXCEPT !.errors = e] \in Sync
         /\ [x EXCEPT !.errors = e].status = x.status /\ [x EXCEPT !.errors = e].errors = e
BY DEF Sync, Counts

\* Adding n errors to a loaded count: nothing is written for none, and a
\* positive count for any.
LEMMA CountIs ==
  ASSUME NEW current \in Counts, NEW base \in Counts, NEW n \in Nat, base + n <= MaxErrors
  PROVE  /\ Column(current, base, base + n) \in Counts
         /\ n = 0 => Column(current, base, base + n) = current
         /\ n > 0 => Column(current, base, base + n) > 0
BY SyncAssumption DEF Column, Counts

\* The empty records have the types of the tables.
LEMMA EmptyRecords ==
  /\ NoBatch \in Batches /\ NoFinish \in Finishes /\ NoExec \in Execs
  /\ NoBatch.pc = "idle" /\ NoBatch.jobs = {} /\ NoBatch.base = 0 /\ NoBatch.errors = 0
  /\ NoFinish.pc = "idle" /\ NoExec.pc = "idle"
BY SyncAssumption DEF NoBatch, NoFinish, NoExec, Batches, Finishes, Execs, None, Counts

-----------------------------------------------------------------------------
(* The invariant                                                            *)

\* What TypeOK leaves open.
DataTypes ==
  /\ batch \in [Syncs -> Batches]
  /\ finish \in [Requests -> Finishes]
  /\ exec \in [Jobs -> Execs]
  /\ \A s \in Syncs : batch[s].pc # "idle" => batch[s].loaded \in Source
  /\ \A r \in Requests : finish[r].pc # "idle" =>
       finish[r].loaded \in Source /\ finish[r].status \in Finals
  /\ \A s \in Syncs : batch[s].base + batch[s].errors <= MaxErrors
  /\ \A j \in Jobs : exec[j].pc # "idle" =>
       exec[j].result # None /\ exec[j].base + Errors(exec[j].result) <= MaxErrors

\* Nothing refers to a sync before start_sync has created it.
NotBefore ==
  \A s \in Syncs : client[s] \in {"idle", "starting"} =>
    /\ sync[s] = [status |-> "absent", errors |-> 0]
    /\ batch[s].pc = "idle"
    /\ \A r \in Requests : finish[r].pc # "idle" => finish[r].sync # s
    /\ \A j \in JobsOf(s) : job[j] = "absent" /\ exec[j].pc = "idle"

\* A batch only carries documents of its own sync.
Carried == \A s \in Syncs : \A j \in batch[s].jobs : SyncOf[j] = s

\* Who has flushed the sync row holds it until the commit.
LockHeld ==
  /\ \A j \in Jobs : exec[j].pc = "flushed" => syncLock[SyncOf[j]] = j
  /\ \A r \in Requests : finish[r].pc = "counted" => syncLock[finish[r].sync] = r

\* A sync that an execution saw finished is finished.
SawFinished ==
  \A j \in Jobs : exec[j].pc # "idle" /\ exec[j].finished => Finished(SyncOf[j])

\* The source has a reason to wait for s.
Unsettled(s) == Pending(s) \/ s \in missed

\* What finish_sync counted is still true when it commits.
CountHolds ==
  \A r \in Requests : finish[r].pc = "counted" /\ finish[r].pending => Unsettled(finish[r].sync)

\* An execution that does not report leaves it to a job that is still
\* unfinished, or to nobody when some job ended unreported.
LeftToAnother ==
  \A j \in Jobs : exec[j].pc = "flushed" /\ exec[j].finished /\ exec[j].report = None =>
    \/ SyncOf[j] \in missed
    \/ \E k \in JobsOf(SyncOf[j]) \ {j} : job[k] = "live"

\* The executions that are about to report for s have loaded an indexing
\* source, so that their report is written.
ReportsReach(s) ==
  \A j \in JobsOf(s) : exec[j].pc = "flushed" => exec[j].loaded.status = "indexing"

\* Why IndexingSettles holds: some finished sync is unsettled, and what will
\* settle it reaches the source.
Settles ==
  source.status = "indexing" =>
    \E s \in Syncs : /\ Finished(s)
                     /\ s \in missed \/ (Pending(s) /\ ReportsReach(s))

\* A finish request never means to lower the count it has loaded, and loads a
\* positive one only after an error.
FinishBase ==
  \A r \in Requests : finish[r].pc # "idle" =>
    finish[r].base <= finish[r].errors /\ (finish[r].base > 0 => finish[r].sync \in erred)

Counted == ErrorsAreKept /\ FinishBase

SyncInv ==
  /\ TypeOK
  /\ DataTypes
  /\ NotBefore
  /\ Carried
  /\ LockHeld
  /\ SawFinished
  /\ CountHolds
  /\ LeftToAnother
  /\ ReportIsCurrent
  /\ Settles
  /\ Counted

\* The initial state satisfies the invariant.
LEMMA InitInv == Init => SyncInv
<1> SUFFICES ASSUME Init PROVE SyncInv
  OBVIOUS
<1> USE SyncAssumption DEF Init
<1>1. TypeOK
  BY DEF TypeOK, Unread, None, Source, Sync, Finals, NoBatch, NoFinish, NoExec
<1>3. DataTypes
  BY EmptyRecords DEF DataTypes
<1>4. NotBefore /\ Carried /\ LockHeld
  BY DEF NotBefore, Carried, LockHeld, JobsOf, NoBatch, NoFinish, NoExec
<1>5. SawFinished /\ CountHolds /\ LeftToAnother /\ ReportIsCurrent
  BY DEF SawFinished, CountHolds, LeftToAnother, ReportIsCurrent, NoFinish, NoExec
<1>6. Settles
  BY DEF Settles, Unread
<1>7. Counted
  BY DEF Counted, ErrorsAreKept, FinishBase, NoFinish
<1> QED
  BY <1>1, <1>3, <1>4, <1>5, <1>6, <1>7 DEF SyncInv

\* How a transaction for s that had n errors leaves the history and the count.
LEMMA Kept ==
  ASSUME Counted, NEW s \in Syncs, NEW n \in Nat,
         erred' = Note(s, n),
         n = 0 => sync'[s].errors = sync[s].errors,
         n > 0 => sync'[s].errors > 0,
         \A x \in Syncs \ {s} : sync'[x] = sync[x]
  PROVE  ErrorsAreKept' /\ erred \subseteq erred'
BY DEF Counted, ErrorsAreKept, Note

\* Why Settles survives a step that does not turn the source to indexing.
LEMMA SettlesKept ==
  ASSUME Settles,
         source'.status = "indexing" => source.status = "indexing",
         \A s \in Syncs : Finished(s) => Finished(s)',
         missed \subseteq missed',
         \A s \in Syncs : Pending(s) /\ ReportsReach(s) =>
                            s \in missed' \/ (Pending(s)' /\ ReportsReach(s)')
  PROVE  Settles'
BY DEF Settles

\* start_sync reads the source.
LEMMA StartReadInv ==
  ASSUME SyncInv, NEW s \in Syncs, StartRead(s)
  PROVE  SyncInv'
<1> USE SyncAssumption DEF SyncInv
<1>1. TypeOK' /\ DataTypes'
  BY DEF StartRead, TypeOK, DataTypes
<1>2. NotBefore' /\ Carried'
  BY DEF StartRead, TypeOK, DataTypes, NotBefore, Carried, JobsOf
<1>3. LockHeld'
  BY DEF StartRead, TypeOK, DataTypes, LockHeld, Free, None
<1>4. SawFinished' /\ CountHolds'
  BY DEF StartRead, TypeOK, DataTypes, SawFinished, CountHolds, Finished, Unsettled, Pending, JobsOf
<1>5. LeftToAnother' /\ ReportIsCurrent'
  BY DEF StartRead, TypeOK, DataTypes, LeftToAnother, ReportIsCurrent, JobsOf
<1>6. Settles'
  BY DEF StartRead, TypeOK, DataTypes, Settles, ReportsReach, Finished, Pending, JobsOf
<1>7. Counted'
  BY DEF StartRead, Counted, ErrorsAreKept, FinishBase
<1> QED
  BY <1>1, <1>2, <1>3, <1>4, <1>5, <1>6, <1>7

\* start_sync creates the sync.
LEMMA StartCommitInv ==
  ASSUME SyncInv, NEW s \in Syncs, StartCommit(s)
  PROVE  SyncInv'
<1> USE SyncAssumption DEF SyncInv
<1>a. /\ client[s] = "starting" /\ sync[s].status = "absent"
      /\ sync' = [sync EXCEPT ![s] = [status |-> "running", errors |-> 0]]
      /\ client' = [client EXCEPT ![s] = "uploading"]
      /\ UNCHANGED <<syncLock, batch, finish, job, exec, missed, erred>>
  BY DEF StartCommit, NotBefore
<1>b. source' \in Source /\ (source'.status = "indexing" => source.status = "indexing")
  <2>1. source' = Write(source, opened[s], [status |-> "syncing", last |-> "running"])
    BY DEF StartCommit
  <2> DEFINE new == [status |-> "syncing", last |-> "running"]
  <2>2. new \in Source /\ new.status # "indexing" /\ source \in Source
    BY DEF TypeOK, Source
  <2>3. source' = Write(source, opened[s], new)
    BY <2>1
  <2> HIDE DEF new
  <2> QED
    BY <2>2, <2>3, WriteIs
<1>c. \A x \in Syncs : /\ Finished(x) => Finished(x)'
                       /\ Pending(x)' = Pending(x) /\ ReportsReach(x)' = ReportsReach(x)
  BY <1>a DEF Finished, Finals, TypeOK, Pending, JobsOf, ReportsReach
<1>1. TypeOK' /\ DataTypes'
  <2>1. Unread \in Source /\ [status |-> "running", errors |-> 0] \in Sync
    BY DEF Unread, Source, Sync, None
  <2>2. opened' \in [Syncs -> Source] /\ sync' \in [Syncs -> Sync]
    BY <1>a, <2>1 DEF StartCommit, TypeOK
  <2> QED
    BY <1>a, <1>b, <2>2 DEF TypeOK, DataTypes
<1>2. NotBefore' /\ Carried'
  <2>1. \A x \in Syncs : client'[x] \in {"idle", "starting"} =>
          client[x] \in {"idle", "starting"} /\ sync'[x] = sync[x]
    BY <1>a DEF TypeOK
  <2> QED
    BY <1>a, <2>1 DEF NotBefore, Carried, JobsOf
<1>3. LockHeld'
  BY <1>a DEF LockHeld
<1>4. SawFinished' /\ CountHolds'
  BY <1>a, <1>c, SyncAssumption DEF SawFinished, CountHolds, Unsettled, TypeOK
<1>5. LeftToAnother' /\ ReportIsCurrent'
  BY <1>a DEF LeftToAnother, ReportIsCurrent, JobsOf
<1>6. Settles'
  BY <1>a, <1>b, <1>c, SettlesKept
<1>7. Counted'
  <2>1. sync[s].errors = 0
    BY <1>a DEF NotBefore
  <2>2. sync'[s].errors = 0 /\ \A x \in Syncs \ {s} : sync'[x] = sync[x]
    BY <1>a DEF TypeOK
  <2> QED
    BY <1>a, <2>1, <2>2 DEF Counted, ErrorsAreKept, FinishBase
<1> QED
  BY <1>1, <1>2, <1>3, <1>4, <1>5, <1>6, <1>7

\* ingest_documents_batch reads sync and source.
LEMMA BatchReadInv ==
  ASSUME SyncInv, NEW s \in Syncs, BatchRead(s)
  PROVE  SyncInv'
<1> USE SyncAssumption DEF SyncInv
<1>a. /\ client[s] = "uploading"
      /\ UNCHANGED <<source, sync, syncLock, client, opened, finish, job, exec, missed, erred>>
  BY DEF BatchRead
<1>b. /\ batch' \in [Syncs -> Batches] /\ batch'[s].pc = "read" /\ batch'[s].loaded = source
      /\ batch'[s].base + batch'[s].errors <= MaxErrors
      /\ \A k \in batch'[s].jobs : SyncOf[k] = s
      /\ \A x \in Syncs \ {s} : batch'[x] = batch[x]
  <2>1. PICK docs \in SUBSET JobsOf(s), n \in Counts :
          /\ sync[s].errors + n <= MaxErrors
          /\ batch' = [batch EXCEPT ![s] =
                         [pc |-> "read", jobs |-> docs, base |-> sync[s].errors, errors |-> n,
                          running |-> sync[s].status = "running", loaded |-> source]]
    BY DEF BatchRead, Counts
  <2> DEFINE running == sync[s].status = "running"
             base == sync[s].errors
             b == [pc |-> "read", jobs |-> docs, base |-> base, errors |-> n,
                   running |-> running, loaded |-> source]
  <2>2. running \in BOOLEAN /\ base \in Counts /\ base + n <= MaxErrors
    BY <2>1 DEF TypeOK, Sync, Counts
  <2>3. batch' = [batch EXCEPT ![s] = b]
    BY <2>1
  <2> HIDE DEF running, base
  <2>4. /\ b \in Batches /\ b.pc = "read" /\ b.loaded = source /\ b.jobs = docs
        /\ b.base + b.errors <= MaxErrors
    BY <2>2 DEF Batches, TypeOK, JobsOf
  <2> HIDE DEF b
  <2> QED
    BY <2>3, <2>4 DEF DataTypes, JobsOf
<1>1. TypeOK' /\ DataTypes'
  <2>1. \A x \in Syncs : batch'[x].pc \in {"idle", "read"} /\ batch'[x].jobs \subseteq Jobs
    BY <1>b DEF Batches
  <2> QED
    BY <1>a, <1>b, <2>1 DEF TypeOK, DataTypes
<1>2. NotBefore' /\ Carried'
  BY <1>a, <1>b DEF NotBefore, Carried, JobsOf
<1>3. LockHeld'
  BY <1>a DEF LockHeld
<1>4. SawFinished' /\ CountHolds'
  BY <1>a DEF SawFinished, CountHolds, Finished, Unsettled, Pending, JobsOf
<1>5. LeftToAnother' /\ ReportIsCurrent'
  BY <1>a DEF LeftToAnother, ReportIsCurrent, JobsOf
<1>6. Settles'
  BY <1>a DEF Settles, ReportsReach, Finished, Pending, JobsOf
<1>7. Counted'
  BY <1>a DEF Counted, ErrorsAreKept, FinishBase
<1> QED
  BY <1>1, <1>2, <1>3, <1>4, <1>5, <1>6, <1>7

\* ingest_documents_batch commits, when nobody holds the sync row.
LEMMA BatchCommitInv ==
  ASSUME SyncInv, NEW s \in Syncs, BatchCommit(s)
  PROVE  SyncInv'
<1> USE SyncAssumption DEF SyncInv
<1>a. /\ batch[s].pc = "read" /\ syncLock[s] = None
      /\ batch' = [batch EXCEPT ![s] = NoBatch]
      /\ job' = [j \in Jobs |-> IF j \in batch[s].jobs THEN "live" ELSE job[j]]
      /\ UNCHANGED <<syncLock, client, opened, finish, exec, missed>>
  BY DEF BatchCommit, Free
<1>b. /\ sync' \in [Syncs -> Sync] /\ sync'[s].status = sync[s].status
      /\ erred' = Note(s, batch[s].errors)
      /\ batch[s].errors = 0 => sync'[s].errors = sync[s].errors
      /\ batch[s].errors > 0 => sync'[s].errors > 0
      /\ \A x \in Syncs \ {s} : sync'[x] = sync[x]
  <2> DEFINE base == batch[s].base
             n == batch[s].errors
             errors == Column(sync[s].errors, base, base + n)
  <2>1. /\ errors \in Counts /\ (n = 0 => errors = sync[s].errors) /\ (n > 0 => errors > 0)
        /\ n \in Nat
    <3>1. base \in Counts /\ n \in Counts /\ base + n <= MaxErrors /\ sync[s].errors \in Counts
      BY DEF DataTypes, Batches, TypeOK, Sync, Counts
    <3>2. n \in Nat
      BY <3>1 DEF Counts
    <3> HIDE DEF base, n
    <3> QED
      BY <3>1, <3>2, CountIs
  <2>2. sync' = [sync EXCEPT ![s] = [sync[s] EXCEPT !.errors = errors]]
    BY DEF BatchCommit
  <2>3. erred' = Note(s, n)
    BY DEF BatchCommit
  <2> HIDE DEF errors
  <2> QED
    BY <2>1, <2>2, <2>3, SyncRecord DEF TypeOK
<1>c. source' \in Source /\ source'.status = source.status
  <2> DEFINE b == batch[s]
  <2>1. CASE source' = source
    BY <2>1 DEF TypeOK
  <2>2. CASE source' = Write(source, b.loaded, [b.loaded EXCEPT !.last = "running_with_errors"])
    <3>1. b.loaded \in Source
      BY <1>a DEF DataTypes
    <3> DEFINE new == [b.loaded EXCEPT !.last = "running_with_errors"]
    <3>2. new \in Source /\ new.status = b.loaded.status /\ source \in Source
      BY <3>1 DEF Source, TypeOK
    <3>3. source' = Write(source, b.loaded, new)
      BY <2>2
    <3> HIDE DEF new, b
    <3> QED
      BY <3>2, <3>3, WriteIs
  <2> QED
    BY <2>1, <2>2 DEF BatchCommit
<1>d. /\ \A x \in Syncs : Finished(x)' = Finished(x)
      /\ \A k \in Jobs : job[k] = "live" => job'[k] = "live"
      /\ \A k \in Jobs : job'[k] # job[k] => SyncOf[k] = s
      /\ \A x \in Syncs : Pending(x) => Pending(x)'
  BY <1>a, <1>b DEF Finished, Carried, Pending, JobsOf, TypeOK
<1>1. TypeOK' /\ DataTypes'
  <2>1. /\ batch' \in [Syncs -> Batches] /\ batch'[s].pc = "idle" /\ batch'[s].jobs = {}
        /\ batch'[s].base + batch'[s].errors <= MaxErrors
        /\ \A x \in Syncs \ {s} : batch'[x] = batch[x]
    BY <1>a, EmptyRecords DEF DataTypes
  <2>3. erred' \subseteq Syncs
    BY <1>b DEF Note, TypeOK
  <2>2. job' \in [Jobs -> {"absent", "live", "completed", "failed", "stale"}]
    BY <1>a DEF TypeOK
  <2> QED
    BY <1>a, <1>b, <1>c, <2>1, <2>2, <2>3 DEF TypeOK, DataTypes
<1>2. NotBefore' /\ Carried'
  <2>1. client[s] \notin {"idle", "starting"}
    BY <1>a DEF NotBefore
  <2>2. /\ batch'[s].pc = "idle" /\ batch'[s].jobs = {}
        /\ \A x \in Syncs \ {s} : batch'[x] = batch[x]
    BY <1>a, EmptyRecords DEF DataTypes
  <2> QED
    BY <1>a, <1>b, <1>d, <2>1, <2>2 DEF NotBefore, Carried, JobsOf
<1>3. LockHeld'
  BY <1>a DEF LockHeld
<1>4. SawFinished' /\ CountHolds'
  BY <1>a, <1>d DEF SawFinished, CountHolds, Unsettled, TypeOK
<1>5. LeftToAnother' /\ ReportIsCurrent'
  <2>1. \A k \in Jobs : exec[k].pc = "flushed" => SyncOf[k] # s
    BY <1>a DEF LockHeld, None
  <2> QED
    BY <1>a, <1>d, <2>1 DEF LeftToAnother, ReportIsCurrent, JobsOf
<1>6. Settles'
  <2>1. \A x \in Syncs : ReportsReach(x)' = ReportsReach(x)
    BY <1>a DEF ReportsReach, JobsOf
  <2> QED
    BY <1>a, <1>c, <1>d, <2>1, SettlesKept
<1>7. Counted'
  <2>1. batch[s].errors \in Nat
    BY DEF DataTypes, Batches, Counts
  <2>2. ErrorsAreKept' /\ erred \subseteq erred'
    BY <1>b, <2>1, Kept
  <2> QED
    BY <1>a, <2>2 DEF Counted, FinishBase
<1> QED
  BY <1>1, <1>2, <1>3, <1>4, <1>5, <1>6, <1>7

\* ingest_documents_batch is rolled back.
LEMMA BatchFailsInv ==
  ASSUME SyncInv, NEW s \in Syncs, BatchFails(s)
  PROVE  SyncInv'
<1> USE SyncAssumption DEF SyncInv
<1>a. /\ batch[s].pc = "read" /\ client' = [client EXCEPT ![s] = "failed"]
      /\ UNCHANGED <<source, sync, syncLock, opened, finish, job, exec, missed, erred>>
  BY DEF BatchFails
<1>b. /\ batch' \in [Syncs -> Batches] /\ batch'[s].pc = "idle" /\ batch'[s].jobs = {}
      /\ batch'[s].base + batch'[s].errors <= MaxErrors
      /\ \A x \in Syncs \ {s} : batch'[x] = batch[x]
  BY EmptyRecords DEF BatchFails, DataTypes
<1>1. TypeOK' /\ DataTypes'
  BY <1>a, <1>b DEF TypeOK, DataTypes
<1>2. NotBefore' /\ Carried'
  <2>1. /\ client[s] \notin {"idle", "starting"} /\ client'[s] = "failed"
        /\ \A x \in Syncs \ {s} : client'[x] = client[x]
    BY <1>a DEF NotBefore, TypeOK
  <2> QED
    BY <1>a, <1>b, <2>1 DEF NotBefore, Carried, JobsOf
<1>3. LockHeld'
  BY <1>a DEF LockHeld
<1>4. SawFinished' /\ CountHolds'
  BY <1>a DEF SawFinished, CountHolds, Finished, Unsettled, Pending, JobsOf
<1>5. LeftToAnother' /\ ReportIsCurrent'
  BY <1>a DEF LeftToAnother, ReportIsCurrent, JobsOf
<1>6. Settles'
  BY <1>a DEF Settles, ReportsReach, Finished, Pending, JobsOf
<1>7. Counted'
  BY <1>a DEF Counted, ErrorsAreKept, FinishBase
<1> QED
  BY <1>1, <1>2, <1>3, <1>4, <1>5, <1>6, <1>7

\* finish_sync reads sync and source.
LEMMA FinishReadInv ==
  ASSUME SyncInv, NEW r \in Requests, NEW s \in Syncs, FinishRead(r, s)
  PROVE  SyncInv'
<1> USE SyncAssumption DEF SyncInv
<1>a. /\ client[s] = "uploading"
      /\ UNCHANGED <<source, sync, syncLock, client, opened, batch, job, exec, missed, erred>>
  BY DEF FinishRead
<1>b. /\ finish' \in [Requests -> Finishes] /\ finish'[r].pc = "read" /\ finish'[r].sync = s
      /\ finish'[r].loaded \in Source /\ finish'[r].status \in Finals
      /\ finish'[r].base = sync[s].errors /\ finish'[r].base <= finish'[r].errors
      /\ \A x \in Requests \ {r} : finish'[x] = finish[x]
  <2>1. PICK status \in Finals, reported \in Counts, others \in BOOLEAN :
          LET base == sync[s].errors
              errors == IF reported > base THEN reported ELSE base
          IN finish' = [finish EXCEPT ![r] =
               [pc |-> "read", sync |-> s, base |-> base, errors |-> errors, pending |-> FALSE,
                loaded |-> source,
                status |-> IF status = "success" /\ (errors > 0 \/ others)
                           THEN "partial_success" ELSE status]]
    BY DEF FinishRead, Counts
  <2> DEFINE base == sync[s].errors
             errors == IF reported > base THEN reported ELSE base
             final == IF status = "success" /\ (errors > 0 \/ others)
                      THEN "partial_success" ELSE status
             f == [pc |-> "read", sync |-> s, base |-> base, errors |-> errors, pending |-> FALSE,
                   loaded |-> source, status |-> final]
  <2>2. base \in Counts /\ errors \in Counts /\ base <= errors /\ final \in Finals
    BY DEF Finals, TypeOK, Sync, Counts
  <2>3. finish' = [finish EXCEPT ![r] = f]
    BY <2>1
  <2> HIDE DEF errors, final
  <2>4. /\ f \in Finishes /\ f.pc = "read" /\ f.sync = s
        /\ f.loaded \in Source /\ f.status \in Finals
        /\ f.base = sync[s].errors /\ f.base <= f.errors
    BY <2>2 DEF Finishes, TypeOK
  <2> HIDE DEF f
  <2> QED
    BY <2>3, <2>4 DEF DataTypes
<1>1. TypeOK' /\ DataTypes'
  <2>1. \A x \in Requests : /\ finish'[x].pc \in {"idle", "read", "counted"}
                            /\ finish'[x].pc # "idle" => finish'[x].sync \in Syncs
    BY <1>b DEF TypeOK
  <2> QED
    BY <1>a, <1>b, <2>1 DEF TypeOK, DataTypes
<1>2. NotBefore' /\ Carried'
  BY <1>a, <1>b DEF NotBefore, Carried, JobsOf
<1>3. LockHeld'
  BY <1>a, <1>b DEF LockHeld
<1>4. SawFinished' /\ CountHolds'
  BY <1>a, <1>b DEF SawFinished, CountHolds, Finished, Unsettled, Pending, JobsOf
<1>5. LeftToAnother' /\ ReportIsCurrent'
  BY <1>a DEF LeftToAnother, ReportIsCurrent, JobsOf
<1>6. Settles'
  BY <1>a DEF Settles, ReportsReach, Finished, Pending, JobsOf
<1>7. Counted'
  BY <1>a, <1>b DEF Counted, ErrorsAreKept, FinishBase
<1> QED
  BY <1>1, <1>2, <1>3, <1>4, <1>5, <1>6, <1>7

\* finish_sync takes the sync row and counts.
LEMMA FinishCountInv ==
  ASSUME SyncInv, NEW r \in Requests, FinishCount(r)
  PROVE  SyncInv'
<1> USE SyncAssumption DEF SyncInv
<1> DEFINE s == finish[r].sync
<1>a. /\ finish[r].pc = "read" /\ s \in Syncs /\ syncLock[s] = None
      /\ syncLock' = [syncLock EXCEPT ![s] = r]
      /\ UNCHANGED <<source, sync, client, opened, batch, job, exec, missed, erred>>
  BY DEF FinishCount, Free, TypeOK
<1>b. /\ finish' \in [Requests -> Finishes] /\ finish'[r].pc = "counted" /\ finish'[r].sync = s
      /\ finish'[r].pending = Pending(s)
      /\ finish'[r].loaded = finish[r].loaded /\ finish'[r].status = finish[r].status
      /\ finish'[r].base = finish[r].base /\ finish'[r].errors = finish[r].errors
      /\ \A x \in Requests \ {r} : finish'[x] = finish[x]
  <2> DEFINE p == Pending(s)
  <2>1. p \in BOOLEAN
    BY DEF Pending
  <2>2. finish' = [finish EXCEPT ![r] = [finish[r] EXCEPT !.pc = "counted", !.pending = p]]
    BY DEF FinishCount
  <2> HIDE DEF p
  <2> DEFINE x == finish[r]
             y == [x EXCEPT !.pc = "counted", !.pending = p]
  <2>4. /\ y \in Finishes /\ y.pc = "counted" /\ y.pending = p
        /\ y.sync = s /\ y.status = finish[r].status /\ y.loaded = finish[r].loaded
        /\ y.base = finish[r].base /\ y.errors = finish[r].errors
    <3>1. /\ x \in Finishes /\ x.sync = s /\ x.status = finish[r].status
          /\ x.loaded = finish[r].loaded /\ x.base = finish[r].base /\ x.errors = finish[r].errors
      BY DEF DataTypes
    <3> HIDE DEF x, s
    <3> QED
      BY <2>1, <3>1 DEF Finishes
  <2>5. finish' = [finish EXCEPT ![r] = y]
    BY <2>2
  <2> HIDE DEF y
  <2>3. /\ finish' \in [Requests -> Finishes] /\ finish'[r].pc = "counted" /\ finish'[r].sync = s
        /\ finish'[r].pending = p
        /\ finish'[r].loaded = finish[r].loaded /\ finish'[r].status = finish[r].status
        /\ finish'[r].base = finish[r].base /\ finish'[r].errors = finish[r].errors
        /\ \A q \in Requests \ {r} : finish'[q] = finish[q]
    BY <2>4, <2>5 DEF DataTypes
  <2> QED
    BY <2>3 DEF p
<1> HIDE DEF s
<1>1. TypeOK' /\ DataTypes'
  <2>1. syncLock' \in [Syncs -> Jobs \cup Requests \cup {None}]
    BY <1>a DEF TypeOK
  <2>2. \A x \in Requests : /\ finish'[x].pc \in {"idle", "read", "counted"}
                            /\ finish'[x].pc # "idle" => finish'[x].sync \in Syncs
    BY <1>a, <1>b DEF TypeOK
  <2> QED
    BY <1>a, <1>b, <2>1, <2>2 DEF TypeOK, DataTypes
<1>2. NotBefore' /\ Carried'
  BY <1>a, <1>b DEF NotBefore, Carried, JobsOf, s
<1>3. LockHeld'
  BY <1>a, <1>b DEF LockHeld, TypeOK, None
<1>4. SawFinished' /\ CountHolds'
  <2>1. \A x \in Syncs : Unsettled(x)' = Unsettled(x) /\ Finished(x)' = Finished(x)
    BY <1>a DEF Finished, Unsettled, Pending, JobsOf
  <2>2. SawFinished'
    BY <1>a, <2>1 DEF SawFinished
  <2>3. ASSUME NEW x \in Requests, finish'[x].pc = "counted", finish'[x].pending
        PROVE  Unsettled(finish[x].sync)' /\ finish'[x].sync = finish[x].sync
    <3>1. CASE x = r
      <4>1. Pending(s)
        BY <1>b, <2>3, <3>1
      <4> QED
        BY <1>a, <1>b, <2>1, <3>1, <4>1 DEF Unsettled, s
    <3>2. CASE x # r
      BY <1>b, <2>1, <2>3, <3>2 DEF CountHolds, TypeOK
    <3> QED
      BY <3>1, <3>2
  <2> QED
    BY <2>2, <2>3 DEF CountHolds
<1>5. LeftToAnother' /\ ReportIsCurrent'
  BY <1>a DEF LeftToAnother, ReportIsCurrent, JobsOf
<1>6. Settles'
  BY <1>a DEF Settles, ReportsReach, Finished, Pending, JobsOf
<1>7. Counted'
  BY <1>a, <1>b DEF s, Counted, ErrorsAreKept, FinishBase
<1> QED
  BY <1>1, <1>2, <1>3, <1>4, <1>5, <1>6, <1>7

\* finish_sync commits.
LEMMA FinishCommitInv ==
  ASSUME SyncInv, NEW r \in Requests, FinishCommit(r)
  PROVE  SyncInv'
<1> USE SyncAssumption DEF SyncInv
<1> DEFINE f == finish[r]
           s == f.sync
           status == IF f.status \notin Successful THEN "error"
                     ELSE IF f.pending THEN "indexing" ELSE "ready"
           last == IF f.pending THEN "indexing" ELSE f.status
<1>a. /\ f.pc = "counted" /\ s \in Syncs /\ syncLock[s] = r /\ f.status \in Finals
      /\ sync' = [sync EXCEPT ![s] =
                    [status |-> f.status, errors |-> Column(@.errors, f.base, f.errors)]]
      /\ erred' = Note(s, f.errors)
      /\ source' = Write(source, f.loaded, [status |-> status, last |-> last])
      /\ syncLock' = [syncLock EXCEPT ![s] = None]
      /\ finish' = [finish EXCEPT ![r] = NoFinish]
      /\ UNCHANGED <<client, opened, batch, job, exec, missed>>
  BY DEF FinishCommit, TypeOK, DataTypes, LockHeld
<1>b. /\ sync' \in [Syncs -> Sync] /\ sync'[s].status = f.status
      /\ f.errors \in Nat
      /\ f.errors = 0 => sync'[s].errors = sync[s].errors
      /\ f.errors > 0 => sync'[s].errors > 0
      /\ \A x \in Syncs \ {s} : sync'[x] = sync[x]
  <2> DEFINE errors == Column(sync[s].errors, f.base, f.errors)
             row == [status |-> f.status, errors |-> errors]
  <2>1. /\ errors \in Counts /\ (f.errors = 0 => errors = sync[s].errors)
        /\ (f.errors > 0 => errors > 0) /\ f.errors \in Nat
    <3>1. f.base \in Counts /\ f.errors \in Counts /\ sync[s].errors \in Counts
      BY <1>a DEF DataTypes, Finishes, TypeOK, Sync, Counts
    <3>2. f.base <= f.errors /\ (f.base > 0 => sync[s].errors > 0)
      BY <1>a DEF Counted, FinishBase, ErrorsAreKept
    <3> HIDE DEF f, s
    <3> QED
      BY <3>1, <3>2 DEF Column, Counts
  <2>2. sync' = [sync EXCEPT ![s] = row]
    BY <1>a
  <2> HIDE DEF errors
  <2>3. row \in Sync /\ row.status = f.status /\ row.errors = errors
    BY <1>a, <2>1 DEF Sync, Counts
  <2> HIDE DEF row, f, s
  <2> QED
    BY <1>a, <2>1, <2>2, <2>3 DEF TypeOK
<1>c. /\ source' \in Source /\ (source'.status = "indexing" =>
                                  source.status = "indexing" \/ f.pending)
  <2>1. status \in SourceStatus /\ last \in LastStatus /\ (status = "indexing" => f.pending)
    BY <1>a DEF SourceStatus, LastStatus
  <2> DEFINE new == [status |-> status, last |-> last]
  <2>2. source' = Write(source, f.loaded, new)
    BY <1>a
  <2> HIDE DEF status, last, f
  <2>3. new \in Source /\ new.status = status /\ source \in Source
    BY <2>1 DEF TypeOK, Source, SourceStatus, LastStatus
  <2> HIDE DEF new
  <2> QED
    BY <2>1, <2>2, <2>3, WriteIs
<1>d. /\ finish' \in [Requests -> Finishes] /\ finish'[r].pc = "idle"
      /\ \A x \in Requests \ {r} : finish'[x] = finish[x]
  BY <1>a, EmptyRecords DEF DataTypes
<1>e. \A x \in Syncs : /\ Finished(x) => Finished(x)'
                       /\ Pending(x)' = Pending(x) /\ ReportsReach(x)' = ReportsReach(x)
                       /\ Unsettled(x)' = Unsettled(x)
  BY <1>a, <1>b DEF Finished, Pending, ReportsReach, Unsettled, JobsOf
<1> HIDE DEF f, s, status, last
<1>1. TypeOK' /\ DataTypes'
  <2>1. syncLock' \in [Syncs -> Jobs \cup Requests \cup {None}]
    BY <1>a DEF TypeOK
  <2>2. \A x \in Requests : /\ finish'[x].pc \in {"idle", "read", "counted"}
                            /\ finish'[x].pc # "idle" => finish'[x].sync \in Syncs
    BY <1>d DEF TypeOK
  <2>3. erred' \subseteq Syncs
    BY <1>a DEF Note, TypeOK
  <2> QED
    BY <1>a, <1>b, <1>c, <1>d, <2>1, <2>2, <2>3 DEF TypeOK, DataTypes
<1>2. NotBefore' /\ Carried'
  <2>1. client[s] \notin {"idle", "starting"}
    BY <1>a DEF NotBefore, f, s
  <2> QED
    <3>1. \A x \in Syncs : client[x] \in {"idle", "starting"} => sync'[x] = sync[x]
      BY <1>b, <2>1
    <3>2. \A x \in Requests : finish'[x].pc # "idle" => finish'[x] = finish[x]
      BY <1>d
    <3> QED
      BY <1>a, <3>1, <3>2 DEF NotBefore, Carried, JobsOf
<1>3. LockHeld'
  <2>1. \A k \in Jobs : exec[k].pc = "flushed" => SyncOf[k] # s
    BY <1>a DEF LockHeld
  <2>2. \A x \in Requests \ {r} : finish[x].pc = "counted" => finish[x].sync # s
    BY <1>a DEF LockHeld
  <2>3. \A x \in Syncs \ {s} : syncLock'[x] = syncLock[x]
    BY <1>a DEF TypeOK
  <2> QED
    BY <1>a, <1>d, <2>1, <2>2, <2>3 DEF LockHeld, TypeOK
<1>4. SawFinished' /\ CountHolds'
  <2>1. SawFinished'
    BY <1>a, <1>e DEF SawFinished
  <2>2. CountHolds'
    BY <1>a, <1>d, <1>e DEF CountHolds, TypeOK
  <2> QED
    BY <2>1, <2>2
<1>5. LeftToAnother' /\ ReportIsCurrent'
  BY <1>a DEF LeftToAnother, ReportIsCurrent, JobsOf
<1>6. Settles'
  <2>1. CASE f.pending
    <3>1. Unsettled(s)
      BY <1>a, <2>1 DEF CountHolds, f, s
    <3>2. \A k \in JobsOf(s) : exec[k].pc # "flushed"
      BY <1>a DEF LockHeld, JobsOf
    <3>3. PICK x \in Syncs : x = s
      BY <1>a
    <3>4. Finished(x)'
      BY <1>a, <1>b, <3>3 DEF Finished
    <3>5. ReportsReach(x)'
      BY <1>e, <3>2, <3>3 DEF ReportsReach
    <3>6. x \in missed' \/ Pending(x)'
      BY <1>a, <1>e, <3>1, <3>3 DEF Unsettled
    <3> QED
      BY <3>4, <3>5, <3>6 DEF Settles
  <2>2. CASE ~f.pending
    BY <1>a, <1>c, <1>e, <2>2, SettlesKept
  <2> QED
    BY <2>1, <2>2
<1>7. Counted'
  <2>1. ErrorsAreKept' /\ erred \subseteq erred'
    BY <1>a, <1>b, Kept
  <2> QED
    BY <1>d, <2>1 DEF Counted, FinishBase
<1> QED
  BY <1>1, <1>2, <1>3, <1>4, <1>5, <1>6, <1>7

\* An execution reads its sync.
LEMMA ExecReadInv ==
  ASSUME SyncInv, NEW j \in Jobs, ExecRead(j)
  PROVE  SyncInv'
<1> USE SyncAssumption DEF SyncInv
<1>a. /\ exec[j].pc = "idle" /\ job[j] # "absent"
      /\ UNCHANGED <<source, sync, syncLock, client, opened, batch, finish, job, missed, erred>>
  BY EmptyRecords DEF ExecRead, Taken
<1>b. /\ exec' \in [Jobs -> Execs] /\ exec'[j].pc = "read" /\ exec'[j].result # None
      /\ exec'[j].finished = Finished(SyncOf[j])
      /\ exec'[j].base + Errors(exec'[j].result) <= MaxErrors
      /\ \A k \in Jobs \ {j} : exec'[k] = exec[k]
  <2> DEFINE saw == Finished(SyncOf[j])
             base == sync[SyncOf[j]].errors
  <2>0. \E result \in {"completed", "failed"} :
          /\ sync[SyncOf[j]].errors + Errors(result) <= MaxErrors
          /\ exec' = [exec EXCEPT ![j].pc = "read", ![j].result = result,
                                  ![j].base = sync[SyncOf[j]].errors,
                                  ![j].finished = Finished(SyncOf[j])]
    BY Zenon DEF ExecRead
  <2>1. PICK result \in {"completed", "failed"} :
          /\ base + Errors(result) <= MaxErrors
          /\ exec' = [exec EXCEPT ![j].pc = "read", ![j].result = result, ![j].base = base,
                                  ![j].finished = saw]
    BY <2>0
  <2>2. saw \in BOOLEAN /\ base \in Counts
    BY DEF Finished, TypeOK, Sync, Counts
  <2> HIDE DEF saw, base
  <2> DEFINE x == exec[j]
             y == [x EXCEPT !.pc = "read", !.result = result, !.base = base, !.finished = saw]
  <2>3. /\ y \in Execs /\ y.pc = "read" /\ y.finished = saw /\ y.result # None
        /\ y.result = result /\ y.base = base
    <3>1. x \in Execs
      BY DEF DataTypes
    <3> HIDE DEF x
    <3> QED
      BY <2>2, <3>1 DEF Execs, None
  <2>4. exec' = [exec EXCEPT ![j] = y] /\ base + Errors(result) <= MaxErrors
    BY <2>1
  <2> HIDE DEF y
  <2>5. /\ exec' \in [Jobs -> Execs] /\ exec'[j].pc = "read" /\ exec'[j].result # None
        /\ exec'[j].finished = saw /\ exec'[j].base + Errors(exec'[j].result) <= MaxErrors
        /\ \A k \in Jobs \ {j} : exec'[k] = exec[k]
    BY <2>3, <2>4 DEF DataTypes
  <2> QED
    BY <2>5 DEF saw
<1>1. TypeOK' /\ DataTypes'
  <2>1. \A k \in Jobs : /\ exec'[k].pc \in {"idle", "read", "flushed"}
                        /\ exec'[k].pc # "idle" =>
                             /\ exec'[k].result # None
                             /\ exec'[k].base + Errors(exec'[k].result) <= MaxErrors
    BY <1>b DEF TypeOK, DataTypes
  <2> QED
    BY <1>a, <1>b, <2>1 DEF TypeOK, DataTypes
<1>2. NotBefore' /\ Carried'
  <2>1. client[SyncOf[j]] \notin {"idle", "starting"}
    BY <1>a DEF NotBefore, JobsOf
  <2> QED
    BY <1>a, <1>b, <2>1 DEF NotBefore, Carried, JobsOf
<1>3. LockHeld'
  BY <1>a, <1>b DEF LockHeld
<1>4. SawFinished' /\ CountHolds'
  <2>1. \A x \in Syncs : Unsettled(x)' = Unsettled(x) /\ Finished(x)' = Finished(x)
    BY <1>a DEF Finished, Unsettled, Pending, JobsOf
  <2>2. ASSUME NEW k \in Jobs, exec'[k].pc # "idle", exec'[k].finished
        PROVE  Finished(SyncOf[k])
    BY <1>b, <2>2 DEF SawFinished
  <2>3. SawFinished'
    BY <2>1, <2>2 DEF SawFinished
  <2>4. CountHolds'
    BY <1>a, <2>1 DEF CountHolds, TypeOK
  <2> QED
    BY <2>3, <2>4
<1>5. LeftToAnother' /\ ReportIsCurrent'
  BY <1>a, <1>b DEF LeftToAnother, ReportIsCurrent, JobsOf
<1>6. Settles'
  <2>1. \A x \in Syncs : /\ Finished(x)' = Finished(x) /\ Pending(x)' = Pending(x)
                         /\ ReportsReach(x) => ReportsReach(x)'
    BY <1>a, <1>b DEF Finished, Pending, JobsOf, ReportsReach
  <2> QED
    BY <1>a, <2>1, SettlesKept
<1>7. Counted'
  BY <1>a DEF Counted, ErrorsAreKept, FinishBase
<1> QED
  BY <1>1, <1>2, <1>3, <1>4, <1>5, <1>6, <1>7

\* An execution takes the sync row and looks at the other jobs.
LEMMA ExecFlushInv ==
  ASSUME SyncInv, NEW j \in Jobs, ExecFlush(j)
  PROVE  SyncInv'
<1> USE SyncAssumption DEF SyncInv
<1> DEFINE s == SyncOf[j]
           others == JobsOf(s) \ {j}
<1>a. /\ exec[j].pc = "read" /\ s \in Syncs /\ syncLock[s] = None
      /\ syncLock' = [syncLock EXCEPT ![s] = j]
      /\ UNCHANGED <<source, sync, client, opened, batch, finish, job, missed, erred>>
  BY DEF ExecFlush, Free
<1>b. /\ exec' \in [Jobs -> Execs] /\ exec'[j].pc = "flushed" /\ exec'[j].loaded = source
      /\ exec'[j].report = Report(j)
      /\ exec'[j].finished = exec[j].finished /\ exec'[j].result = exec[j].result
      /\ exec'[j].base = exec[j].base
      /\ \A k \in Jobs \ {j} : exec'[k] = exec[k]
  <2> DEFINE x == exec[j]
             y == [x EXCEPT !.pc = "flushed", !.report = Report(j), !.loaded = source]
  <2>1. exec' = [exec EXCEPT ![j] = y]
    BY DEF ExecFlush
  <2>2. Report(j) \in {None, "error", "ready"}
    BY DEF Report
  <2>3. /\ y \in Execs /\ y.pc = "flushed" /\ y.report = Report(j) /\ y.loaded = source
        /\ y.finished = exec[j].finished /\ y.result = exec[j].result /\ y.base = exec[j].base
    <3>1. /\ x \in Execs /\ source \in Source
          /\ x.finished = exec[j].finished /\ x.result = exec[j].result /\ x.base = exec[j].base
      BY DEF DataTypes, TypeOK
    <3> HIDE DEF x
    <3> QED
      BY <2>2, <3>1 DEF Execs
  <2> HIDE DEF y
  <2> QED
    BY <2>1, <2>3 DEF DataTypes
<1>c. /\ Report(j) = None /\ exec[j].finished => \E k \in others : job[k] = "live"
      /\ Report(j) = "ready" => \A k \in others : job[k] # "live" /\ job[k] # "failed"
  BY DEF Report, None
<1>1. TypeOK' /\ DataTypes'
  <2>1. syncLock' \in [Syncs -> Jobs \cup Requests \cup {None}]
    BY <1>a DEF TypeOK
  <2>2. \A k \in Jobs : /\ exec'[k].pc \in {"idle", "read", "flushed"}
                        /\ exec'[k].pc # "idle" =>
                             /\ exec'[k].result # None
                             /\ exec'[k].base + Errors(exec'[k].result) <= MaxErrors
    BY <1>a, <1>b DEF TypeOK, DataTypes
  <2> QED
    BY <1>a, <1>b, <2>1, <2>2 DEF TypeOK, DataTypes
<1>2. NotBefore' /\ Carried'
  <2>1. client[s] \notin {"idle", "starting"}
    BY <1>a DEF NotBefore, JobsOf
  <2> QED
    BY <1>a, <1>b, <2>1 DEF NotBefore, Carried, JobsOf
<1>3. LockHeld'
  <2>1. \A k \in Jobs : exec[k].pc = "flushed" => SyncOf[k] # s
    BY <1>a DEF LockHeld, None
  <2>2. \A x \in Requests : finish[x].pc = "counted" => finish[x].sync # s
    BY <1>a DEF LockHeld, None
  <2>3. syncLock'[s] = j /\ \A x \in Syncs \ {s} : syncLock'[x] = syncLock[x]
    BY <1>a DEF TypeOK
  <2> QED
    BY <1>a, <1>b, <2>1, <2>2, <2>3 DEF LockHeld, TypeOK
<1>4. SawFinished' /\ CountHolds'
  <2>1. \A x \in Syncs : Unsettled(x)' = Unsettled(x) /\ Finished(x)' = Finished(x)
    BY <1>a DEF Finished, Unsettled, Pending, JobsOf
  <2>2. SawFinished'
    BY <1>a, <1>b, <2>1 DEF SawFinished
  <2>3. CountHolds'
    BY <1>a, <2>1 DEF CountHolds, TypeOK
  <2> QED
    BY <2>2, <2>3
<1>5. LeftToAnother' /\ ReportIsCurrent'
  <2>1. LeftToAnother'
    <3> SUFFICES ASSUME NEW k \in Jobs, exec'[k].pc = "flushed", exec'[k].finished,
                        exec'[k].report = None
                 PROVE  \/ SyncOf[k] \in missed
                        \/ \E i \in JobsOf(SyncOf[k]) \ {k} : job[i] = "live"
      BY <1>a DEF LeftToAnother, JobsOf
    <3>1. CASE k = j
      BY <1>b, <1>c, <3>1
    <3>2. CASE k # j
      BY <1>b, <3>2 DEF LeftToAnother
    <3> QED
      BY <3>1, <3>2
  <2>2. ReportIsCurrent'
    <3> SUFFICES ASSUME NEW k \in Jobs, exec'[k].pc = "flushed", exec'[k].report = "ready",
                        NEW i \in JobsOf(SyncOf[k]) \ {k}
                 PROVE  job[i] \in {"absent", "completed", "stale"}
      BY <1>a DEF ReportIsCurrent, JobsOf
    <3>1. CASE k = j
      BY <1>b, <1>c, <3>1 DEF TypeOK, JobsOf
    <3>2. CASE k # j
      BY <1>b, <3>2 DEF ReportIsCurrent
    <3> QED
      BY <3>1, <3>2
  <2> QED
    BY <2>1, <2>2
<1>6. Settles'
  <2>1. source.status = "indexing" =>
          \A x \in Syncs : ReportsReach(x) => ReportsReach(x)'
    BY <1>a, <1>b DEF ReportsReach, JobsOf
  <2>2. \A x \in Syncs : Finished(x)' = Finished(x) /\ Pending(x)' = Pending(x)
    BY <1>a DEF Finished, Pending, JobsOf
  <2> QED
    BY <1>a, <2>1, <2>2 DEF Settles
<1>7. Counted'
  BY <1>a DEF Counted, ErrorsAreKept, FinishBase
<1> QED
  BY <1>1, <1>2, <1>3, <1>4, <1>5, <1>6, <1>7

\* An execution commits and reports.
LEMMA ExecCommitInv ==
  ASSUME SyncInv, NEW j \in Jobs, ExecCommit(j)
  PROVE  SyncInv'
<1> USE SyncAssumption DEF SyncInv
<1> DEFINE e == exec[j]
           s == SyncOf[j]
<1>a. /\ e.pc = "flushed" /\ s \in Syncs /\ syncLock[s] = j /\ e \in Execs
      /\ e.result \in {"completed", "failed"} /\ e.report \in {None, "error", "ready"}
      /\ job' = [job EXCEPT ![j] = e.result]
      /\ syncLock' = [syncLock EXCEPT ![s] = None]
      /\ exec' = [exec EXCEPT ![j] = NoExec]
      /\ missed' = IF ~e.finished /\ Finished(s) THEN missed \cup {s} ELSE missed
      /\ UNCHANGED <<client, opened, batch, finish>>
  BY DEF ExecCommit, DataTypes, LockHeld, Execs
<1> DEFINE n == Errors(e.result)
<1>b. /\ sync' \in [Syncs -> Sync] /\ sync'[s].status = sync[s].status
      /\ n \in Nat /\ erred' = Note(s, n)
      /\ n = 0 => sync'[s].errors = sync[s].errors
      /\ n > 0 => sync'[s].errors > 0
      /\ \A x \in Syncs \ {s} : sync'[x] = sync[x]
  <2> DEFINE errors == Column(sync[s].errors, e.base, e.base + n)
  <2>1. /\ errors \in Counts /\ (n = 0 => errors = sync[s].errors) /\ (n > 0 => errors > 0)
        /\ n \in Nat
    <3>1. /\ e.base \in Counts /\ n \in Nat /\ e.base + n <= MaxErrors
          /\ sync[s].errors \in Counts
      BY <1>a DEF DataTypes, Execs, TypeOK, Sync, Counts, Errors
    <3> HIDE DEF e, n, s
    <3> QED
      BY <3>1, CountIs
  <2>2. sync' = [sync EXCEPT ![s] = [sync[s] EXCEPT !.errors = errors]]
    BY DEF ExecCommit
  <2>3. erred' = Note(s, n)
    BY DEF ExecCommit
  <2> HIDE DEF errors, n
  <2> QED
    BY <2>1, <2>2, <2>3, SyncRecord DEF TypeOK
<1>c. /\ source' \in Source
      /\ e.report = None => source' = source
      /\ e.report # None =>
           source'.status = IF e.report = e.loaded.status THEN source.status ELSE e.report
  <2>1. CASE e.report = None
    BY <2>1 DEF ExecCommit, TypeOK
  <2>2. CASE e.report # None
    <3> DEFINE last == IF e.report = "error" THEN "partial_success" ELSE "success"
    <3>1. source' = Write(source, e.loaded, [status |-> e.report, last |-> last])
      BY <2>2 DEF ExecCommit
    <3> DEFINE new == [status |-> e.report, last |-> last]
    <3>2. e.report \in SourceStatus /\ last \in LastStatus
      BY <1>a, <2>2 DEF SourceStatus, LastStatus, Finals
    <3>3. source' = Write(source, e.loaded, new)
      BY <3>1
    <3> HIDE DEF last, e
    <3>4. new \in Source /\ new.status = e.report /\ source \in Source
      BY <3>2 DEF Source, SourceStatus, LastStatus, TypeOK
    <3> HIDE DEF new
    <3> QED
      BY <2>2, <3>3, <3>4, WriteIs
  <2> QED
    BY <2>1, <2>2
<1>d. /\ exec' \in [Jobs -> Execs] /\ exec'[j].pc = "idle"
      /\ \A k \in Jobs \ {j} : exec'[k] = exec[k]
  BY <1>a, EmptyRecords DEF DataTypes
<1>e. /\ job' \in [Jobs -> {"absent", "live", "completed", "failed", "stale"}]
      /\ \A k \in Jobs \ {j} : job'[k] = job[k]
      /\ job'[j] = e.result
  BY <1>a DEF TypeOK
<1>f. \A k \in Jobs : exec[k].pc = "flushed" /\ k # j => SyncOf[k] # s
  BY <1>a DEF LockHeld
<1>g. \A x \in Syncs : Finished(x)' = Finished(x)
  BY <1>b DEF Finished
<1> HIDE DEF e, n
<1>h. missed \subseteq missed' /\ missed' \subseteq Syncs
  BY <1>a DEF TypeOK
<1>i. \A x \in Syncs \ {s} : Pending(x)' = Pending(x) /\ (ReportsReach(x)' = ReportsReach(x))
  BY <1>d, <1>e DEF Pending, JobsOf, ReportsReach
<1>1. TypeOK' /\ DataTypes'
  <2>1. syncLock' \in [Syncs -> Jobs \cup Requests \cup {None}]
    BY <1>a DEF TypeOK
  <2>2. \A k \in Jobs : /\ exec'[k].pc \in {"idle", "read", "flushed"}
                        /\ exec'[k].pc # "idle" =>
                             /\ exec'[k].result # None
                             /\ exec'[k].base + Errors(exec'[k].result) <= MaxErrors
    BY <1>d DEF TypeOK, DataTypes
  <2>3. erred' \subseteq Syncs
    BY <1>a, <1>b DEF Note, TypeOK
  <2> QED
    BY <1>a, <1>b, <1>c, <1>d, <1>e, <1>h, <2>1, <2>2, <2>3 DEF TypeOK, DataTypes
<1>2. NotBefore' /\ Carried'
  <2>1. client[s] \notin {"idle", "starting"}
    BY <1>a DEF NotBefore, JobsOf, e
  <2> HIDE DEF s
  <2>2. \A x \in Syncs : client[x] \in {"idle", "starting"} => sync'[x] = sync[x]
    BY <1>b, <2>1
  <2>3. \A k \in Jobs : k # j => job'[k] = job[k] /\ exec'[k] = exec[k]
    BY <1>d, <1>e
  <2>4. Carried'
    BY <1>a DEF Carried
  <2>5. NotBefore'
    BY <1>a, <2>1, <2>2, <2>3 DEF NotBefore, JobsOf, s
  <2> QED
    BY <2>4, <2>5
<1>3. LockHeld'
  <2>1. \A x \in Requests : finish[x].pc = "counted" => finish[x].sync # s
    BY <1>a DEF LockHeld
  <2>2. \A x \in Syncs \ {s} : syncLock'[x] = syncLock[x]
    BY <1>a DEF TypeOK
  <2> QED
    BY <1>a, <1>d, <1>f, <2>1, <2>2 DEF LockHeld, TypeOK
<1>4. SawFinished' /\ CountHolds'
  <2>1. SawFinished'
    BY <1>d, <1>g DEF SawFinished
  <2>2. \A x \in Requests : finish[x].pc = "counted" => finish[x].sync \in Syncs \ {s}
    BY <1>a DEF LockHeld, TypeOK
  <2>3. CountHolds'
    BY <1>a, <1>h, <1>i, <2>2 DEF CountHolds, Unsettled
  <2> QED
    BY <2>1, <2>3
<1>5. LeftToAnother' /\ ReportIsCurrent'
  <2>1. \A k \in Jobs : exec'[k].pc = "flushed" => exec'[k] = exec[k] /\ k # j /\ SyncOf[k] # s
    BY <1>d, <1>f
  <2>2. \A k, i \in Jobs : exec'[k].pc = "flushed" /\ i \in JobsOf(SyncOf[k]) => job'[i] = job[i]
    BY <1>e, <2>1 DEF JobsOf
  <2>3. LeftToAnother'
    BY <1>h, <2>1, <2>2 DEF LeftToAnother, JobsOf
  <2>4. ReportIsCurrent'
    BY <2>1, <2>2 DEF ReportIsCurrent, JobsOf
  <2> QED
    BY <2>3, <2>4
<1>6. Settles'
  <2>1. source'.status = "indexing" => source.status = "indexing"
    BY <1>a, <1>c
  <2>2. ASSUME source'.status = "indexing", Finished(s), Pending(s), ReportsReach(s)
        PROVE  s \in missed' \/ (Pending(s)' /\ ReportsReach(s)')
    <3>1. CASE ~e.finished
      BY <1>a, <2>2, <3>1
    <3>2. CASE e.finished
      <4>1. e.loaded.status = "indexing"
        BY <1>a, <2>2 DEF ReportsReach, JobsOf, e
      <4>2. e.report = None
        BY <1>a, <1>c, <2>2, <4>1
      <4>3. s \in missed \/ \E k \in JobsOf(s) \ {j} : job[k] = "live"
        BY <1>a, <3>2, <4>2 DEF LeftToAnother, e
      <4>4. ReportsReach(s)'
        BY <1>d, <2>2 DEF ReportsReach, JobsOf
      <4> QED
        BY <1>e, <1>h, <4>3, <4>4 DEF Pending, JobsOf
    <3> QED
      BY <3>1, <3>2
  <2> QED
    BY <1>g, <1>h, <1>i, <2>1, <2>2 DEF Settles
<1>7. Counted'
  <2>1. ErrorsAreKept' /\ erred \subseteq erred'
    BY <1>a, <1>b, Kept
  <2> QED
    BY <1>a, <2>1 DEF Counted, FinishBase
<1> QED
  BY <1>1, <1>2, <1>3, <1>4, <1>5, <1>6, <1>7

\* Indexing raises.
LEMMA ExecRaiseInv ==
  ASSUME SyncInv, NEW j \in Jobs, ExecRaise(j)
  PROVE  SyncInv'
<1> USE SyncAssumption DEF SyncInv
<1>a. /\ job[j] \in {"live", "failed"} /\ exec[j].pc = "idle"
      /\ missed \subseteq missed' /\ missed' \subseteq Syncs
      /\ UNCHANGED <<source, sync, syncLock, client, opened, batch, finish, exec, erred>>
  <2>1. job[j] \in {"live", "failed"} /\ exec[j].pc = "idle"
    BY EmptyRecords DEF ExecRaise, Taken
  <2>2. missed \subseteq missed' /\ missed' \subseteq Syncs
    <3>1. missed' = missed \/ missed' = missed \cup {SyncOf[j]}
      BY DEF ExecRaise
    <3>2. SyncOf[j] \in Syncs /\ missed \subseteq Syncs
      BY DEF TypeOK
    <3> QED
      BY <3>1, <3>2
  <2> QED
    BY <2>1, <2>2 DEF ExecRaise
<1>b. /\ job' \in [Jobs -> {"absent", "live", "completed", "failed", "stale"}]
      /\ \A k \in Jobs \ {j} : job'[k] = job[k]
      /\ job'[j] = "live" \/ SyncOf[j] \in missed'
  BY DEF ExecRaise, TypeOK
<1>c. \A x \in Syncs : /\ Finished(x)' = Finished(x) /\ ReportsReach(x)' = ReportsReach(x)
                       /\ Pending(x) => x \in missed' \/ Pending(x)'
  BY <1>a, <1>b DEF Finished, ReportsReach, Pending, JobsOf
<1>1. TypeOK' /\ DataTypes'
  BY <1>a, <1>b DEF TypeOK, DataTypes
<1>2. NotBefore' /\ Carried'
  <2>1. client[SyncOf[j]] \notin {"idle", "starting"}
    BY <1>a DEF NotBefore, JobsOf
  <2> QED
    BY <1>a, <1>b, <2>1 DEF NotBefore, Carried, JobsOf
<1>3. LockHeld'
  BY <1>a DEF LockHeld
<1>4. SawFinished' /\ CountHolds'
  BY <1>a, <1>c DEF SawFinished, CountHolds, Unsettled, TypeOK
<1>5. LeftToAnother' /\ ReportIsCurrent'
  <2>1. LeftToAnother'
    BY <1>a, <1>b DEF LeftToAnother, JobsOf
  <2>2. ReportIsCurrent'
    BY <1>a, <1>b DEF ReportIsCurrent, JobsOf
  <2> QED
    BY <2>1, <2>2
<1>6. Settles'
  BY <1>a, <1>c, SettlesKept
<1>7. Counted'
  BY <1>a DEF Counted, ErrorsAreKept, FinishBase
<1> QED
  BY <1>1, <1>2, <1>3, <1>4, <1>5, <1>6, <1>7

\* A job is given up.
LEMMA ExecGiveUpInv ==
  ASSUME SyncInv, NEW j \in Jobs, ExecGiveUp(j)
  PROVE  SyncInv'
<1> USE SyncAssumption DEF SyncInv
<1>a. /\ job[j] \in {"live", "failed"} /\ exec[j].pc = "idle"
      /\ missed \subseteq missed' /\ missed' \subseteq Syncs
      /\ UNCHANGED <<source, sync, syncLock, client, opened, batch, finish, exec, erred>>
  <2>1. job[j] \in {"live", "failed"} /\ exec[j].pc = "idle"
    BY EmptyRecords DEF ExecGiveUp, Taken
  <2>2. missed \subseteq missed' /\ missed' \subseteq Syncs
    <3>1. missed' = missed \/ missed' = missed \cup {SyncOf[j]}
      BY DEF ExecGiveUp
    <3>2. SyncOf[j] \in Syncs /\ missed \subseteq Syncs
      BY DEF TypeOK
    <3> QED
      BY <3>1, <3>2
  <2> QED
    BY <2>1, <2>2 DEF ExecGiveUp
<1>b. /\ job' \in [Jobs -> {"absent", "live", "completed", "failed", "stale"}]
      /\ \A k \in Jobs \ {j} : job'[k] = job[k]
      /\ job'[j] = "live" \/ SyncOf[j] \in missed'
  BY DEF ExecGiveUp, TypeOK
<1>c. \A x \in Syncs : /\ Finished(x)' = Finished(x) /\ ReportsReach(x)' = ReportsReach(x)
                       /\ Pending(x) => x \in missed' \/ Pending(x)'
  BY <1>a, <1>b DEF Finished, ReportsReach, Pending, JobsOf
<1>1. TypeOK' /\ DataTypes'
  BY <1>a, <1>b DEF TypeOK, DataTypes
<1>2. NotBefore' /\ Carried'
  <2>1. client[SyncOf[j]] \notin {"idle", "starting"}
    BY <1>a DEF NotBefore, JobsOf
  <2> QED
    BY <1>a, <1>b, <2>1 DEF NotBefore, Carried, JobsOf
<1>3. LockHeld'
  BY <1>a DEF LockHeld
<1>4. SawFinished' /\ CountHolds'
  BY <1>a, <1>c DEF SawFinished, CountHolds, Unsettled, TypeOK
<1>5. LeftToAnother' /\ ReportIsCurrent'
  <2>1. LeftToAnother'
    BY <1>a, <1>b DEF LeftToAnother, JobsOf
  <2>2. ReportIsCurrent'
    BY <1>a, <1>b DEF ReportIsCurrent, JobsOf
  <2> QED
    BY <2>1, <2>2
<1>6. Settles'
  BY <1>a, <1>c, SettlesKept
<1>7. Counted'
  BY <1>a DEF Counted, ErrorsAreKept, FinishBase
<1> QED
  BY <1>1, <1>2, <1>3, <1>4, <1>5, <1>6, <1>7

\* An execution is rolled back.
LEMMA ExecAbortInv ==
  ASSUME SyncInv, NEW j \in Jobs, ExecAbort(j)
  PROVE  SyncInv'
<1> USE SyncAssumption DEF SyncInv
<1>a. /\ exec[j].pc # "idle"
      /\ syncLock' = [s \in Syncs |-> IF syncLock[s] = j THEN None ELSE syncLock[s]]
      /\ UNCHANGED <<source, sync, client, opened, batch, finish, job, missed, erred>>
  BY DEF ExecAbort
<1>b. /\ exec' \in [Jobs -> Execs] /\ exec'[j].pc = "idle"
      /\ \A k \in Jobs \ {j} : exec'[k] = exec[k]
  BY EmptyRecords DEF ExecAbort, DataTypes
<1>c. \A x \in Syncs : /\ Finished(x)' = Finished(x) /\ Pending(x)' = Pending(x)
                       /\ ReportsReach(x) => ReportsReach(x)'
                       /\ Unsettled(x)' = Unsettled(x)
  BY <1>a, <1>b DEF Finished, Pending, JobsOf, ReportsReach, Unsettled
<1>1. TypeOK' /\ DataTypes'
  <2>1. syncLock' \in [Syncs -> Jobs \cup Requests \cup {None}]
    BY <1>a DEF TypeOK
  <2>2. \A k \in Jobs : /\ exec'[k].pc \in {"idle", "read", "flushed"}
                        /\ exec'[k].pc # "idle" =>
                             /\ exec'[k].result # None
                             /\ exec'[k].base + Errors(exec'[k].result) <= MaxErrors
    BY <1>b DEF TypeOK, DataTypes
  <2> QED
    BY <1>a, <1>b, <2>1, <2>2 DEF TypeOK, DataTypes
<1>2. NotBefore' /\ Carried'
  BY <1>a, <1>b DEF NotBefore, Carried, JobsOf
<1>3. LockHeld'
  <2>1. \A k \in Jobs : exec'[k].pc = "flushed" => k # j /\ exec[k].pc = "flushed"
    BY <1>b
  <2>2. \A k \in Jobs : exec'[k].pc = "flushed" => syncLock'[SyncOf[k]] = k
    BY <1>a, <2>1 DEF LockHeld
  <2>3. \A r \in Requests : finish[r].pc = "counted" => syncLock'[finish[r].sync] = r
    BY <1>a DEF LockHeld, TypeOK
  <2> QED
    BY <1>a, <2>2, <2>3 DEF LockHeld
<1>4. SawFinished' /\ CountHolds'
  BY <1>a, <1>b, <1>c DEF SawFinished, CountHolds, TypeOK
<1>5. LeftToAnother' /\ ReportIsCurrent'
  <2>1. \A k \in Jobs : exec'[k].pc = "flushed" => exec'[k] = exec[k]
    BY <1>b
  <2> QED
    BY <1>a, <2>1 DEF LeftToAnother, ReportIsCurrent, JobsOf
<1>6. Settles'
  BY <1>a, <1>c, SettlesKept
<1>7. Counted'
  BY <1>a DEF Counted, ErrorsAreKept, FinishBase
<1> QED
  BY <1>1, <1>2, <1>3, <1>4, <1>5, <1>6, <1>7

\* SyncInv is inductive.
LEMMA NextInv == SyncInv /\ [Next]_vars => SyncInv'
<1> SUFFICES ASSUME SyncInv, [Next]_vars PROVE SyncInv'
  OBVIOUS
<1>1. ASSUME NEW s \in Syncs, StartRead(s) \/ StartCommit(s) \/ Batch(s) PROVE SyncInv'
  BY <1>1, StartReadInv, StartCommitInv, BatchReadInv, BatchCommitInv, BatchFailsInv DEF Batch
<1>2. ASSUME NEW r \in Requests, Finish(r) PROVE SyncInv'
  BY <1>2, FinishReadInv, FinishCountInv, FinishCommitInv DEF Finish
<1>3. ASSUME NEW j \in Jobs, Exec(j) PROVE SyncInv'
  BY <1>3, ExecReadInv, ExecFlushInv, ExecCommitInv, ExecRaiseInv, ExecAbortInv, ExecGiveUpInv
     DEF Exec
<1>4. CASE UNCHANGED vars
  <2> USE <1>4 DEF SyncInv, vars
  <2>1. TypeOK' /\ DataTypes' /\ NotBefore' /\ Carried' /\ LockHeld'
    BY DEF TypeOK, DataTypes, NotBefore, Carried, LockHeld, JobsOf
  <2>2. SawFinished' /\ CountHolds' /\ LeftToAnother' /\ ReportIsCurrent'
    BY DEF SawFinished, CountHolds, LeftToAnother, ReportIsCurrent, Finished, Unsettled, Pending,
           JobsOf
  <2>3. Settles'
    BY DEF Settles, ReportsReach, Finished, Pending, JobsOf
  <2>4. Counted'
    BY DEF Counted, ErrorsAreKept, FinishBase
  <2> QED
    BY <2>1, <2>2, <2>3, <2>4
<1> QED
  BY <1>1, <1>2, <1>3, <1>4 DEF Next

-----------------------------------------------------------------------------
(* The theorems                                                             *)

\* Every reachable state of a source and its syncs satisfies the invariant.
THEOREM Invariance == Spec => []SyncInv
<1> QED
  BY InitInv, NextInv, PTL DEF Spec

\* Rows, requests and executions keep their types, and a request in progress
\* belongs to a sync.
THEOREM TypeCorrect == Spec => []TypeOK
<1>1. SyncInv => TypeOK
  BY DEF SyncInv
<1> QED
  BY Invariance, <1>1, PTL

\* What execute_index_document_job found out about the other jobs of its sync
\* is still true when it commits "ready".
THEOREM ReadyIsCurrent == Spec => []ReportIsCurrent
<1>1. SyncInv => ReportIsCurrent
  BY DEF SyncInv
<1> QED
  BY Invariance, <1>1, PTL

\* However syncs, batches, finish requests and executions overlap, an indexing
\* source waits for an unfinished job or for one that ended unreported.
THEOREM IndexingHasReason == Spec => []IndexingSettles
<1>1. SyncInv => IndexingSettles
  BY DEF SyncInv, Settles, IndexingSettles
<1> QED
  BY Invariance, <1>1, PTL

\* However batches, executions and finish requests write back what they loaded,
\* a sync that had an error in some committed transaction shows one, and only
\* such a sync does.
THEOREM NoErrorForgotten == Spec => []ErrorsAreKept
<1>1. SyncInv => ErrorsAreKept
  BY DEF SyncInv, Counted
<1> QED
  BY Invariance, <1>1, PTL
=============================================================================
