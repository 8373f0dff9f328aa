-------------------------- MODULE IndexJobLifecycle --------------------------
(***************************************************************************)
(* What the asynchronous indexing pipeline promises about one row of the   *)
(* index_jobs table, with the queue, the dispatcher and the workers        *)
(* abstracted away: a submitted document stays live until it is indexed,   *)
(* gives up after a bounded number of attempts, or is retired because the  *)
(* index version moved on.  IndexJobs implements this specification.       *)
(***************************************************************************)
EXTENDS Naturals

CONSTANTS Jobs,        \* the index_jobs rows
          MaxAttempts  \* settings.rag_index_max_retries

VARIABLES phase,  \* phase[j]: what an observer of the table knows of job j
          spent   \* spent[j]: the attempts charged to job j

vars == <<phase, spent>>

Phases == {"absent", "live", "completed", "failed", "stale", "purged"}

Init == /\ phase = [j \in Jobs |-> "absent"]
        /\ spent = [j \in Jobs |-> 0]

\* The ingest endpoint commits a new row.
Submit(j) == /\ phase[j] = "absent"
             /\ phase' = [phase EXCEPT ![j] = "live"]
             /\ UNCHANGED spent

\* One attempt is charged and its outcome recorded in the same step.  A row
\* stays live only while it has attempts left; a failed row may be tried again
\* by a duplicate delivery, but never beyond the limit.
Attempt(j) ==
  /\ phase[j] \in {"live", "failed"}
  /\ spent[j] < MaxAttempts
  /\ spent' = [spent EXCEPT ![j] = @ + 1]
  /\ \E p \in {"live", "completed", "failed"} :
       /\ p = "live" => spent[j] + 1 < MaxAttempts
       /\ phase' = [phase EXCEPT ![j] = p]

\* The row belongs to an index version that is no longer served.
Retire(j) == /\ phase[j] \in {"live", "failed"}
             /\ phase' = [phase EXCEPT ![j] = "stale"]
             /\ UNCHANGED spent

\* The source, and with it the row, is purged.
Remove(j) == /\ phase[j] \notin {"absent", "purged"}
             /\ phase' = [phase EXCEPT ![j] = "purged"]
             /\ UNCHANGED spent

Next == \E j \in Jobs : Submit(j) \/ Attempt(j) \/ Retire(j) \/ Remove(j)

Spec == Init /\ [][Next]_vars
=============================================================================
