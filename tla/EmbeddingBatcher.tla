-------------------------- MODULE EmbeddingBatcher --------------------------
(***************************************************************************)
(* AsyncEmbeddingBatcher (incidentops/retrieval/embeddings.py), the one    *)
(* object through which all index jobs of a worker process obtain their    *)
(* embeddings.  Concurrent embed() calls are gathered for a window and     *)
(* sent to the provider together; each caller awaits a future that the     *)
(* flush resolves.                                                         *)
(*                                                                         *)
(* A step runs from one suspension point of the event loop to the next.    *)
(* The asyncio.Lock is never held across an await, so taking it does not   *)
(* suspend and every critical section is part of its caller's step.  A     *)
(* text is a pair <<call, index>> and stands for its own vector.           *)
(***************************************************************************)
EXTENDS Naturals, Sequences, SequencesExt

CONSTANTS
  Calls,       \* the embed() calls of a behaviour
  Size,        \* Size[c]: len(texts)
  Kind,        \* Kind[c]: (model_name, input_type)
  MaxTexts,    \* self.max_texts
  Window,      \* the _flush_after_window task, as one who runs _flush
  MaxCancels   \* bound: embed() calls cancelled by their job's timeout

ASSUME BatcherAssumption ==
  /\ Size \in [Calls -> Nat]
  /\ DOMAIN Kind = Calls
  /\ MaxTexts \in Nat \ {0}
  /\ Window \notin Calls
  /\ MaxCancels \in Nat

Flushers == Calls \cup {Window}

VARIABLES
  pending,      \* self._pending
  pendingTexts, \* self._pending_texts
  task,         \* self._flush_task: none, sleeping, flushing, done
  batch,        \* batch[f]: the requests f has in flight at the provider
  future,       \* future[c]: open, cancelled, failed or the vectors
  call,         \* where each embed() call is
  cancels       \* cancellations so far

vars == <<pending, pendingTexts, task, batch, future, call, cancels>>

Texts(c) == [i \in 1 .. Size[c] |-> <<c, i>>]

\* [text for request in requests for text in request.texts]
AllTexts(requests) == FlattenSeq([k \in DOMAIN requests |-> Texts(requests[k])])

Unset(s) == [status |-> s, vectors |-> <<>>]

TypeOK ==
  /\ \A k \in DOMAIN pending : pending[k] \in Calls
  /\ pendingTexts \in 0 .. MaxTexts - 1
  /\ task \in {"none", "sleeping", "flushing", "done"}
  /\ \A f \in Flushers : \A k \in DOMAIN batch[f] : batch[f][k] \in Calls
  /\ \A c \in Calls : future[c].status \in {"none", "open", "cancelled", "failed", "ok"}
  /\ call \in [Calls -> {"idle", "waiting", "flushing", "returned", "raised", "cancelled"}]
  /\ cancels \in 0 .. MaxCancels

Init ==
  /\ pending = <<>>
  /\ pendingTexts = 0
  /\ task = "none"
  /\ batch = [f \in Flushers |-> <<>>]
  /\ future = [c \in Calls |-> Unset("none")]
  /\ call = [c \in Calls |-> "idle"]
  /\ cancels = 0

Done(c) == future[c].status # "open"

\* The futures of the requests, where they are not done yet, become outcomes[k].
\* open: the futures as they are when the loop over the requests starts.
Resolve(open, requests, outcomes) ==
  [c \in Calls |->
     IF open[c].status = "open" /\ Contains(requests, c)
     THEN outcomes[CHOOSE k \in DOMAIN requests : requests[k] = c]
     ELSE open[c]]

AllFailed(requests) == [k \in DOMAIN requests |-> Unset("failed")]

\* any(request.model_name != first.model_name or request.input_type != ...)
Mixed(requests) == \E k \in DOMAIN requests : Kind[requests[k]] # Kind[requests[1]]

\* Mutant: the list is copied, not swapped.
Flush_NoSwap(f, requests, open) ==
  /\ pending' = pending
  /\ pendingTexts' = 0
  /\ \/ /\ requests = <<>> \/ Mixed(requests)
        /\ future' = Resolve(open, requests, AllFailed(requests))
        /\ UNCHANGED batch
     \/ /\ requests # <<>> /\ ~Mixed(requests)
        /\ batch' = [batch EXCEPT ![f] = requests]
        /\ future' = open

\* _flush by f, up to the provider call: the requests are swapped out under
\* the lock; mixed requests fail at once.
\* open: the futures, that of the calling request included.
Flush(f, requests, open) ==
  /\ pending' = <<>>
  /\ pendingTexts' = 0
  /\ \/ /\ requests = <<>> \/ Mixed(requests)
        /\ future' = Resolve(open, requests, AllFailed(requests))
        /\ UNCHANGED batch
     \/ /\ requests # <<>> /\ ~Mixed(requests)
        /\ batch' = [batch EXCEPT ![f] = requests]
        /\ future' = open

-----------------------------------------------------------------------------
(* embed                                                                    *)

\* Without texts there is nothing to wait for.
EmbedNothing(c) ==
  /\ call[c] = "idle" /\ Size[c] = 0
  /\ future' = [future EXCEPT ![c] = [status |-> "ok", vectors |-> <<>>]]
  /\ call' = [call EXCEPT ![c] = "returned"]
  /\ UNCHANGED <<pending, pendingTexts, task, batch, cancels>>

\* Mutant: a full batch waits for the window as well.
EmbedWait_OffByOne(c) ==
  /\ call[c] = "idle" /\ Size[c] > 0
  /\ pendingTexts + Size[c] <= MaxTexts
  /\ pending' = Append(pending, c)
  /\ pendingTexts' = pendingTexts + Size[c]
  /\ future' = [future EXCEPT ![c] = Unset("open")]
  /\ task' = IF task \in {"none", "done"} THEN "sleeping" ELSE task
  /\ call' = [call EXCEPT ![c] = "waiting"]
  /\ UNCHANGED <<batch, cancels>>

\* The request fits: it waits for the window, which it opens unless a flush
\* task is still alive.
EmbedWait(c) ==
  /\ call[c] = "idle" /\ Size[c] > 0
  /\ pendingTexts + Size[c] < MaxTexts
  /\ pending' = Append(pending, c)
  /\ pendingTexts' = pendingTexts + Size[c]
  /\ future' = [future EXCEPT ![c] = Unset("open")]
  /\ task' = IF task \in {"none", "done"} THEN "sleeping" ELSE task
  /\ call' = [call EXCEPT ![c] = "waiting"]
  /\ UNCHANGED <<batch, cancels>>

\* The request fills the batch: its caller flushes at once.
EmbedFlush(c) ==
  /\ call[c] = "idle" /\ Size[c] > 0
  /\ pendingTexts + Size[c] >= MaxTexts
  /\ Flush(c, Append(pending, c), [future EXCEPT ![c] = Unset("open")])
  /\ call' = [call EXCEPT ![c] = IF batch'[c] # <<>> THEN "flushing" ELSE "waiting"]
  /\ UNCHANGED <<task, cancels>>

\* return await future
Return(c) ==
  /\ call[c] = "waiting" /\ Done(c)
  /\ call' = [call EXCEPT ![c] = IF future[c].status = "ok" THEN "returned" ELSE "raised"]
  /\ UNCHANGED <<pending, pendingTexts, task, batch, future, cancels>>

\* The worker's wait_for cancels the job while it waits: awaiting a future
\* cancels it too; awaiting the provider in _flush abandons the batch, since
\* "except Exception" does not see CancelledError.
Cancel(c) ==
  /\ cancels < MaxCancels
  /\ call[c] \in {"waiting", "flushing"}
  /\ cancels' = cancels + 1
  /\ call' = [call EXCEPT ![c] = "cancelled"]
  /\ future' = IF call[c] = "waiting" /\ ~Done(c)
               THEN [future EXCEPT ![c] = Unset("cancelled")] ELSE future
  /\ batch' = [batch EXCEPT ![c] = <<>>]
  /\ UNCHANGED <<pending, pendingTexts, task>>

-----------------------------------------------------------------------------
(* _flush_after_window and the provider                                     *)

WindowExpires ==
  /\ task = "sleeping"
  /\ Flush(Window, pending, future)
  /\ task' = IF batch'[Window] # <<>> THEN "flushing" ELSE "done"
  /\ UNCHANGED <<call, cancels>>

\* f's _flush returns: a caller goes on to await its future, the task is done.
FlushReturns(f) ==
  /\ batch' = [batch EXCEPT ![f] = <<>>]
  /\ task' = IF f = Window THEN "done" ELSE task
  /\ call' = [c \in Calls |-> IF c = f THEN "waiting" ELSE call[c]]
  /\ UNCHANGED <<pending, pendingTexts, cancels>>

\* Mutant: the offset only advances past requests that still wait.
Slice_WaitingOnly(requests, k) ==
  LET offset == Len(AllTexts(SelectSeq(SubSeq(requests, 1, k - 1), LAMBDA c : ~Done(c))))
  IN SubSeq(AllTexts(requests), offset + 1, offset + Size[requests[k]])

\* vectors[offset : offset + count] for the k-th request.
Slice(requests, k) ==
  LET offset == Len(AllTexts(SubSeq(requests, 1, k - 1)))
  IN SubSeq(AllTexts(requests), offset + 1, offset + Size[requests[k]])

ProviderReplies(f) ==
  /\ batch[f] # <<>>
  /\ future' = Resolve(future, batch[f],
                       [k \in DOMAIN batch[f] |->
                          [status |-> "ok", vectors |-> Slice(batch[f], k)]])
  /\ FlushReturns(f)

\* Mutant: the done() check is missing.
ProviderFails_Always(f) ==
  /\ batch[f] # <<>>
  /\ future' = [c \in Calls |-> IF Contains(batch[f], c) THEN Unset("failed") ELSE future[c]]
  /\ FlushReturns(f)

\* Mutant: the error only reaches the first request.
ProviderFails_First(f) ==
  /\ batch[f] # <<>>
  /\ future' = Resolve(future, SubSeq(batch[f], 1, 1), AllFailed(batch[f]))
  /\ FlushReturns(f)

ProviderFails(f) ==
  /\ batch[f] # <<>>
  /\ future' = Resolve(future, batch[f], AllFailed(batch[f]))
  /\ FlushReturns(f)

Provider(f) == ProviderReplies(f) \/ ProviderFails(f)

Next ==
  \/ \E c \in Calls : EmbedNothing(c) \/ EmbedWait(c) \/ EmbedFlush(c) \/ Return(c) \/ Cancel(c)
  \/ WindowExpires
  \/ \E f \in Flushers : Provider(f)

Spec == Init /\ [][Next]_vars

\* The event loop resumes what can run, the sleep ends, and the provider call
\* ends because its HTTP client has a timeout and a bounded number of retries.
Fairness ==
  /\ WF_vars(WindowExpires)
  /\ \A f \in Flushers : WF_vars(Provider(f))
  /\ \A c \in Calls : WF_vars(Return(c))

FairSpec == Spec /\ Fairness

-----------------------------------------------------------------------------
(* Properties.                                                              *)

\* A caller only ever receives the vectors of its own texts, in their order,
\* whichever requests shared its batch and whichever of them were cancelled
\* meanwhile (the offset arithmetic of _flush).
OwnVectors ==
  \A c \in Calls : call[c] = "returned" => future[c].vectors = Texts(c)

\* Provider batches are bounded: what had gathered before the last request of
\* a batch was below max_texts, so a batch exceeds max_texts by less than its
\* last request.
BatchesBounded ==
  \A f \in Flushers : batch[f] # <<>> =>
    Len(AllTexts(SubSeq(batch[f], 1, Len(batch[f]) - 1))) < MaxTexts

\* A request is embedded once: it waits or is in one batch, never in two
\* concurrent flushes.
OneBatchPerRequest ==
  \A c \in Calls :
    /\ \A f, g \in Flushers :
         Contains(batch[f], c) /\ Contains(batch[g], c) => f = g
    /\ \A f \in Flushers : ~(Contains(pending, c) /\ Contains(batch[f], c))

\* A future is resolved once: a cancelled or answered request keeps its
\* outcome when its batch comes back.
ResolvedOnce ==
  [][\A c \in Calls : future[c].status \in {"ok", "failed", "cancelled"}
                        => future'[c] = future[c]]_vars

\* Every request of a batch is answered, by vectors or by the provider's
\* error, unless the caller that runs the flush is itself cancelled.
BatchesResolve ==
  \A f \in Flushers, c \in Calls :
    Contains(batch[f], c) ~> \/ Done(c)
                             \/ f \in Calls /\ call[f] = "cancelled"

\* Claimed by the class comment (calls are coalesced "into bounded provider
\* batches"): a caller that waits is answered.
EveryCallAnswered ==
  \A c \in Calls : call[c] = "waiting" ~> call[c] \in {"returned", "raised"}
=============================================================================
