---------------------------- MODULE MCOperations ----------------------------
(* Small instances of Operations for TLC.                                   *)
EXTENDS Operations, TLC

CONSTANTS r1, r2, r3, p1, p2, ops, member

\* A deployment with two processes and two accounts, and what is sent to it
Deployment(requests, types, callers, backend, mode, bypass) ==
  [requests |-> requests,
   type |-> r1 :> types[1] @@ r2 :> types[2] @@ r3 :> types[3],
   user |-> r1 :> callers[1] @@ r2 :> callers[2] @@ r3 :> callers[3],
   process |-> r1 :> p1 @@ r2 :> p2 @@ r3 :> p1,
   role |-> ops :> "admin" @@ member :> "approver",
   backend |-> backend, worker_mode |-> mode, bypass |-> bypass,
   faults |-> 0, ticks |-> 0, logins |-> 0, rotations |-> 0]

Observers == <<"observer", "observer", "logging">>
Evaluators == <<"evaluator", "evaluator", "evaluator">>
Admins == <<ops, ops, ops>>

\* Two requests with one key, or one evaluation, and faults; the limiter at its
\* limit; revoked tokens and missing roles
MCPlans ==
  { [Deployment({r1, r2}, Observers, Admins, "memory", "queue", FALSE) EXCEPT !.faults = 3],
    [Deployment({r1}, Evaluators, Admins, "memory", "queue", FALSE) EXCEPT !.faults = 4] }
  \cup
  { [Deployment(Requests, Evaluators, Admins, backend, "inline", FALSE)
      EXCEPT !.ticks = 2, !.logins = 1] : backend \in {"memory", "redis"} }
  \cup
  { [Deployment(Requests, Observers, <<ops, member, ops>>, "redis", "inline", FALSE)
      EXCEPT !.rotations = 1],
    [Deployment({r1, r2}, Observers, <<ops, member, ops>>, "redis", "inline", TRUE)
      EXCEPT !.ticks = 1, !.logins = 1, !.rotations = 2] }
=============================================================================
