---------------------------- MODULE AccessControl ----------------------------
(***************************************************************************)
(* What stands before every protected endpoint: the bearer token           *)
(* (security/auth.py, get_current_user of apps/api/deps.py), the project   *)
(* role (security/rbac.py, permission_policy.py, ensure_project_access)    *)
(* and the sliding-window rate limiter (security/rate_limit.py), with the  *)
(* login endpoint and the bootstrap command that change what they read.    *)
(* Operations composes this module with the endpoints behind it.           *)
(*                                                                         *)
(* The readings of time.time() of two checks are taken to be distinct, and *)
(* the clocks of the processes to agree: every check is a tick of now.     *)
(***************************************************************************)
EXTENDS Naturals, FiniteSets

CONSTANTS
  Users,      \* accounts of one project
  Processes,  \* API server processes
  Requests,   \* POST requests to the endpoints behind the checks
  Limit,      \* user_request_limit
  Window,     \* rate_limit_window_seconds
  Lifetime,   \* access_token_expire_minutes, in ticks
  Plans       \* the deployments, and the requests sent to them

RunTypes == {"evaluator", "observer", "logging"}

ProjectRoles == {"none", "viewer", "investigator", "approver", "admin"}

PlanType ==
  [requests : SUBSET Requests, type : [Requests -> RunTypes],
   user : [Requests -> Users], process : [Requests -> Processes],
   role : [Users -> ProjectRoles], backend : {"memory", "redis"}, worker_mode : {"queue", "inline"},
   bypass : BOOLEAN, faults : Nat, ticks : Nat, logins : Nat, rotations : Nat]

ASSUME AccessAssumption ==
  /\ Limit \in Nat /\ Window \in Nat /\ Lifetime \in Nat
  /\ Plans \subseteq PlanType
  /\ IsFiniteSet(Processes)
  /\ "redis" \notin Processes

VARIABLES
  plan,      \* the settings, and the requests that will be sent
  budget,    \* bounds: ticks, logins, password rotations and faults left
  now,       \* the clock
  events,    \* events[k][s]: the times the limiter's store s keeps for key k
  admitted,  \* admitted[k]: when the limiter let a request with key k through in its turn
  account,   \* account[u]: users.token_version and project_members.role
  token,     \* token[u]: the access token u holds
  pc,        \* where each request is
  sent       \* sent[r]: the token r carries, and the version valid at its arrival

accessVars == <<plan, budget, now, events, admitted, account, token, pc, sent>>

Keys == {"login", "eval"} \X Users

Stores == Processes \cup {"redis"}

NoToken == [version |-> 0, exp |-> 0]

AccessTypeOK ==
  /\ plan \in Plans
  /\ budget \in [faults : Nat, ticks : Nat, logins : Nat, rotations : Nat]
  /\ now \in Nat
  /\ events \in [Keys -> [Stores -> SUBSET (0 .. now)]]
  /\ admitted \in [Keys -> SUBSET (0 .. now)]
  /\ account \in [Users -> [version : Nat, role : ProjectRoles]]
  /\ \A u \in Users : token[u].version <= account[u].version
  /\ \A r \in Requests : sent[r].token.version <= sent[r].valid

AccessInit ==
  /\ plan \in Plans
  /\ budget = [faults |-> plan.faults, ticks |-> plan.ticks,
               logins |-> plan.logins, rotations |-> plan.rotations]
  /\ now = 0
  /\ events = [k \in Keys |-> [s \in Stores |-> {}]]
  /\ admitted = [k \in Keys |-> {}]
  /\ account = [u \in Users |-> [version |-> 1, role |-> plan.role[u]]]
  /\ token = [u \in Users |-> [version |-> 1, exp |-> Lifetime]]
  /\ pc = [r \in Requests |-> "new"]
  /\ sent = [r \in Requests |-> [token |-> NoToken, valid |-> 0]]

Spend(what) ==
  /\ budget[what] > 0
  /\ budget' = [budget EXCEPT ![what] = @ - 1]

Goto(r, label) == pc' = [pc EXCEPT ![r] = label]

-----------------------------------------------------------------------------
(* The rate limiter *)

\* Mutant: get_rate_limiter ignores the backend that is configured.
StoreOf_Memory(p) == p

\* get_rate_limiter: one sorted set in Redis, or a deque in each process
StoreOf(p) == IF plan.backend = "redis" THEN "redis" ELSE p

\* The events still in the window of a check made at this time
Recent(k, s, at) == {t \in events[k][s] : t + Window > at}

\* RateLimiter.check: Redis records a refused request too, memory does not.
CheckInTurn(k, p, ok) ==
  LET s == StoreOf(p)
      at == now + 1
      recent == Recent(k, s, at)
  IN  /\ ok = (Cardinality(recent) < Limit)
      /\ now' = at
      /\ events' = [events EXCEPT ![k][s] =
                      IF ok \/ plan.backend = "redis" THEN recent \cup {at} ELSE recent]
      /\ admitted' = IF ok THEN [admitted EXCEPT ![k] = @ \cup {at}] ELSE admitted

\* RedisRateLimiter.check reads the clock before its pipeline runs, and a check
\* with a later reading has overtaken it: that one's reading decided what is
\* forgotten, this one's is counted from now on.
CheckOvertaken(k, ok) ==
  LET stored == events[k]["redis"]
  IN  /\ plan.backend = "redis"
      /\ \E at \in (1 .. now) \ stored :
           LET recent == Recent(k, "redis", at)
           IN  /\ \E t \in stored : at < t
               /\ ok = (Cardinality(recent) < Limit)
               /\ events' = [events EXCEPT ![k]["redis"] = recent \cup {at}]
      /\ UNCHANGED <<now, admitted>>

\* A check that none has overtaken might as well run when it reads the clock.
Check(k, p, ok) == CheckInTurn(k, p, ok) \/ CheckOvertaken(k, ok)

Tick ==
  /\ Spend("ticks")
  /\ now' = now + 1
  /\ UNCHANGED <<plan, events, admitted, account, token, pc, sent>>

\* check_rate_limit of the eval endpoint; the others are not limited
RateLimit(r, ok) ==
  /\ pc[r] = "authenticated"
  /\ plan.type[r] = "evaluator"
  /\ Check(<<"eval", plan.user[r]>>, plan.process[r], ok)
  /\ Goto(r, IF ok THEN "admitted" ELSE "refused")
  /\ UNCHANGED <<plan, budget, account, token, sent>>

-----------------------------------------------------------------------------
(* Tokens *)

\* login: a wrong password costs an event of the limiter and changes nothing else.
Login(u, p, password) ==
  /\ Spend("logins")
  /\ \E ok \in BOOLEAN :
       /\ Check(<<"login", u>>, p, ok)
       /\ token' = IF ok /\ password
                   THEN [token EXCEPT ![u] = [version |-> account[u].version,
                                              exp |-> now + Lifetime]]
                   ELSE token
  /\ UNCHANGED <<plan, account, pc, sent>>

\* bootstrap_admin with --project-id, and with --update-password or without
BootstrapAdmin(u, update) ==
  /\ Spend("rotations")
  /\ account' = [account EXCEPT ![u] =
                   [version |-> IF update THEN @.version + 1 ELSE @.version, role |-> "admin"]]
  /\ UNCHANGED <<plan, now, events, admitted, token, pc, sent>>

Arrive(r) ==
  LET u == plan.user[r]
  IN  /\ pc[r] = "new" /\ r \in plan.requests
      /\ sent' = [sent EXCEPT ![r] = [token |-> token[u], valid |-> account[u].version]]
      /\ Goto(r, "arrived")
      /\ UNCHANGED <<plan, budget, now, events, admitted, account, token>>

\* Mutant: get_current_user does not compare the token's version.
TokenValid_AnyVersion(r) == now < sent[r].token.exp

\* decode_token and get_current_user
TokenValid(r) ==
  /\ now < sent[r].token.exp
  /\ sent[r].token.version = account[plan.user[r]].version

\* require_user
Authenticate(r) ==
  /\ pc[r] = "arrived"
  /\ Goto(r, IF TokenValid(r) THEN "authenticated" ELSE "refused")
  /\ UNCHANGED <<plan, budget, now, events, admitted, account, token, sent>>

-----------------------------------------------------------------------------
(* Roles *)

ROLE_ORDER == [none |-> 0, viewer |-> 1, investigator |-> 2, approver |-> 3, admin |-> 4]

role_allows(actual, minimum) == actual # "none" /\ ROLE_ORDER[actual] >= ROLE_ORDER[minimum]

\* ensure_project_access for an existing project, with _project_bypass_allowed
Allowed(r, minimum) == plan.bypass \/ role_allows(account[plan.user[r]].role, minimum)

\* The operations and eval endpoints ask for an admin of the project.
CheckAccess(r) ==
  /\ pc[r] = IF plan.type[r] = "evaluator" THEN "admitted" ELSE "authenticated"
  /\ Goto(r, IF Allowed(r, "admin") THEN "allowed" ELSE "refused")
  /\ UNCHANGED <<plan, budget, now, events, admitted, account, token, sent>>

AccessNext ==
  \/ Tick
  \/ \E u \in Users, p \in Processes, password \in BOOLEAN : Login(u, p, password)
  \/ \E u \in Users, update \in BOOLEAN : BootstrapAdmin(u, update)
  \/ \E r \in Requests :
       \/ Arrive(r)
       \/ Authenticate(r)
       \/ \E ok \in BOOLEAN : RateLimit(r, ok)
       \/ CheckAccess(r)

-----------------------------------------------------------------------------
\* In no window of Window ticks does the limiter let more than Limit requests
\* with one key through; with the memory backend, which every process keeps for
\* itself, not more than Limit for each process (RateLimiter.check).  A check that
\* another one has overtaken on its way to Redis is not counted: what should keep
\* it out may have been forgotten already.
AdmittedBounded ==
  LET stores == IF plan.backend = "redis" THEN 1 ELSE Cardinality(Processes)
  IN  \A k \in Keys : \A t \in admitted[k] :
        Cardinality({x \in admitted[k] : x <= t /\ t < x + Window}) <= Limit * stores
=============================================================================
