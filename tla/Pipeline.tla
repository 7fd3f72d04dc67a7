------------------------------ MODULE Pipeline ------------------------------
(***************************************************************************)
(* middleware/__init__.py: the four middleware around the task body, for   *)
(* deliveries that one worker process runs concurrently.  pre_execute runs *)
(* top-down, on_error (when the body raised) and post_execute bottom-up.   *)
(*                                                                         *)
(* What travels between them is the context: the ContextVars of            *)
(* core/logging.py and core/tenants.py.  TaskIQ runs every delivery as an  *)
(* asyncio task, so each delivery has values of its own.  The database     *)
(* work of state tracking is in StateTracking; here it is a hook that may  *)
(* take its time, may log attempts of @db_retry and refused retries, and   *)
(* may raise.                                                              *)
(***************************************************************************)
EXTENDS MessageIds

CONSTANTS Delivery,    \* the deliveries of a process
          Messages     \* the messages considered, a subset of Message

ASSUME MessagesAssumption == Messages \subseteq Message

Middleware == <<"logging", "tenant", "metrics", "state">>

Phase == {"pre", "body", "error", "post", "done", "raised"}

VARIABLES message,     \* message[d]: what d delivers, fixed
          phase, turn, \* where d is: the hook, and the middleware whose turn it is
          failed,      \* result.is_err
          owned,       \* on_error handed the outcome to a retry: post_execute skips
          logContext,  \* core/logging.py: the task is set, and the tenant
          tenantVar,   \* core/tenants.py
          lines,       \* the log lines of the last step that logged, with their tenants
          bodyTenant,  \* history: the tenant the task body read
          rooms        \* history: rooms[d], the tenants to whose room d sent an event

vars == <<message, phase, turn, failed, owned, logContext, tenantVar, lines,
          bodyTenant, rooms>>

Context == [task : BOOLEAN, tenant : Id \cup {None}]

NoContext == [task |-> FALSE, tenant |-> None]

Init ==
    /\ message \in [Delivery -> Messages]
    /\ phase = [d \in Delivery |-> "pre"]
    /\ turn = [d \in Delivery |-> 1]
    /\ failed = [d \in Delivery |-> FALSE]
    /\ owned = [d \in Delivery |-> FALSE]
    /\ logContext = [d \in Delivery |-> NoContext]
    /\ tenantVar = [d \in Delivery |-> None]
    /\ lines = {}
    /\ bodyTenant = [d \in Delivery |-> None]
    /\ rooms = [d \in Delivery |-> {}]

\* It is for this middleware to run its part of the hook that d is in.
Turn(d, middleware) ==
    phase[d] \in {"pre", "error", "post"} /\ Middleware[turn[d]] = middleware

At(d, hook, middleware) == phase[d] = hook /\ Turn(d, middleware)

\* The middleware is done with its hook: the next one, or what follows the last one.
Advance(d) ==
    LET down == phase[d] = "pre"
        last == turn[d] = IF down THEN 4 ELSE 1
    IN  /\ phase' = [phase EXCEPT ![d] =
                        IF ~ last THEN @
                        ELSE IF down THEN "body"
                        ELSE IF @ = "error" THEN "post" ELSE "done"]
        /\ turn' = [turn EXCEPT ![d] =
                        IF last THEN 4 ELSE IF down THEN @ + 1 ELSE @ - 1]

\* A log line with the values of get_logging_context, or with none of them.
Line(d, text, context) ==
    [of |-> d, phase |-> phase[d], text |-> text, tenant |-> context.tenant]

(***************************************************************************)
(* core/logging.py                                                         *)
(***************************************************************************)

\* The context is a global of the process.
SetTaskContext_Global(d, task, tenant) ==
    logContext' = [e \in Delivery |->
                      [task   |-> logContext[e].task \/ task,
                       tenant |-> IF tenant = None THEN logContext[e].tenant ELSE tenant]]

\* Only what is given is set.
SetTaskContext(d, task, tenant) ==
    logContext' = [logContext EXCEPT
                      ![d].task   = @ \/ task,
                      ![d].tenant = IF tenant = None THEN @ ELSE tenant]

ClearTaskContext(d) == logContext' = [logContext EXCEPT ![d] = NoContext]

(***************************************************************************)
(* logging_mw.py                                                           *)
(***************************************************************************)

LoggingPre(d) ==
    /\ At(d, "pre", "logging")
    /\ SetTaskContext(d, TRUE, None)
    /\ lines' = {Line(d, "task_started", logContext'[d])}
    /\ Advance(d)
    /\ UNCHANGED <<message, failed, owned, tenantVar, bodyTenant, rooms>>

LoggingError(d) ==
    /\ At(d, "error", "logging")
    /\ lines' = {Line(d, "task_exception", logContext[d])}
    /\ ClearTaskContext(d)
    /\ Advance(d)
    /\ UNCHANGED <<message, failed, owned, tenantVar, bodyTenant, rooms>>

\* The context is left as it is, whatever the result.
LoggingPost(d) ==
    /\ At(d, "post", "logging")
    /\ lines' = {Line(d, IF failed[d] THEN "task_error" ELSE "task_completed",
                      logContext[d])}
    /\ Advance(d)
    /\ UNCHANGED <<message, failed, owned, logContext, tenantVar, bodyTenant, rooms>>

(***************************************************************************)
(* tenant.py                                                               *)
(***************************************************************************)

TenantPre(d) ==
    /\ At(d, "pre", "tenant")
    /\ LET tenant == ContextTenant(message[d])
       IN  /\ tenantVar' = [tenantVar EXCEPT ![d] = IF tenant = None THEN @ ELSE tenant]
           /\ SetTaskContext(d, FALSE, tenant)
           /\ lines' = IF tenant = None THEN lines
                       ELSE {Line(d, "tenant_context_set", logContext'[d])}
    /\ Advance(d)
    /\ UNCHANGED <<message, failed, owned, bodyTenant, rooms>>

\* Only the tenant of core/tenants.py is cleared, not the one of the log lines.
TenantClear(d) ==
    /\ At(d, "error", "tenant") \/ At(d, "post", "tenant")
    /\ tenantVar' = [tenantVar EXCEPT ![d] = None]
    /\ Advance(d)
    /\ UNCHANGED <<message, failed, owned, logContext, lines, bodyTenant, rooms>>

(***************************************************************************)
(* metrics_mw.py (its counters are in TaskMetrics) and the task body       *)
(***************************************************************************)

MetricsHook(d) ==
    /\ Turn(d, "metrics")
    /\ Advance(d)
    /\ UNCHANGED <<message, failed, owned, logContext, tenantVar, lines, bodyTenant, rooms>>

\* The body logs with the task context, may read the tenant, and returns or raises.
RunTask(d) ==
    /\ phase[d] = "body"
    /\ lines' = {Line(d, "task_step", logContext[d])}
    /\ bodyTenant' = [bodyTenant EXCEPT ![d] = tenantVar[d]]
    /\ \E raised \in BOOLEAN :
          /\ failed' = [failed EXCEPT ![d] = raised]
          /\ phase' = [phase EXCEPT ![d] = IF raised THEN "error" ELSE "post"]
    /\ UNCHANGED <<message, turn, owned, logContext, tenantVar, rooms>>

(***************************************************************************)
(* state_tracking.py                                                       *)
(***************************************************************************)

\* A message without a task_execution_id is not tracked, and post_execute leaves the
\* outcome to an on_error that dispatched or shadowed a retry.
Skipped(d) == ExecutionId(message[d]) = None \/ (phase[d] = "post" /\ owned[d])

StateSkips(d) ==
    /\ Turn(d, "state") /\ Skipped(d)
    /\ Advance(d)
    /\ UNCHANGED <<message, failed, owned, logContext, tenantVar, lines, bodyTenant, rooms>>

\* The attempts that @db_retry repeats are logged.
StateRetries(d) ==
    /\ Turn(d, "state") /\ ~ Skipped(d)
    /\ lines' = {Line(d, "db_operation_retry", logContext[d])}
    /\ UNCHANGED <<message, phase, turn, failed, owned, logContext, tenantVar, bodyTenant,
                   rooms>>

\* A retry that the broker refuses is logged without the context, whether or not a
\* replay of on_error sends it after all.
StateRequeueFails(d) ==
    /\ At(d, "error", "state") /\ ~ Skipped(d)
    /\ lines' = {Line(d, "task_requeue_error", NoContext)}
    /\ UNCHANGED <<message, phase, turn, failed, owned, logContext, tenantVar, bodyTenant,
                   rooms>>

\* The status is committed and its event goes to the tenant's room, if there is one.
\* An event that cannot be made or sent leaves a line without the context
\* (realtime_emit_failed of the emitter is another such line).
StateCommits(d) ==
    /\ Turn(d, "state") /\ ~ Skipped(d)
    /\ LET tenant == EventTenant(message[d])
       IN  /\ rooms' = [rooms EXCEPT ![d] = IF tenant = None THEN @ ELSE @ \cup {tenant}]
           /\ \/ UNCHANGED lines
              \/ tenant # None /\ lines' = {Line(d, "realtime_emit_error", NoContext)}
    /\ \E retried \in BOOLEAN :
          owned' = [owned EXCEPT ![d] = @ \/ (phase[d] = "error" /\ retried)]
    /\ Advance(d)
    /\ UNCHANGED <<message, failed, logContext, tenantVar, bodyTenant>>

\* The hook raises into the receiver: no later hook runs.
StateRaises(d) ==
    /\ Turn(d, "state") /\ ~ Skipped(d)
    /\ phase' = [phase EXCEPT ![d] = "raised"]
    /\ UNCHANGED <<message, turn, failed, owned, logContext, tenantVar, lines, bodyTenant,
                   rooms>>

(***************************************************************************)
(* The specification                                                       *)
(***************************************************************************)

Step(d) ==
    \/ LoggingPre(d) \/ LoggingError(d) \/ LoggingPost(d)
    \/ TenantPre(d) \/ TenantClear(d)
    \/ MetricsHook(d) \/ RunTask(d)
    \/ StateSkips(d) \/ StateRetries(d) \/ StateRequeueFails(d)
    \/ StateCommits(d) \/ StateRaises(d)

Next == \E d \in Delivery : Step(d)

Spec == Init /\ [][Next]_vars

(***************************************************************************)
(* Properties                                                              *)
(***************************************************************************)

\* The body of a task and the events about it never disagree on the tenant: when the
\* body runs under a tenant the events go to that tenant's room and to no other,
\* although two middleware look for it by themselves.
EventsFollowTenant ==
    \A d \in Delivery : bodyTenant[d] # None => rooms[d] \subseteq {bodyTenant[d]}

\* The lines that name no tenant: the first one, logged before the tenant is known;
\* those of a refused retry or a failed event, logged without the context; and those
\* of a failed task after on_error cleared the context, its task_error line among them.
TenantLess(l) ==
    \/ l.text \in {"task_started", "task_requeue_error", "realtime_emit_error"}
    \/ l.phase = "post" /\ failed[l.of]

\* Every other log line of a delivery names the tenant of its own message, whatever
\* deliveries the process runs besides.  core/logging.py claims it of all entries.
LinesNameTenant ==
    \A l \in lines :
        l.tenant = IF TenantLess(l) THEN None ELSE ContextTenant(message[l.of])

\* The message form of dispatch_example_task engages the whole pipeline: the body runs
\* under the tenant, and each hook announces to its room.
DispatchShapeEngages ==
    \A d \in Delivery : \A tenant, execution \in Id :
        message[d] = Dispatched(tenant, execution) /\ phase[d] = "done" =>
            bodyTenant[d] = tenant /\ rooms[d] = {tenant}
=============================================================================
