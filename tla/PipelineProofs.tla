--------------------------- MODULE PipelineProofs ---------------------------
(***************************************************************************)
(* The tenant a task runs under is the tenant of its events, for every     *)
(* message, every set of ids and any number of deliveries.                 *)
(***************************************************************************)
EXTENDS Pipeline, TLAPS

\* The least element of a set that holds 1, and of one that holds 2 and not 1.
LEMMA LeastIndex ==
    ASSUME NEW S, S \subseteq 1 .. 3
    PROVE  /\ 1 \in S => Min(S) = 1
           /\ 1 \notin S /\ 2 \in S => Min(S) = 2
<1>1. Min(S) = CHOOSE x \in S : \A y \in S : x <= y
  BY DEF Min
<1>2. ASSUME 1 \in S PROVE Min(S) = 1
  <2>1. 1 \in S /\ \A y \in S : 1 <= y
    BY <1>2
  <2>2. \A x \in S : (\A y \in S : x <= y) => x = 1
    BY <1>2
  <2> QED
    BY <1>1, <2>1, <2>2
<1>3. ASSUME 1 \notin S, 2 \in S PROVE Min(S) = 2
  <2>1. 2 \in S /\ \A y \in S : 2 <= y
    BY <1>3
  <2>2. \A x \in S : (\A y \in S : x <= y) => x = 2
    BY <1>3
  <2> QED
    BY <1>1, <2>1, <2>2
<1> QED
  BY <1>2, <1>3

\* A UUID found among the first two fields is found with a third one after them.
LEMMA FirstPresentExtends ==
    ASSUME NEW x, NEW y, NEW z, FirstPresent(<<x, y>>) # None
    PROVE  FirstPresent(<<x, y, z>>) = FirstPresent(<<x, y>>)
<1> DEFINE two   == {i \in DOMAIN <<x, y>> : <<x, y>>[i] # Absent}
           three == {i \in DOMAIN <<x, y, z>> : <<x, y, z>>[i] # Absent}
<1>1. /\ two \subseteq 1 .. 3 /\ three \subseteq 1 .. 3
      /\ 1 \in two <=> x # Absent
      /\ 2 \in two <=> y # Absent
      /\ 1 \in three <=> x # Absent
      /\ 2 \in three <=> y # Absent
      /\ 3 \notin two
  OBVIOUS
<1>2. two # {}
  BY DEF FirstPresent
<1>3. /\ FirstPresent(<<x, y>>) = Parse(<<x, y>>[Min(two)])
      /\ three # {} => FirstPresent(<<x, y, z>>) = Parse(<<x, y, z>>[Min(three)])
  BY <1>2 DEF FirstPresent
<1>4. 1 \in two \/ 2 \in two
  BY <1>1, <1>2
<1> HIDE DEF two, three
<1>5. CASE x # Absent
  <2>1. Min(two) = 1 /\ Min(three) = 1 /\ three # {}
    BY <1>1, <1>5, LeastIndex
  <2> QED
    BY <1>3, <2>1
<1>6. CASE x = Absent
  <2>1. Min(two) = 2 /\ Min(three) = 2 /\ three # {}
    BY <1>1, <1>4, <1>6, LeastIndex
  <2> QED
    BY <1>3, <2>1
<1> QED
  BY <1>5, <1>6

\* The two extractions of the tenant agree whenever the one of the context finds a
\* tenant: _extract_tenant_id of state_tracking.py only adds a source behind the others.
THEOREM TenantsAgree ==
    ASSUME NEW m, ContextTenant(m) # None
    PROVE  EventTenant(m) = ContextTenant(m)
BY FirstPresentExtends DEF ContextTenant, EventTenant

(***************************************************************************)
(* The pipeline                                                            *)
(***************************************************************************)

\* What a delivery read, and where its events went, come from its message.
TenantInv ==
    \A d \in Delivery :
        /\ tenantVar[d] \in {None, ContextTenant(message[d])}
        /\ bodyTenant[d] \in {None, ContextTenant(message[d])}
        /\ rooms[d] \subseteq {EventTenant(message[d])}

TypeInv ==
    /\ DOMAIN tenantVar = Delivery /\ DOMAIN bodyTenant = Delivery /\ DOMAIN rooms = Delivery

LEMMA TenantInvInductive ==
    /\ Init => TypeInv /\ TenantInv
    /\ TypeInv /\ TenantInv /\ [Next]_vars => (TypeInv /\ TenantInv)'
<1>1. Init => TypeInv /\ TenantInv
  BY DEF Init, TypeInv, TenantInv
<1>2. ASSUME TypeInv, TenantInv, [Next]_vars
      PROVE  TypeInv' /\ TenantInv'
  <2> USE <1>2 DEF TypeInv, TenantInv
  <2>1. CASE UNCHANGED vars
    BY <2>1 DEF vars
  <2>2. CASE Next
    <3>1. PICK d \in Delivery : Step(d)
      BY <2>2 DEF Next
    <3>2. message' = message
      BY <3>1 DEF Step, LoggingPre, LoggingError, LoggingPost, TenantPre, TenantClear,
                  MetricsHook, RunTask, StateSkips, StateRetries, StateRequeueFails,
                  StateCommits, StateRaises
    <3>3. CASE TenantPre(d)
      BY <3>2, <3>3 DEF TenantPre
    <3>4. CASE TenantClear(d)
      BY <3>2, <3>4 DEF TenantClear
    <3>5. CASE RunTask(d)
      BY <3>2, <3>5 DEF RunTask
    <3>6. CASE StateCommits(d)
      BY <3>2, <3>6 DEF StateCommits
    <3>7. CASE LoggingPre(d) \/ LoggingError(d) \/ LoggingPost(d) \/ MetricsHook(d)
               \/ StateSkips(d) \/ StateRetries(d) \/ StateRequeueFails(d) \/ StateRaises(d)
      BY <3>2, <3>7 DEF LoggingPre, LoggingError, LoggingPost, MetricsHook, StateSkips,
                        StateRetries, StateRequeueFails, StateRaises
    <3> QED
      BY <3>1, <3>3, <3>4, <3>5, <3>6, <3>7 DEF Step
  <2> QED
    BY <1>2, <2>1, <2>2
<1> QED
  BY <1>1, <1>2

\* The events of a task go to the room of the tenant its body ran under, for every
\* message and any number of concurrent deliveries.
THEOREM EventsFollow == Spec => []EventsFollowTenant
<1>1. TenantInv => EventsFollowTenant
  BY TenantsAgree DEF TenantInv, EventsFollowTenant
<1> QED
  BY <1>1, TenantInvInductive, PTL DEF Spec

(***************************************************************************)
(* The tenant of the log lines                                             *)
(***************************************************************************)

\* The tenant that a line of this context has, by where the delivery stands.
Logged(hook, position, error, m) ==
    IF (hook = "pre" /\ position <= 2) \/ (hook \in {"post", "done"} /\ error)
    THEN None ELSE ContextTenant(m)

PipelineType ==
    /\ phase \in [Delivery -> Phase]
    /\ turn \in [Delivery -> 1 .. 4]
    /\ failed \in [Delivery -> BOOLEAN]
    /\ logContext \in [Delivery -> [task : BOOLEAN, tenant : Id \cup {None}]]

\* Where the context of a delivery stands, and which lines it can have written.
LineInv ==
    /\ PipelineType
    /\ \A d \in Delivery :
          /\ phase[d] = "error" => failed[d]
          /\ phase[d] # "raised" =>
                logContext[d].tenant = Logged(phase[d], turn[d], failed[d], message[d])
    /\ \A l \in lines :
          /\ l.of \in Delivery
          /\ l.phase = "post" => phase[l.of] \in {"post", "done", "raised"}
    /\ LinesNameTenant

\* Whose turn it is, by position.
LEMMA Positions ==
    ASSUME NEW i \in 1 .. 4
    PROVE  /\ Middleware[i] = "logging" <=> i = 1
           /\ Middleware[i] = "tenant" <=> i = 2
           /\ Middleware[i] = "metrics" <=> i = 3
           /\ Middleware[i] = "state" <=> i = 4
BY DEF Middleware

\* A tenant that is found is an id.
LEMMA TenantIsId ==
    ASSUME NEW m PROVE ContextTenant(m) \in Id \cup {None}
BY DEF ContextTenant, FirstPresent, Parse

\* Where a delivery goes when a middleware is done.
LEMMA AdvanceMoves ==
    ASSUME PipelineType, NEW d \in Delivery, Advance(d),
           phase[d] \in {"pre", "error", "post"}
    PROVE  /\ phase' \in [Delivery -> Phase] /\ turn' \in [Delivery -> 1 .. 4]
           /\ \A e \in Delivery \ {d} : phase'[e] = phase[e] /\ turn'[e] = turn[e]
           /\ phase[d] = "pre" => \/ phase'[d] = "pre" /\ turn'[d] = turn[d] + 1
                                  \/ phase'[d] = "body" /\ turn[d] = 4
           /\ phase[d] = "error" => \/ phase'[d] = "error" /\ turn[d] # 1
                                    \/ phase'[d] = "post" /\ turn[d] = 1
           /\ phase[d] = "post" => phase'[d] \in {"post", "done"}
<1> DEFINE down == phase[d] = "pre"
           last == turn[d] = IF down THEN 4 ELSE 1
           p == IF ~ last THEN phase[d]
                ELSE IF down THEN "body"
                ELSE IF phase[d] = "error" THEN "post" ELSE "done"
           t == IF last THEN 4 ELSE IF down THEN turn[d] + 1 ELSE turn[d] - 1
<1>1. phase' = [phase EXCEPT ![d] = p] /\ turn' = [turn EXCEPT ![d] = t]
  BY DEF Advance
<1>2. turn[d] \in 1 .. 4
  BY DEF PipelineType
<1>3. p \in Phase /\ t \in 1 .. 4
  BY <1>2 DEF Phase
<1>4. /\ down => (p = "pre" /\ t = turn[d] + 1) \/ (p = "body" /\ turn[d] = 4)
      /\ phase[d] = "error" => (p = "error" /\ turn[d] # 1) \/ (p = "post" /\ turn[d] = 1)
      /\ phase[d] = "post" => p \in {"post", "done"}
  BY <1>2
<1> HIDE DEF p, t
<1> QED
  BY <1>1, <1>3, <1>4 DEF PipelineType

\* The tenant that a line of delivery d ought to have, logged in this hook.
LineTenant(d, hook, text) ==
    IF TenantLess([of |-> d, phase |-> hook, text |-> text])
    THEN None ELSE ContextTenant(message[d])

Late == {"post", "done", "raised"}

\* The line that delivery d logs with this text, as it ought to be.
Proper(d, text) == [of |-> d, phase |-> phase[d], text |-> text,
                    tenant |-> LineTenant(d, phase[d], text)]

\* The frame of a step: one delivery moves, and logs a line with the right tenant or
\* none.
LEMMA LineFrame ==
    ASSUME LineInv, NEW d \in Delivery, message' = message, PipelineType',
           \A e \in Delivery \ {d} : /\ phase'[e] = phase[e] /\ turn'[e] = turn[e]
                                     /\ failed'[e] = failed[e]
                                     /\ logContext'[e] = logContext[e],
           phase'[d] = "error" => failed'[d],
           phase'[d] # "raised" =>
               logContext'[d].tenant = Logged(phase'[d], turn'[d], failed'[d], message[d]),
           phase[d] \in Late => phase'[d] \in Late,
           failed'[d] = failed[d] \/ phase[d] = "body",
           lines' = lines \/ \E text : lines' = {Proper(d, text)}
    PROVE  LineInv'
<1>1. ASSUME NEW l \in lines
      PROVE  /\ l.of \in Delivery
             /\ l.phase = "post" => phase'[l.of] \in Late /\ failed'[l.of] = failed[l.of]
             /\ l.tenant = IF TenantLess(l)' THEN None ELSE ContextTenant(message[l.of])
  <2>1. /\ l.of \in Delivery
        /\ l.phase = "post" => phase[l.of] \in Late
        /\ l.tenant = IF TenantLess(l) THEN None ELSE ContextTenant(message[l.of])
    BY DEF LineInv, LinesNameTenant, Late
  <2>2. l.phase = "post" => phase'[l.of] \in Late /\ failed'[l.of] = failed[l.of]
    BY <2>1 DEF Late
  <2> QED
    BY <2>1, <2>2 DEF TenantLess
<1>2. ASSUME NEW text, NEW l, l = Proper(d, text)
      PROVE  /\ l.of \in Delivery
             /\ l.phase = "post" => phase'[l.of] \in Late
             /\ l.tenant = IF TenantLess(l)' THEN None ELSE ContextTenant(message[l.of])
  <2>1. l.of = d /\ l.phase = phase[d] /\ l.text = text
        /\ l.tenant = LineTenant(d, phase[d], text)
    BY <1>2 DEF Proper
  <2>2. l.phase = "post" => phase'[d] \in Late /\ failed'[d] = failed[d]
    BY <2>1 DEF Late
  <2> QED
    BY <2>1, <2>2 DEF LineTenant, TenantLess
<1>3. ASSUME NEW e \in Delivery
      PROVE  /\ phase'[e] = "error" => failed'[e]
             /\ phase'[e] # "raised" =>
                  logContext'[e].tenant = Logged(phase'[e], turn'[e], failed'[e], message[e])
  BY DEF LineInv
<1>4. ASSUME NEW l \in lines'
      PROVE  /\ l.of \in Delivery
             /\ l.phase = "post" => phase'[l.of] \in Late
             /\ l.tenant = IF TenantLess(l)' THEN None ELSE ContextTenant(message[l.of])
  BY <1>1, <1>2
<1>5. LinesNameTenant'
  BY <1>4 DEF LinesNameTenant
<1> QED
  BY <1>3, <1>4, <1>5 DEF LineInv, Late

\* The steps that leave the context of the log lines alone.
LEMMA QuietSteps ==
    ASSUME LineInv, NEW d \in Delivery,
           \/ TenantClear(d) \/ MetricsHook(d) \/ StateSkips(d) \/ StateRetries(d)
           \/ StateRequeueFails(d) \/ StateCommits(d) \/ StateRaises(d) \/ RunTask(d)
    PROVE  LineInv'
<1>1. /\ PipelineType /\ turn[d] \in 1 .. 4 /\ phase[d] \in Phase
      /\ phase[d] # "raised" =>
           logContext[d].tenant = Logged(phase[d], turn[d], failed[d], message[d])
      /\ phase[d] = "error" => failed[d]
  BY DEF LineInv, PipelineType
<1>2. message' = message /\ logContext' = logContext
  BY DEF TenantClear, MetricsHook, StateSkips, StateRetries, StateRequeueFails, StateCommits,
         StateRaises, RunTask
<1>3. CASE TenantClear(d) \/ MetricsHook(d) \/ StateSkips(d) \/ StateCommits(d)
  <2>1. /\ Advance(d) /\ phase[d] \in {"pre", "error", "post"}
        /\ lines' = lines \/ lines' = {Line(d, "realtime_emit_error", NoContext)}
        /\ failed' = failed /\ Middleware[turn[d]] # "logging"
        /\ phase[d] = "pre" => Middleware[turn[d]] # "tenant"
    BY <1>3 DEF TenantClear, MetricsHook, StateSkips, StateCommits, At, Turn
  <2>2. turn[d] # 1 /\ (phase[d] = "pre" => turn[d] > 2)
    BY <1>1, <2>1, Positions
  <2>3. PipelineType'
    BY <1>1, <1>2, <2>1, AdvanceMoves DEF PipelineType
  <2>4. /\ \A e \in Delivery \ {d} : phase'[e] = phase[e] /\ turn'[e] = turn[e]
        /\ phase'[d] = "error" => failed[d]
        /\ phase[d] \in Late => phase'[d] \in Late
        /\ Logged(phase'[d], turn'[d], failed[d], message[d])
             = Logged(phase[d], turn[d], failed[d], message[d])
    BY <1>1, <2>1, <2>2, AdvanceMoves DEF Logged, Late
  <2>5. Line(d, "realtime_emit_error", NoContext) = Proper(d, "realtime_emit_error")
    BY DEF Line, NoContext, Proper, LineTenant, TenantLess
  <2> QED
    BY <1>1, <1>2, <2>1, <2>3, <2>4, <2>5, LineFrame
<1>4. CASE StateRetries(d) \/ StateRequeueFails(d)
  <2>1. /\ phase' = phase /\ turn' = turn /\ failed' = failed
        /\ phase[d] \in {"pre", "error", "post"} /\ Middleware[turn[d]] = "state"
        /\ \/ lines' = {Line(d, "db_operation_retry", logContext[d])}
           \/ lines' = {Line(d, "task_requeue_error", NoContext)}
    BY <1>4 DEF StateRetries, StateRequeueFails, At, Turn
  <2>2. Line(d, "db_operation_retry", logContext[d]) = Proper(d, "db_operation_retry")
    <3>1. logContext[d].tenant = LineTenant(d, phase[d], "db_operation_retry")
      BY <1>1, <2>1, Positions DEF Logged, LineTenant, TenantLess
    <3> QED
      BY <3>1 DEF Line, Proper
  <2>3. Line(d, "task_requeue_error", NoContext) = Proper(d, "task_requeue_error")
    BY DEF Line, NoContext, Proper, LineTenant, TenantLess
  <2>4. PipelineType'
    BY <1>1, <1>2, <2>1 DEF PipelineType
  <2>5. \E text : lines' = {Proper(d, text)}
    BY <2>1, <2>2, <2>3
  <2> QED
    BY <1>1, <1>2, <2>1, <2>4, <2>5, LineFrame
<1>5. CASE StateRaises(d)
  <2>1. /\ phase' = [phase EXCEPT ![d] = "raised"] /\ turn' = turn /\ failed' = failed
        /\ lines' = lines
    BY <1>5 DEF StateRaises
  <2>2. PipelineType' /\ phase'[d] = "raised"
    BY <1>1, <1>2, <2>1 DEF PipelineType, Phase
  <2> QED
    BY <1>1, <1>2, <2>1, <2>2, LineFrame DEF PipelineType, Late
<1>6. CASE RunTask(d)
  <2>1. PICK raised \in BOOLEAN :
          /\ failed' = [failed EXCEPT ![d] = raised]
          /\ phase' = [phase EXCEPT ![d] = IF raised THEN "error" ELSE "post"]
    BY <1>6 DEF RunTask
  <2>2. /\ phase[d] = "body" /\ turn' = turn
        /\ lines' = {Line(d, "task_step", logContext[d])}
    BY <1>6 DEF RunTask
  <2>3. PipelineType'
    BY <1>1, <1>2, <2>1, <2>2 DEF PipelineType, Phase
  <2>4. /\ failed'[d] = raised /\ phase'[d] = IF raised THEN "error" ELSE "post"
        /\ \A e \in Delivery \ {d} : phase'[e] = phase[e] /\ failed'[e] = failed[e]
    BY <1>1, <2>1 DEF PipelineType
  <2>5. logContext[d].tenant = LineTenant(d, phase[d], "task_step")
    BY <1>1, <2>2 DEF Logged, LineTenant, TenantLess
  <2>6. logContext[d].tenant = Logged(phase'[d], turn'[d], failed'[d], message[d])
    BY <1>1, <2>2, <2>4 DEF Logged
  <2>7. lines' = {Proper(d, "task_step")}
    BY <2>2, <2>5 DEF Line, Proper
  <2>8. /\ phase'[d] = "error" => failed'[d]
        /\ phase[d] \notin Late
    BY <2>2, <2>4 DEF Late
  <2> QED
    BY <1>1, <1>2, <2>2, <2>3, <2>4, <2>6, <2>7, <2>8, LineFrame
<1> QED
  BY <1>3, <1>4, <1>5, <1>6

\* The steps that write the context of the log lines.
LEMMA ContextSteps ==
    ASSUME LineInv, NEW d \in Delivery,
           LoggingPre(d) \/ LoggingError(d) \/ LoggingPost(d) \/ TenantPre(d)
    PROVE  LineInv'
<1>1. /\ PipelineType /\ turn[d] \in 1 .. 4
      /\ phase[d] # "raised" =>
           logContext[d].tenant = Logged(phase[d], turn[d], failed[d], message[d])
      /\ phase[d] = "error" => failed[d]
      /\ logContext[d] \in [task : BOOLEAN, tenant : Id \cup {None}]
  BY DEF LineInv, PipelineType
<1>2. /\ message' = message /\ failed' = failed /\ Advance(d)
      /\ phase[d] \in {"pre", "error", "post"}
  BY DEF LoggingPre, LoggingError, LoggingPost, TenantPre, At, Turn
<1>3. \A e \in Delivery \ {d} : phase'[e] = phase[e] /\ turn'[e] = turn[e]
  BY <1>1, <1>2, AdvanceMoves
<1>4. CASE LoggingPre(d)
  <2>1. /\ phase[d] = "pre" /\ turn[d] = 1
        /\ SetTaskContext(d, TRUE, None)
        /\ lines' = {Line(d, "task_started", logContext'[d])}
    BY <1>1, <1>4, Positions DEF LoggingPre, At, Turn
  <2> DEFINE c == [logContext[d] EXCEPT !.task = TRUE]
  <2>2. logContext' = [logContext EXCEPT ![d] = c]
    BY <1>1, <2>1 DEF SetTaskContext, PipelineType
  <2>3. c.tenant = None /\ c \in [task : BOOLEAN, tenant : Id \cup {None}]
    <3>1. logContext[d].tenant = None
      BY <1>1, <2>1 DEF Logged
    <3> QED
      BY <1>1, <3>1
  <2> HIDE DEF c
  <2>4. phase'[d] = "pre" /\ turn'[d] = 2
    BY <1>1, <1>2, <2>1, AdvanceMoves
  <2>5. PipelineType'
    BY <1>1, <1>2, <2>2, <2>3, AdvanceMoves DEF PipelineType
  <2>6. lines' = {Proper(d, "task_started")}
    BY <1>1, <2>1, <2>2, <2>3 DEF Line, Proper, LineTenant, TenantLess, PipelineType
  <2>7. /\ \A e \in Delivery \ {d} : logContext'[e] = logContext[e]
        /\ logContext'[d].tenant = Logged(phase'[d], turn'[d], failed'[d], message[d])
    BY <1>1, <2>2, <2>3, <2>4 DEF Logged, PipelineType
  <2> QED
    BY <1>2, <1>3, <2>1, <2>4, <2>5, <2>6, <2>7, LineFrame DEF Late
<1>5. CASE TenantPre(d)
  <2> DEFINE tenant == ContextTenant(message[d])
  <2>1. /\ phase[d] = "pre" /\ turn[d] = 2
        /\ lines' = lines \/ lines' = {Line(d, "tenant_context_set", logContext'[d])}
        /\ SetTaskContext(d, FALSE, tenant)
    BY <1>1, <1>5, Positions DEF TenantPre, At, Turn
  <2>2. logContext[d].tenant = None /\ tenant \in Id \cup {None}
    BY <1>1, <2>1, TenantIsId DEF Logged
  <2>3. /\ logContext' = [logContext EXCEPT ![d] = logContext'[d]]
        /\ logContext'[d] = [logContext[d] EXCEPT !.tenant = tenant]
    BY <1>1, <2>1, <2>2 DEF SetTaskContext, PipelineType
  <2> HIDE DEF tenant
  <2>4. /\ logContext'[d].tenant = tenant
        /\ logContext'[d] \in [task : BOOLEAN, tenant : Id \cup {None}]
    BY <1>1, <2>2, <2>3
  <2>5. phase'[d] = "pre" /\ turn'[d] = 3
    BY <1>1, <1>2, <2>1, AdvanceMoves
  <2>6. PipelineType'
    BY <1>1, <1>2, <2>3, <2>4, AdvanceMoves DEF PipelineType
  <2>7. /\ \A e \in Delivery \ {d} : logContext'[e] = logContext[e]
        /\ logContext'[d].tenant = Logged(phase'[d], turn'[d], failed'[d], message[d])
    BY <1>1, <2>3, <2>4, <2>5 DEF Logged, PipelineType, tenant
  <2>8. Line(d, "tenant_context_set", logContext'[d]) = Proper(d, "tenant_context_set")
    <3>1. logContext'[d].tenant = LineTenant(d, phase[d], "tenant_context_set")
      BY <2>1, <2>4 DEF LineTenant, TenantLess, tenant
    <3> QED
      BY <3>1 DEF Line, Proper
  <2> QED
    BY <1>2, <1>3, <2>1, <2>5, <2>6, <2>7, <2>8, LineFrame DEF Late
<1>6. CASE LoggingError(d)
  <2>1. /\ phase[d] = "error" /\ turn[d] = 1
        /\ logContext' = [logContext EXCEPT ![d] = NoContext]
        /\ lines' = {Line(d, "task_exception", logContext[d])}
    BY <1>1, <1>6, Positions DEF LoggingError, At, Turn, ClearTaskContext
  <2>2. lines' = {Proper(d, "task_exception")}
    BY <1>1, <2>1 DEF Line, Proper, LineTenant, TenantLess, Logged
  <2>3. phase'[d] = "post" /\ failed'[d]
    BY <1>1, <1>2, <2>1, AdvanceMoves
  <2>4. PipelineType'
    BY <1>1, <1>2, <2>1, AdvanceMoves DEF PipelineType, NoContext
  <2>5. /\ \A e \in Delivery \ {d} : logContext'[e] = logContext[e]
        /\ logContext'[d].tenant = Logged(phase'[d], turn'[d], failed'[d], message[d])
    BY <1>1, <2>1, <2>3 DEF Logged, PipelineType, NoContext
  <2> QED
    BY <1>2, <1>3, <2>1, <2>2, <2>3, <2>4, <2>5, LineFrame DEF Late
<1>7. CASE LoggingPost(d)
  <2>1. /\ phase[d] = "post" /\ logContext' = logContext
        /\ \E text \in {"task_error", "task_completed"} :
              lines' = {Line(d, text, logContext[d])}
    BY <1>7 DEF LoggingPost, At
  <2>2. \E text : lines' = {Proper(d, text)}
    BY <1>1, <2>1 DEF Line, Proper, LineTenant, TenantLess, Logged
  <2>3. phase'[d] \in {"post", "done"}
    BY <1>1, <1>2, <2>1, AdvanceMoves
  <2>4. PipelineType'
    BY <1>1, <1>2, <2>1, AdvanceMoves DEF PipelineType
  <2>5. logContext'[d].tenant = Logged(phase'[d], turn'[d], failed'[d], message[d])
    BY <1>1, <1>2, <2>1, <2>3 DEF Logged
  <2> QED
    BY <1>2, <1>3, <2>1, <2>2, <2>3, <2>4, <2>5, LineFrame DEF Late
<1> QED
  BY <1>4, <1>5, <1>6, <1>7

\* Where the context of the log lines stands is an invariant.
LEMMA LineInvariant == Spec => []LineInv
<1>1. Init => LineInv
  BY DEF Init, LineInv, PipelineType, Phase, NoContext, Logged, LinesNameTenant
<1>2. LineInv /\ [Next]_vars => LineInv'
  <2>1. ASSUME LineInv, UNCHANGED vars PROVE LineInv'
    BY <2>1 DEF vars, LineInv, PipelineType, LinesNameTenant, TenantLess
  <2> QED
    BY <2>1, QuietSteps, ContextSteps DEF Next, Step
<1> QED
  BY <1>1, <1>2, PTL DEF Spec

\* Each log line names the tenant of its own delivery, for any concurrent deliveries, but
\* for the line that opens it, those behind the clear_task_context of on_error, and
\* those of a refused retry or a failed event, which leave the context out.
THEOREM LinesNameTheTenant == Spec => []LinesNameTenant
<1>1. LineInv => LinesNameTenant
  BY DEF LineInv
<1> QED
  BY <1>1, LineInvariant, PTL

(***************************************************************************)
(* What engages the pipeline                                               *)
(***************************************************************************)

\* How far d has come with its tenant and its first event: the context is set when the
\* tenant middleware has run, the body read it, and the hook before the body announced
\* itself when the message says to whom and about which row.
Engaged(d) ==
    /\ phase[d] = "pre" /\ turn[d] <= 2 => tenantVar[d] = None
    /\ (phase[d] = "pre" /\ turn[d] > 2) \/ phase[d] = "body" =>
          tenantVar[d] = ContextTenant(message[d])
    /\ phase[d] \in {"error", "post", "done"} => bodyTenant[d] = ContextTenant(message[d])
    /\ /\ phase[d] \in {"body", "error", "post", "done"}
       /\ ExecutionId(message[d]) # None /\ EventTenant(message[d]) # None
       => EventTenant(message[d]) \in rooms[d]

EngageInv == TypeInv /\ \A d \in Delivery : Engaged(d)

\* The frame of a step: one delivery moves.
LEMMA EngageFrame ==
    ASSUME EngageInv, TypeInv', NEW d \in Delivery, message' = message, Engaged(d)',
           \A e \in Delivery \ {d} : /\ phase'[e] = phase[e] /\ turn'[e] = turn[e]
                                     /\ tenantVar'[e] = tenantVar[e]
                                     /\ bodyTenant'[e] = bodyTenant[e]
                                     /\ rooms'[e] = rooms[e]
    PROVE  EngageInv'
<1>1. ASSUME NEW e \in Delivery PROVE Engaged(e)'
  <2>1. CASE e = d
    BY <2>1
  <2>2. CASE e # d
    BY <2>2 DEF EngageInv, Engaged
  <2> QED
    BY <2>1, <2>2
<1> QED
  BY <1>1 DEF EngageInv

\* A middleware that leaves the tenant alone on the way down, and, being the last one
\* there, announces the task if it is to be announced.
LEMMA PassOn ==
    ASSUME EngageInv, TypeInv', PipelineType, NEW d \in Delivery, message' = message,
           Advance(d), phase[d] \in {"pre", "error", "post"},
           \A e \in Delivery \ {d} : /\ tenantVar'[e] = tenantVar[e] /\ rooms'[e] = rooms[e],
           bodyTenant' = bodyTenant, rooms[d] \subseteq rooms'[d],
           phase[d] = "pre" => tenantVar'[d] = tenantVar[d] /\ turn[d] # 2,
           phase[d] = "pre" /\ turn[d] = 4 /\ ExecutionId(message[d]) # None
              /\ EventTenant(message[d]) # None => EventTenant(message[d]) \in rooms'[d]
    PROVE  EngageInv'
<1>1. /\ \A e \in Delivery \ {d} : phase'[e] = phase[e] /\ turn'[e] = turn[e]
      /\ turn[d] \in 1 .. 4 /\ turn'[d] \in 1 .. 4
      /\ phase[d] = "pre" => \/ phase'[d] = "pre" /\ turn'[d] = turn[d] + 1
                             \/ phase'[d] = "body" /\ turn[d] = 4
      /\ phase[d] # "pre" => phase'[d] \in {"error", "post", "done"}
  BY AdvanceMoves DEF PipelineType
<1>2. Engaged(d)
  BY DEF EngageInv
<1>3. Engaged(d)'
  <2>1. CASE phase[d] = "pre"
    BY <1>1, <1>2, <2>1 DEF Engaged
  <2>2. CASE phase[d] \in {"error", "post"}
    BY <1>1, <1>2, <2>2 DEF Engaged
  <2> QED
    BY <2>1, <2>2
<1> QED
  BY <1>1, <1>3, EngageFrame

\* Every step keeps it.
LEMMA NextKeepsEngaged ==
    ASSUME EngageInv, LineInv, [Next]_vars
    PROVE  EngageInv'
<1>1. PipelineType /\ TypeInv
  BY DEF LineInv, EngageInv
<1>2. CASE UNCHANGED vars
  BY <1>2 DEF vars, EngageInv, TypeInv, Engaged
<1>3. CASE Next
  <2>1. PICK d \in Delivery : Step(d)
    BY <1>3 DEF Next
  <2>2. /\ message' = message /\ TypeInv' /\ Engaged(d) /\ turn[d] \in 1 .. 4
        /\ Middleware[turn[d]] = "logging" <=> turn[d] = 1
        /\ Middleware[turn[d]] = "tenant" <=> turn[d] = 2
        /\ Middleware[turn[d]] = "metrics" <=> turn[d] = 3
        /\ Middleware[turn[d]] = "state" <=> turn[d] = 4
    <3>1. message' = message /\ TypeInv'
      BY <1>1, <2>1
         DEF TypeInv, Step, LoggingPre, LoggingError, LoggingPost, TenantPre, TenantClear,
             MetricsHook, RunTask, StateSkips, StateRetries, StateRequeueFails, StateCommits,
             StateRaises
    <3>2. Engaged(d) /\ turn[d] \in 1 .. 4
      BY <1>1 DEF EngageInv, PipelineType
    <3> QED
      BY <3>1, <3>2, Positions
  <2>3. CASE LoggingPre(d) \/ LoggingError(d) \/ LoggingPost(d) \/ MetricsHook(d)
    <3>1. /\ Advance(d) /\ phase[d] \in {"pre", "error", "post"}
          /\ Middleware[turn[d]] \in {"logging", "metrics"}
          /\ tenantVar' = tenantVar /\ bodyTenant' = bodyTenant /\ rooms' = rooms
      BY <2>3 DEF LoggingPre, LoggingError, LoggingPost, MetricsHook, At, Turn
    <3>2. turn[d] # 2 /\ turn[d] # 4
      BY <2>2, <3>1
    <3> QED
      BY <1>1, <2>2, <3>1, <3>2, PassOn
  <2>4. CASE TenantPre(d)
    <3> DEFINE tenant == ContextTenant(message[d])
    <3>1. /\ phase[d] = "pre" /\ turn[d] = 2 /\ Advance(d)
          /\ tenantVar' = [tenantVar EXCEPT ![d] = IF tenant = None THEN @ ELSE tenant]
          /\ bodyTenant' = bodyTenant /\ rooms' = rooms
      BY <2>2, <2>4 DEF TenantPre, At, Turn
    <3>2. tenantVar'[d] = tenant /\ \A e \in Delivery \ {d} : tenantVar'[e] = tenantVar[e]
      BY <1>1, <2>2, <3>1 DEF Engaged, TypeInv
    <3>3. /\ phase'[d] = "pre" /\ turn'[d] = 3
          /\ \A e \in Delivery \ {d} : phase'[e] = phase[e] /\ turn'[e] = turn[e]
      BY <1>1, <3>1, AdvanceMoves
    <3>4. Engaged(d)'
      BY <2>2, <3>2, <3>3 DEF Engaged
    <3> QED
      BY <2>2, <3>1, <3>2, <3>3, <3>4, EngageFrame
  <2>5. CASE TenantClear(d)
    <3>1. /\ phase[d] \in {"error", "post"} /\ Advance(d)
          /\ tenantVar' = [tenantVar EXCEPT ![d] = None]
          /\ bodyTenant' = bodyTenant /\ rooms' = rooms
      BY <2>5 DEF TenantClear, At
    <3>2. \A e \in Delivery \ {d} : tenantVar'[e] = tenantVar[e]
      BY <1>1, <3>1 DEF TypeInv
    <3> QED
      BY <1>1, <2>2, <3>1, <3>2, PassOn
  <2>6. CASE RunTask(d)
    <3>1. PICK raised \in BOOLEAN :
            phase' = [phase EXCEPT ![d] = IF raised THEN "error" ELSE "post"]
      BY <2>6 DEF RunTask
    <3>2. /\ phase[d] = "body" /\ bodyTenant' = [bodyTenant EXCEPT ![d] = tenantVar[d]]
          /\ turn' = turn /\ tenantVar' = tenantVar /\ rooms' = rooms
      BY <2>6 DEF RunTask
    <3>3. /\ phase'[d] \in {"error", "post"} /\ bodyTenant'[d] = tenantVar[d]
          /\ \A e \in Delivery \ {d} : phase'[e] = phase[e] /\ bodyTenant'[e] = bodyTenant[e]
      BY <1>1, <3>1, <3>2 DEF PipelineType, TypeInv
    <3>4. Engaged(d)'
      BY <2>2, <3>2, <3>3 DEF Engaged
    <3> QED
      BY <2>2, <3>2, <3>3, <3>4, EngageFrame
  <2>7. CASE StateSkips(d)
    <3>1. /\ Advance(d) /\ phase[d] \in {"pre", "error", "post"} /\ turn[d] = 4
          /\ tenantVar' = tenantVar /\ bodyTenant' = bodyTenant /\ rooms' = rooms
          /\ phase[d] = "pre" => ExecutionId(message[d]) = None
      BY <2>2, <2>7 DEF StateSkips, Turn, Skipped
    <3> QED
      BY <1>1, <2>2, <3>1, PassOn
  <2>8. CASE StateCommits(d)
    <3> DEFINE tenant == EventTenant(message[d])
    <3>1. /\ Advance(d) /\ phase[d] \in {"pre", "error", "post"} /\ turn[d] = 4
          /\ tenantVar' = tenantVar /\ bodyTenant' = bodyTenant
          /\ rooms' = [rooms EXCEPT ![d] = IF tenant = None THEN @ ELSE @ \cup {tenant}]
      BY <2>2, <2>8 DEF StateCommits, Turn
    <3>2. /\ \A e \in Delivery \ {d} : rooms'[e] = rooms[e]
          /\ rooms[d] \subseteq rooms'[d] /\ (tenant # None => tenant \in rooms'[d])
      BY <1>1, <3>1 DEF TypeInv
    <3> QED
      BY <1>1, <2>2, <3>1, <3>2, PassOn
  <2>9. CASE StateRetries(d) \/ StateRequeueFails(d)
    BY <2>2, <2>9 DEF StateRetries, StateRequeueFails, EngageInv, Engaged
  <2>10. CASE StateRaises(d)
    <3>1. /\ phase' = [phase EXCEPT ![d] = "raised"] /\ turn' = turn
          /\ tenantVar' = tenantVar /\ bodyTenant' = bodyTenant /\ rooms' = rooms
      BY <2>10 DEF StateRaises
    <3>2. phase'[d] = "raised" /\ \A e \in Delivery \ {d} : phase'[e] = phase[e]
      BY <1>1, <3>1 DEF PipelineType
    <3>3. Engaged(d)'
      BY <3>2 DEF Engaged
    <3> QED
      BY <2>2, <3>1, <3>2, <3>3, EngageFrame
  <2> QED
    BY <2>1, <2>3, <2>4, <2>5, <2>6, <2>7, <2>8, <2>9, <2>10 DEF Step
<1> QED
  BY <1>2, <1>3

\* A field that is there only inside raw_input is found by all three extractions.
LEMMA DispatchedFound ==
    ASSUME NEW tenant \in Id, NEW execution \in Id
    PROVE  LET m == Dispatched(tenant, execution)
           IN  /\ ContextTenant(m) = tenant /\ EventTenant(m) = tenant
               /\ ExecutionId(m) = execution
<1> DEFINE m == Dispatched(tenant, execution)
<1>1. ContextTenant(m) = FirstPresent(<<Absent, tenant>>)
  BY DEF ContextTenant, Dispatched, RawOnly
<1>2. FirstPresent(<<Absent, tenant>>) = tenant
  <2> DEFINE present == {i \in DOMAIN <<Absent, tenant>> : <<Absent, tenant>>[i] # Absent}
  <2>1. present = {2}
    BY IdAssumption
  <2>2. present \subseteq 1 .. 3 /\ 1 \notin present /\ 2 \in present
    BY <2>1
  <2>3. FirstPresent(<<Absent, tenant>>) = Parse(<<Absent, tenant>>[Min(present)])
    BY <2>1 DEF FirstPresent
  <2> HIDE DEF present
  <2>4. Min(present) = 2
    BY <2>2, LeastIndex
  <2> QED
    BY <2>3, <2>4 DEF Parse
<1>3. ContextTenant(m) = tenant /\ tenant # None
  BY <1>1, <1>2, IdAssumption
<1>4. EventTenant(m) = tenant
  BY <1>3, TenantsAgree
<1>5. ExecutionId(m) = FirstValid(<<Absent, Absent, execution>>)
  BY DEF ExecutionId, Dispatched, RawOnly
<1>6. FirstValid(<<Absent, Absent, execution>>) = execution
  <2> DEFINE fields == <<Absent, Absent, execution>>
             valid  == {i \in DOMAIN fields : fields[i] \in Id}
  <2>1. valid = {3}
    BY IdAssumption
  <2>2. FirstValid(fields) = fields[Min(valid)]
    BY <2>1 DEF FirstValid
  <2>3. Min(valid) = 3
    <3>1. Min(valid) = CHOOSE x \in valid : \A y \in valid : x <= y
      BY DEF Min
    <3>2. Min(valid) = CHOOSE x \in {3} : \A y \in {3} : x <= y
      BY <2>1, <3>1
    <3>3. (CHOOSE x \in {3} : \A y \in {3} : x <= y) \in {3}
      OBVIOUS
    <3> QED
      BY <3>2, <3>3
  <2> QED
    BY <2>2, <2>3
<1> QED
  BY <1>3, <1>4, <1>5, <1>6

\* A message in the form dispatch_example_task gives it runs its body under the tenant and
\* is announced to that tenant's room and no other, whatever runs beside it.
THEOREM DispatchEngages == Spec => []DispatchShapeEngages
<1>1. Init => EngageInv
  BY DEF Init, EngageInv, TypeInv, Engaged
<1>2. EngageInv /\ LineInv /\ [Next]_vars => EngageInv'
  BY NextKeepsEngaged
<1>3. EngageInv /\ TenantInv => DispatchShapeEngages
  <2> SUFFICES ASSUME EngageInv, TenantInv,
                      NEW d \in Delivery, NEW tenant \in Id, NEW execution \in Id,
                      message[d] = Dispatched(tenant, execution), phase[d] = "done"
               PROVE  bodyTenant[d] = tenant /\ rooms[d] = {tenant}
    BY DEF DispatchShapeEngages
  <2>1. /\ ContextTenant(message[d]) = tenant /\ EventTenant(message[d]) = tenant
        /\ ExecutionId(message[d]) = execution /\ tenant # None /\ execution # None
    BY DispatchedFound, IdAssumption
  <2>2. Engaged(d) /\ rooms[d] \subseteq {EventTenant(message[d])}
    BY DEF EngageInv, TenantInv
  <2> QED
    BY <2>1, <2>2 DEF Engaged
<1> QED
  BY <1>1, <1>2, <1>3, LineInvariant, TenantInvInductive, PTL DEF Spec
=============================================================================
