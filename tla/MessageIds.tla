----------------------------- MODULE MessageIds -----------------------------
(***************************************************************************)
(* Where the middleware finds the tenant and the task_execution id of a    *)
(* message: the _extract_... helpers of middleware/tenant.py and of        *)
(* middleware/state_tracking.py, which read the same fields in orders and  *)
(* with rules of their own.                                                *)
(*                                                                         *)
(* A field is a message label, a keyword argument or an entry of the       *)
(* raw_input argument.  A label that is None counts as absent, as the code *)
(* takes it; an argument that is None is present and no UUID.              *)
(***************************************************************************)
EXTENDS Integers, Sequences, FiniteSetsExt

CONSTANTS Id,       \* UUIDs
          None,     \* no UUID found
          Absent,   \* the field is not there
          Bad       \* the field holds something that is no UUID

ASSUME IdAssumption == None \notin Id /\ Absent \notin Id /\ Bad \notin Id /\ Absent # Bad

Field == Id \cup {Absent, Bad}

Fields == [label : Field, kwarg : Field, raw : Field]

\* The fields "tenant_id" and "task_execution_id" of a message.
Message == [tenant : Fields, execution : Fields]

\* _parse_uuid
Parse(value) == IF value \in Id THEN value ELSE None

\* The first field that is there decides, whether or not it holds a UUID.
FirstPresent(fields) ==
    LET present == {i \in DOMAIN fields : fields[i] # Absent}
    IN  IF present = {} THEN None ELSE Parse(fields[Min(present)])

\* The first field that holds a UUID decides.
FirstValid(fields) ==
    LET valid == {i \in DOMAIN fields : fields[i] \in Id}
    IN  IF valid = {} THEN None ELSE fields[Min(valid)]

\* Only keyword arguments are read.
ContextTenant_KwargOnly(m) == FirstPresent(<<m.tenant.kwarg>>)

\* TenantMiddleware._extract_tenant_id: what the task runs under.
ContextTenant(m) == FirstPresent(<<m.tenant.kwarg, m.tenant.raw>>)

\* The labels go first, as for the task_execution id.
EventTenant_LabelFirst(m) == FirstPresent(<<m.tenant.label, m.tenant.kwarg, m.tenant.raw>>)

\* StateTrackingMiddleware._extract_tenant_id: whose room the events go to.
EventTenant(m) == FirstPresent(<<m.tenant.kwarg, m.tenant.raw, m.tenant.label>>)

\* StateTrackingMiddleware._extract_task_execution_id: the row that is tracked.
ExecutionId(m) == FirstValid(<<m.execution.label, m.execution.kwarg, m.execution.raw>>)

\* What dispatch_example_task sends: both ids inside raw_input and nowhere else.
RawOnly(id) == [label |-> Absent, kwarg |-> Absent, raw |-> id]

Dispatched(tenant, execution) == [tenant |-> RawOnly(tenant), execution |-> RawOnly(execution)]
=============================================================================
