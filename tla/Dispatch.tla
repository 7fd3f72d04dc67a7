------------------------------ MODULE Dispatch ------------------------------
(***************************************************************************)
(* tasks/example_task.py: dispatch_example_task, the caller that makes a   *)
(* task, together with the workers that run it.  The caller commits the    *)
(* task_execution row in a session of its own, without @db_retry, and then *)
(* enqueues the message that names the row.  Nothing ties the two: either  *)
(* may fail and the caller may die between them.                           *)
(***************************************************************************)
EXTENDS StateTracking

VARIABLE caller    \* where dispatch_example_task stands, or how it ended

Caller == {"create", "enqueue", "returned", "raised", "dead"}

dispatchVars == <<vars, caller>>

DispatchInit ==
    /\ caller = "create"
    /\ row = NoRow
    /\ queue = 0
    /\ Fresh

\* The commit of the row may fail and the message is sent all the same.
CreateRow_SwallowsError(outcome) ==
    /\ caller = "create"
    /\ \/ outcome = "committed" /\ UNCHANGED faults
       \/ /\ outcome # "committed"
          /\ faults.db < MaxDbFaults
          /\ faults' = [faults EXCEPT !.db = @ + 1]
    /\ row' = IF outcome = "rolled_back" THEN row ELSE NewRow
    /\ caller' = "enqueue"
    /\ UNCHANGED <<audit, queue, worker, gate, sent>>

\* The row is created PENDING and committed; an error leaves the function.
CreateRow(outcome) ==
    /\ caller = "create"
    /\ \/ outcome = "committed" /\ UNCHANGED faults
       \/ /\ outcome # "committed"
          /\ faults.db < MaxDbFaults
          /\ faults' = [faults EXCEPT !.db = @ + 1]
    /\ row' = IF outcome = "rolled_back" THEN row ELSE NewRow
    /\ caller' = IF outcome = "committed" THEN "enqueue" ELSE "raised"
    /\ UNCHANGED <<audit, queue, worker, gate, sent>>

\* The error of a refused enqueue is swallowed.
EnqueueRefused_Swallowed ==
    /\ caller = "enqueue"
    /\ faults.send < MaxSendFaults
    /\ faults' = [faults EXCEPT !.send = @ + 1]
    /\ caller' = "returned"
    /\ UNCHANGED <<row, audit, queue, worker, gate, sent>>

Enqueue ==
    /\ caller = "enqueue"
    /\ queue' = queue + 1
    /\ caller' = "returned"
    /\ UNCHANGED <<row, audit, worker, gate, sent, faults>>

\* kiq raised and the broker does not have the message: the row stays as it is.
EnqueueRefused ==
    /\ caller = "enqueue"
    /\ faults.send < MaxSendFaults
    /\ faults' = [faults EXCEPT !.send = @ + 1]
    /\ caller' = "raised"
    /\ UNCHANGED <<row, audit, queue, worker, gate, sent>>

\* kiq raised, but the broker has the message.
EnqueueUnconfirmed ==
    /\ caller = "enqueue"
    /\ faults.unconfirmed < MaxUnconfirmed
    /\ faults' = [faults EXCEPT !.unconfirmed = @ + 1]
    /\ queue' = queue + 1
    /\ caller' = "raised"
    /\ UNCHANGED <<row, audit, worker, gate, sent>>

\* The calling process dies before its message is sent.
CallerCrash ==
    /\ caller \in {"create", "enqueue"}
    /\ faults.crash < MaxCrashes
    /\ faults' = [faults EXCEPT !.crash = @ + 1]
    /\ caller' = "dead"
    /\ UNCHANGED <<row, audit, queue, worker, gate, sent>>

Call ==
    \/ \E outcome \in Outcome : CreateRow(outcome)
    \/ Enqueue \/ EnqueueRefused \/ EnqueueUnconfirmed

DispatchNext ==
    \/ Call \/ CallerCrash
    \/ Next /\ UNCHANGED caller

DispatchSpec == DispatchInit /\ [][DispatchNext]_dispatchVars

\* asyncio runs every ready delivery, a database or broker call returns or raises,
\* a task body ends, and a ready message is taken when a worker is free.
DispatchFairness ==
    /\ WF_dispatchVars(Call)
    /\ \A w \in Worker :
          /\ WF_dispatchVars(Step(w) /\ UNCHANGED caller)
          /\ WF_dispatchVars(Receive(w) /\ UNCHANGED caller)

FairDispatchSpec == DispatchSpec /\ DispatchFairness

(***************************************************************************)
(* Properties                                                              *)
(***************************************************************************)

\* What is in the broker or being worked on has its row: no delivery of a dispatched
\* task looks for a row that the caller's transaction did not leave behind.
MessageNeedsRow ==
    queue > 0 \/ (\E w \in Worker : worker[w].pc # "idle") => row.exists

Over == caller \notin {"create", "enqueue"} /\ Settled

\* When everything is over the row tells an outcome, or there is no row, or it is the
\* PENDING row that nothing will ever move; the last two only for a caller that was
\* not handed the task (ARCHITECTURE.md, known gap 3).  Two more ways to be left in the
\* middle: a lost channel, and two deliveries that claimed the same retry, of which one
\* marks the row of the other, whose replay then takes its unsent retry for sent.
DispatchOutcome ==
    Over /\ faults.channel = 0 =>
        \/ row.exists /\ OutcomeTold
        \/ caller # "returned" /\ row \in {NoRow, NewRow}
        \/ row.status = "RETRYING" /\ Cardinality(ClaimedRows(audit, row.retries)) > 1

\* Every dispatch comes to its end and every message is finally acknowledged, whatever
\* fails (finitely often): hooks that raise, connections the pool does not give, dead
\* workers, sends that are refused or only reported as failed.
EventuallyOver == <>[]Over
=============================================================================
