---------------------------- MODULE TaskRecords ----------------------------
(***************************************************************************)
(* The two tables the worker writes: one task_execution row and the        *)
(* task_attempt audit rows that belong to it, with the operations of       *)
(* services/task_execution_service.py and services/task_attempt_service.py *)
(* as functions on them.  Every query of those services is keyed on the    *)
(* task_execution id, so one task stands for all of them.                  *)
(*                                                                         *)
(* status_message is kept as the reason it states: the retry protocol      *)
(* compares it.  "retrying" is the text "Retrying (k/max)", where k is the *)
(* retry_count written with it: two such texts differ as their counts do.  *)
(* Timestamps are kept as "has been set".                                  *)
(*                                                                         *)
(* A definition named X_... is a faulty variant of X, which nothing uses:   *)
(* it stands for a plausible bug, and some property fails when X is it.    *)
(***************************************************************************)
EXTENDS Integers, Sequences, FiniteSetsExt

CONSTANT MaxRetries      \* the max_retries column, fixed when the row is made

ASSUME MaxRetriesAssumption == MaxRetries \in Nat

\* The statuses some code path of the worker writes (plus the PENDING default).
Status == {"PENDING", "RUNNING", "RETRYING", "COMPLETED", "FAILED"}

TerminalStatus == {"COMPLETED", "FAILED"}

Reason == {"none", "started", "retrying", "shadowed", "disabled", "exhausted",
           "dispatch_error", "failed", "completed"}

\* A task_execution row.  A row that does not exist has exists = FALSE.
Row == [exists : BOOLEAN, status : Status, reason : Reason,
        retries : 0 .. MaxRetries, started : BOOLEAN, finished : BOOLEAN]

DispatchResult ==
    {"PENDING", "DISPATCHED", "DISPATCH_FAILED", "SHADOWED", "BLOCKED"}

\* A retry decision is numbered retry_count + 1, and only made below the limit.
Number == 1 .. MaxRetries

Attempt == [number : Number, result : DispatchResult]

(***************************************************************************)
(* task_execution_service.py                                               *)
(***************************************************************************)

\* create_task_execution: the row a dispatching caller commits.
NewRow == [exists |-> TRUE, status |-> "PENDING", reason |-> "none",
           retries |-> 0, started |-> FALSE, finished |-> FALSE]

\* What a lookup by an id that no row has returns.
NoRow == [NewRow EXCEPT !.exists = FALSE]

\* RETRYING does not advance retry_count.
UpdateTaskStatus_Uncounted(t, status, reason) ==
    IF ~ t.exists THEN t
    ELSE [t EXCEPT !.status   = status,
                   !.reason   = reason,
                   !.started  = @ \/ status = "RUNNING",
                   !.finished = @ \/ status \in TerminalStatus]

\* update_task_status on the loaded object t: no guard on the current status,
\* started_at set once, completed_at set on a terminal status and never cleared,
\* retry_count advanced by RETRYING.
UpdateTaskStatus(t, status, reason) ==
    IF ~ t.exists THEN t
    ELSE [t EXCEPT !.status   = status,
                   !.reason   = reason,
                   !.started  = @ \/ status = "RUNNING",
                   !.finished = @ \/ status \in TerminalStatus,
                   !.retries  = IF status = "RETRYING" THEN @ + 1 ELSE @]

\* The UPDATE that the session's flush issues: of the object loaded as "loaded" and
\* left as "dirty", only the columns whose value changed are written, whatever
\* another session committed to the row in between.  The refresh that follows every
\* flush of the service reads the row so written back into the object.
Flush(row, loaded, dirty) ==
    LET column(c) == IF dirty[c] = loaded[c] THEN row[c] ELSE dirty[c]
        recounted == dirty.reason = "retrying" /\ dirty.retries # loaded.retries
    IN  [exists   |-> row.exists,
         status   |-> column("status"),
         reason   |-> IF recounted THEN "retrying" ELSE column("reason"),
         retries  |-> column("retries"),
         started  |-> column("started"),
         finished |-> column("finished")]

(***************************************************************************)
(* task_attempt_service.py: the audit table, oldest row first              *)
(***************************************************************************)

\* One row per number, overwritten by the latest result.
RecordTaskAttempt_Upsert(audit, number, result) ==
    IF \E i \in DOMAIN audit : audit[i].number = number
    THEN [i \in DOMAIN audit |-> IF audit[i].number = number
                                 THEN [audit[i] EXCEPT !.result = result]
                                 ELSE audit[i]]
    ELSE Append(audit, [number |-> number, result |-> result])

RecordTaskAttempt(audit, number, result) ==
    Append(audit, [number |-> number, result |-> result])

\* Rows of a retry that was, or may have been, handed to the broker.
Claimed(a) == a.result \in {"PENDING", "DISPATCHED"}

ClaimedRows(audit, number) ==
    {i \in DOMAIN audit : audit[i].number = number /\ Claimed(audit[i])}

PendingRows(audit) == {i \in DOMAIN audit : audit[i].result = "PENDING"}

\* get_task_attempt_dispatch_state: the latest claimed row of this number.
DispatchState(audit, number) ==
    IF ClaimedRows(audit, number) = {} THEN "MISSING"
    ELSE audit[Max(ClaimedRows(audit, number))].result

\* mark_task_attempt_dispatched: the latest claimed row of this number, if any.
MarkTaskAttemptDispatched(audit, number) ==
    LET claimed == ClaimedRows(audit, number)
    IN  [i \in DOMAIN audit |->
            IF i \in claimed /\ \A j \in claimed : j <= i
            THEN [audit[i] EXCEPT !.result = "DISPATCHED"]
            ELSE audit[i]]

\* get_latest_pending_task_attempt followed by marking what it finds.
ReconcilePending(audit) ==
    IF PendingRows(audit) = {} THEN audit
    ELSE MarkTaskAttemptDispatched(audit, audit[Max(PendingRows(audit))].number)

\* A log is kept when rows are only added to it, and a row it had is as it was or went
\* from PENDING to DISPATCHED.
OnlyGrows(log, newLog) ==
    /\ Len(newLog) >= Len(log)
    /\ \A i \in DOMAIN log :
          \/ newLog[i] = log[i]
          \/ /\ log[i].result = "PENDING"
             /\ newLog[i] = [log[i] EXCEPT !.result = "DISPATCHED"]
=============================================================================
