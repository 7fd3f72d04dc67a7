--------------------------- MODULE TaskLifecycle ---------------------------
(***************************************************************************)
(* What a task execution promises its observers: the statuses it goes      *)
(* through (the state machine of TaskStatus as the middleware drives it)   *)
(* and the number of automatic retries.  A terminal status is final, a     *)
(* retry is counted exactly when RETRYING is entered, and a task never     *)
(* starts twice without a retry in between.                                *)
(***************************************************************************)
EXTENDS Integers

CONSTANT MaxRetries

VARIABLES status, retries

lifecycle == <<status, retries>>

Start ==
    /\ status \in {"PENDING", "RETRYING"}
    /\ status' = "RUNNING"
    /\ UNCHANGED retries

Complete ==
    /\ status = "RUNNING"
    /\ status' = "COMPLETED"
    /\ UNCHANGED retries

\* The body failed for good, or a retry that was decided could not be sent.
Fail ==
    /\ status \in {"RUNNING", "RETRYING"}
    /\ status' = "FAILED"
    /\ UNCHANGED retries

Retry ==
    /\ status = "RUNNING"
    /\ retries < MaxRetries
    /\ status' = "RETRYING"
    /\ retries' = retries + 1

Init == status = "PENDING" /\ retries = 0

Next == Start \/ Complete \/ Fail \/ Retry

Spec == Init /\ [][Next]_lifecycle
=============================================================================
