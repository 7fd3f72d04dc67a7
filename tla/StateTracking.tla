--------------------------- MODULE StateTracking ---------------------------
(***************************************************************************)
(* middleware/state_tracking.py: StateTrackingMiddleware driven by the     *)
(* TaskIQ receiver for the messages of one task.  Each worker is one       *)
(* delivery in progress: pre_execute, the task body, on_error when the     *)
(* body raised, post_execute, then saving the result and acknowledging.    *)
(* All messages of a task are equal (same task_id, args, labels), so the   *)
(* queue is their number.                                                  *)
(*                                                                         *)
(* A database session is two steps: loading the row (and deciding), and    *)
(* flush + commit.  A commit may be rolled back or may take effect while   *)
(* its acknowledgement is lost; both raise OperationalError and @db_retry  *)
(* runs the hook again, DbAttempts times in all.                           *)
(*                                                                         *)
(* As in TaskRecords, X_... is a faulty variant of X that nothing uses.    *)
(***************************************************************************)
EXTENDS TaskRecords

CONSTANTS Worker,          \* concurrent deliveries
          Gates,           \* the retry settings considered, a subset of Gate
          DbAttempts,      \* DEFAULT_MAX_ATTEMPTS of db_retry
          MaxDbFaults,     \* bound: failing database operations
          MaxSendFaults,   \* bound: sends the broker refuses
          MaxUnconfirmed,  \* bound: sends accepted, but reported as failed
          MaxCrashes,      \* bound: workers that die
          MaxChannelLosses \* bound: broker channels lost under a running worker

\* "open":   task_retry_enabled and both allowlists name this task and tenant
\* "shadow": not open, task_retry_shadow_mode
\* "closed": not open, no shadow mode
Gate == {"open", "shadow", "closed"}

ASSUME GatesAssumption == Gates \subseteq Gate
ASSUME DbAttemptsAssumption == DbAttempts \in Nat \ {0}
ASSUME BoundsAssumption ==
    /\ MaxDbFaults \in Nat /\ MaxSendFaults \in Nat /\ MaxUnconfirmed \in Nat
    /\ MaxCrashes \in Nat /\ MaxChannelLosses \in Nat

VARIABLES row,       \* the committed task_execution row
          audit,     \* the committed task_attempt rows
          queue,     \* messages of this task ready in the broker
          worker,    \* worker[w]: the state of the delivery w works on
          gate,      \* the retry settings, fixed
          sent,      \* history: sent[n] = sends made for decision number n
          faults     \* history: the faults that happened, bounded

FaultCounts ==
    [db : Nat, send : Nat, unconfirmed : Nat, crash : Nat, channel : Nat]

vars == <<row, audit, queue, worker, gate, sent, faults>>

(***************************************************************************)
(* A delivery                                                              *)
(***************************************************************************)

\* _RetryDecision
Decision == [status : Status, reason : Reason, recorded : BOOLEAN,
             should : BOOLEAN, allowed : BOOLEAN, shadowed : BOOLEAN,
             number : 1 .. MaxRetries + 1]

NoDecision == [status |-> "FAILED", reason |-> "exhausted", recorded |-> FALSE,
               should |-> FALSE, allowed |-> FALSE, shadowed |-> FALSE,
               number |-> 1]

\* _OnErrorAttempt; retries = -1 and number = 0 stand for None.
OnErrorAttempt == [status : Status, reason : Reason,
                   retries : -1 .. MaxRetries, number : 0 .. MaxRetries]

NoAttempt == [status |-> "PENDING", reason |-> "none", retries |-> -1, number |-> 0]

Hook == {"pre", "error", "post"}

\* load .. undispatched: inside a hook's session; emit: after it; run: the task body;
\* save: the receiver saves the result; stuck: a hook raised, nothing is acked.
PC == {"idle", "load", "lookup", "write", "requeue", "mark", "undispatched",
       "emit", "run", "save", "stuck"}

Delivery == [pc : PC, hook : Hook, tries : 1 .. DbAttempts,
             held : BOOLEAN,       \* the broker still waits for our ack
             failed : BOOLEAN,     \* result.is_err
             noResult : BOOLEAN,   \* result.error is NoResultError
             shadow : BOOLEAN,     \* the shadow-retry marker on the result
             loaded : Row, decision : Decision, attempt : OnErrorAttempt,
             event : Status,       \* the status to emit
             counted : Nat,        \* history: increments of retry_count it committed
             resent : Nat]         \* history: retries it handed to the broker

Idle == [pc |-> "idle", hook |-> "pre", tries |-> 1, held |-> FALSE,
         failed |-> FALSE, noResult |-> FALSE, shadow |-> FALSE,
         loaded |-> NoRow, decision |-> NoDecision, attempt |-> NoAttempt,
         event |-> "PENDING", counted |-> 0, resent |-> 0]

\* Leave the session for the emit that ends the hook.
Finish(d, status) == [d EXCEPT !.pc = "emit", !.event = status,
                               !.loaded = NoRow, !.decision = NoDecision]

\* Enter the next hook, with a fresh @db_retry and a fresh _OnErrorAttempt.
Enter(d, hook) == [d EXCEPT !.pc = "load", !.hook = hook, !.tries = 1,
                            !.event = "PENDING", !.attempt = NoAttempt]

\* The hook raises into the receiver, which gives the delivery up.
Raise(d) == [d EXCEPT !.pc = "stuck", !.loaded = NoRow, !.decision = NoDecision]

\* db_retry: run the hook again, or re-raise.
Retry(d) ==
    IF d.tries < DbAttempts
    THEN [d EXCEPT !.pc = "load", !.tries = @ + 1,
                   !.loaded = NoRow, !.decision = NoDecision]
    ELSE Raise(d)

At(w, pc, hook) == worker[w].pc = pc /\ worker[w].hook = hook

Become(w, d) == worker' = [worker EXCEPT ![w] = d]

Outcome == {"committed", "rolled_back", "unacknowledged"}

\* A failed commit is taken for a success.
Commit_SwallowsError(w, outcome, newRow, newAudit, onSuccess, onFailure) ==
    /\ \/ outcome = "committed" /\ UNCHANGED faults
       \/ /\ outcome # "committed"
          /\ faults.db < MaxDbFaults
          /\ faults' = [faults EXCEPT !.db = @ + 1]
    /\ row'   = IF outcome = "rolled_back" THEN row ELSE newRow
    /\ audit' = IF outcome = "rolled_back" THEN audit ELSE newAudit
    /\ Become(w, onSuccess)
    /\ UNCHANGED <<queue, gate, sent>>

\* Flush and commit newRow and newAudit; the caller sees success only when
\* the commit was acknowledged.
Commit(w, outcome, newRow, newAudit, onSuccess, onFailure) ==
    /\ \/ outcome = "committed" /\ UNCHANGED faults
       \/ /\ outcome # "committed"
          /\ faults.db < MaxDbFaults
          /\ faults' = [faults EXCEPT !.db = @ + 1]
    /\ row'   = IF outcome = "rolled_back" THEN row ELSE newRow
    /\ audit' = IF outcome = "rolled_back" THEN audit ELSE newAudit
    /\ Become(w, IF outcome = "committed" THEN onSuccess ELSE Retry(onFailure))
    /\ UNCHANGED <<queue, gate, sent>>

(***************************************************************************)
(* The receiver (TaskIQ): takes a message, runs the body, acknowledges     *)
(***************************************************************************)

Receive(w) ==
    /\ worker[w].pc = "idle"
    /\ queue > 0
    /\ queue' = queue - 1
    /\ Become(w, Enter([Idle EXCEPT !.held = TRUE], "pre"))
    /\ UNCHANGED <<row, audit, gate, sent, faults>>

RunTask(w) ==
    /\ worker[w].pc = "run"
    /\ \E failed \in BOOLEAN :
          Become(w, Enter([worker[w] EXCEPT !.failed = failed],
                          IF failed THEN "error" ELSE "post"))
    /\ UNCHANGED <<row, audit, queue, gate, sent, faults>>

SaveAndAck(w) ==
    /\ worker[w].pc = "save"
    /\ Become(w, Idle)
    /\ UNCHANGED <<row, audit, queue, gate, sent, faults>>

(***************************************************************************)
(* pre_execute                                                             *)
(***************************************************************************)

\* A select or flush raises OperationalError before the hook wrote or remembered
\* anything; after a failed send that is update_task_status of _dispatch_retry.
LoadFails(w) ==
    /\ worker[w].pc \in {"load", "lookup", "undispatched"}
    /\ ~ (worker[w].hook = "post" /\ (worker[w].noResult \/ worker[w].shadow))
    /\ faults.db < MaxDbFaults
    /\ faults' = [faults EXCEPT !.db = @ + 1]
    /\ Become(w, Retry(worker[w]))
    /\ UNCHANGED <<row, audit, queue, gate, sent>>

\* A session fails with what db_retry does not catch (the wait for a connection of the
\* exhausted pool ends in SQLAlchemy's TimeoutError): the hook raises at once.
UnretriedError(w) ==
    /\ worker[w].pc \in {"load", "lookup", "write", "mark", "undispatched"}
    /\ ~ (worker[w].hook = "post" /\ (worker[w].noResult \/ worker[w].shadow))
    /\ faults.db < MaxDbFaults
    /\ faults' = [faults EXCEPT !.db = @ + 1]
    /\ Become(w, Raise(worker[w]))
    /\ UNCHANGED <<row, audit, queue, gate, sent>>

Load(w) ==
    /\ At(w, "load", "pre") \/ At(w, "load", "post")
    /\ ~ (worker[w].noResult \/ worker[w].shadow)
    /\ Become(w, [worker[w] EXCEPT !.pc = "write", !.loaded = row])
    /\ UNCHANGED <<row, audit, queue, gate, sent, faults>>

\* Write status and reason to the row as it was loaded, and nothing else.
SetStatus(w, outcome, status, reason) ==
    LET d == worker[w]
        t == UpdateTaskStatus(d.loaded, status, reason)
    IN  Commit(w, outcome, Flush(row, d.loaded, t), audit, Finish(d, status), d)

\* The hook returns without the event.
PreExecute_Silent(w, outcome) ==
    /\ At(w, "write", "pre")
    /\ LET d == worker[w]
           t == UpdateTaskStatus(d.loaded, "RUNNING", "started")
       IN  Commit(w, outcome, Flush(row, d.loaded, t), audit,
                  [Finish(d, "PENDING") EXCEPT !.pc = "run"], d)

PreExecute(w, outcome) ==
    /\ At(w, "write", "pre")
    /\ SetStatus(w, outcome, "RUNNING", "started")

(***************************************************************************)
(* on_error                                                                *)
(***************************************************************************)

\* A replay does not recognise the retry it recorded.
RetryAlreadyRecorded_Never(t, attempt) == FALSE

RetryAlreadyRecorded(t, attempt) ==
    /\ t.exists
    /\ t.status = attempt.status
    /\ t.retries = attempt.retries
    /\ t.reason = attempt.reason

\* The limit is checked one too late.
ResolveRetryDecision_LimitOff(t, attempt, mode) ==
    LET recorded == RetryAlreadyRecorded(t, attempt)
        should   == t.exists /\ t.retries <= MaxRetries
    IN  [status   |-> IF recorded THEN attempt.status
                      ELSE IF should /\ mode # "closed" THEN "RETRYING" ELSE "FAILED",
         reason   |-> IF recorded THEN attempt.reason ELSE "retrying",
         recorded |-> recorded,
         should   |-> should,
         allowed  |-> should /\ mode = "open",
         shadowed |-> should /\ mode = "shadow",
         number   |-> t.retries + 1]

\* Shadow mode records the decision and dispatches it as well.
ResolveRetryDecision_ShadowSends(t, attempt, mode) ==
    LET recorded == RetryAlreadyRecorded(t, attempt)
        should   == t.exists /\ t.retries < MaxRetries
        allowed  == should /\ mode # "closed"
    IN  [status   |-> IF recorded THEN attempt.status
                      ELSE IF allowed THEN "RETRYING" ELSE "FAILED",
         reason   |-> IF recorded THEN attempt.reason ELSE "retrying",
         recorded |-> recorded,
         should   |-> should,
         allowed  |-> allowed,
         shadowed |-> FALSE,
         number   |-> t.retries + 1]

ResolveRetryDecision(t, attempt, mode) ==
    LET recorded == RetryAlreadyRecorded(t, attempt)
        should   == t.exists /\ t.retries < MaxRetries
        allowed  == should /\ mode = "open"
        shadowed == should /\ mode = "shadow"
        reason   == IF allowed THEN "retrying"
                    ELSE IF shadowed THEN "shadowed"
                    ELSE IF should THEN "disabled" ELSE "exhausted"
        status   == IF allowed \/ shadowed THEN "RETRYING" ELSE "FAILED"
    IN  [status   |-> IF recorded THEN attempt.status ELSE status,
         reason   |-> IF recorded THEN attempt.reason ELSE reason,
         recorded |-> recorded,
         should   |-> should,
         allowed  |-> allowed,
         shadowed |-> shadowed,
         number   |-> t.retries + 1]

\* attempt.attempt_number or decision.attempt_number
ClaimNumber(d) ==
    IF d.attempt.number # 0 THEN d.attempt.number ELSE d.decision.number

\* The end of _record_error_status when nothing is to be dispatched.
FinishUndispatched(d, decision) ==
    Finish([d EXCEPT !.shadow = @ \/ decision.shadowed], decision.status)

\* Load the row and decide.
OnErrorLoad(w) ==
    /\ At(w, "load", "error")
    /\ LET d   == worker[w]
           dec == ResolveRetryDecision(row, d.attempt, gate)
           at(pc) == [d EXCEPT !.pc = pc, !.loaded = row, !.decision = dec]
       IN  Become(w, IF ~ dec.recorded THEN at("write")
                     ELSE IF dec.allowed THEN at("lookup")
                     ELSE FinishUndispatched(d, dec))
    /\ UNCHANGED <<row, audit, queue, gate, sent, faults>>

\* The recorded retry's audit row says whether its send is still due.
RecoverDispatch(w) ==
    /\ At(w, "lookup", "error")
    /\ LET d     == worker[w]
           state == DispatchState(audit, ClaimNumber(d))
       IN  Become(w, IF state = "PENDING" THEN [d EXCEPT !.pc = "requeue"]
                     ELSE IF state = "DISPATCHED" THEN [d EXCEPT !.pc = "mark"]
                     ELSE Retry(d))
    /\ UNCHANGED <<row, audit, queue, gate, sent, faults>>

\* A retry is not claimed before it is sent.
AuditDecision_NoClaim(log, decision) ==
    IF decision.should /\ ~ decision.allowed
    THEN RecordTaskAttempt(log, decision.number,
                           IF decision.shadowed THEN "SHADOWED" ELSE "BLOCKED")
    ELSE log

\* Shadow mode leaves no trace.
AuditDecision_NoShadow(log, decision) ==
    IF decision.allowed
    THEN RecordTaskAttempt(ReconcilePending(log), decision.number, "PENDING")
    ELSE IF decision.should /\ ~ decision.shadowed
    THEN RecordTaskAttempt(log, decision.number, "BLOCKED")
    ELSE log

\* A pending row that is found is taken for the claim of the new retry.
AuditDecision_TakesOver(log, decision) ==
    IF decision.allowed /\ PendingRows(log) # {} THEN ReconcilePending(log)
    ELSE IF decision.allowed THEN RecordTaskAttempt(log, decision.number, "PENDING")
    ELSE IF decision.should
    THEN RecordTaskAttempt(log, decision.number,
                           IF decision.shadowed THEN "SHADOWED" ELSE "BLOCKED")
    ELSE log

\* The audit rows written with a decision: an allowed retry is claimed, after an older
\* pending row was reconciled; one that is due but not allowed is noted.
AuditDecision(log, decision) ==
    IF decision.allowed
    THEN RecordTaskAttempt(ReconcilePending(log), decision.number, "PENDING")
    ELSE IF decision.should
    THEN RecordTaskAttempt(log, decision.number,
                           IF decision.shadowed THEN "SHADOWED" ELSE "BLOCKED")
    ELSE log

\* The number of the retry is not remembered.
Remember_NoNumber(d, t) ==
    [status  |-> d.decision.status,
     reason  |-> d.decision.reason,
     retries |-> IF d.loaded.exists THEN t.retries ELSE -1,
     number  |-> d.attempt.number]

\* What the invocation remembers of the decision d writes; t is the changed object.
\* Memory is not undone when the commit fails.
Remember(d, t) ==
    [status  |-> d.decision.status,
     reason  |-> d.decision.reason,
     retries |-> IF d.loaded.exists THEN t.retries ELSE -1,
     number  |-> IF d.decision.allowed THEN d.decision.number ELSE d.attempt.number]

\* _record_initial_error_status with the reconciliation before it and the commit after.
\* update_task_status has refreshed the session's object after its flush, so what a
\* dispatch goes on with is the row as written, other sessions' columns included.
RecordErrorStatus(w, outcome) ==
    /\ At(w, "write", "error")
    /\ LET d   == worker[w]
           dec == d.decision
           t   == UpdateTaskStatus(d.loaded, dec.status, dec.reason)
           newRow == Flush(row, d.loaded, t)
           counts == dec.status = "RETRYING" /\ outcome # "rolled_back"
           e == [d EXCEPT !.attempt = Remember(d, t),
                          !.counted = IF counts THEN @ + 1 ELSE @]
       IN  Commit(w, outcome, newRow, AuditDecision(audit, dec),
                  IF dec.allowed
                  THEN [e EXCEPT !.pc = "requeue", !.loaded = newRow]
                  ELSE FinishUndispatched(e, dec),
                  e)

\* _requeue: the broker has the message.
RequeueSent(w) ==
    /\ worker[w].pc = "requeue"
    /\ queue' = queue + 1
    /\ sent'  = [sent EXCEPT ![ClaimNumber(worker[w])] = @ + 1]
    /\ Become(w, [worker[w] EXCEPT !.pc = "mark", !.resent = @ + 1])
    /\ UNCHANGED <<row, audit, gate, faults>>

\* The exception of a refused send is swallowed.
RequeueRefused_Swallowed(w) ==
    /\ worker[w].pc = "requeue"
    /\ faults.send < MaxSendFaults
    /\ faults' = [faults EXCEPT !.send = @ + 1]
    /\ Become(w, [worker[w] EXCEPT !.pc = "mark"])
    /\ UNCHANGED <<row, audit, queue, gate, sent>>

\* _requeue: kiq raised and the broker does not have the message.
RequeueRefused(w) ==
    /\ worker[w].pc = "requeue"
    /\ faults.send < MaxSendFaults
    /\ faults' = [faults EXCEPT !.send = @ + 1]
    /\ Become(w, [worker[w] EXCEPT !.pc = "undispatched"])
    /\ UNCHANGED <<row, audit, queue, gate, sent>>

\* _requeue: kiq raised, its confirmation was lost, but the broker has the message.
RequeueUnconfirmed(w) ==
    /\ worker[w].pc = "requeue"
    /\ faults.unconfirmed < MaxUnconfirmed
    /\ faults' = [faults EXCEPT !.unconfirmed = @ + 1]
    /\ queue' = queue + 1
    /\ sent'  = [sent EXCEPT ![ClaimNumber(worker[w])] = @ + 1]
    /\ Become(w, [worker[w] EXCEPT !.pc = "undispatched"])
    /\ UNCHANGED <<row, audit, gate>>

\* result.error is not replaced by NoResultError.
MarkDispatched_NoMarker(w, outcome) ==
    /\ worker[w].pc = "mark"
    /\ LET d == worker[w]
       IN  Commit(w, outcome, row, MarkTaskAttemptDispatched(audit, ClaimNumber(d)),
                  Finish(d, d.decision.status), d)

\* The audit row of a sent retry becomes DISPATCHED and post_execute is told to
\* keep out; without such a row an OperationalError is raised.
MarkDispatched(w, outcome) ==
    /\ worker[w].pc = "mark"
    /\ LET d == worker[w]
           n == ClaimNumber(d)
       IN  IF ClaimedRows(audit, n) = {}
           THEN Become(w, Retry(d)) /\ UNCHANGED <<row, audit, queue, gate, sent, faults>>
           ELSE Commit(w, outcome, row, MarkTaskAttemptDispatched(audit, n),
                       Finish([d EXCEPT !.noResult = TRUE], d.decision.status), d)

\* The failed dispatch leaves no audit row.
RetryDispatchFailed_Unaudited(w, outcome) ==
    /\ worker[w].pc = "undispatched"
    /\ LET d == worker[w]
           t == UpdateTaskStatus(d.loaded, "FAILED", "dispatch_error")
       IN  Commit(w, outcome, Flush(row, d.loaded, t), audit, Finish(d, "FAILED"), d)

\* The send raised: the row becomes FAILED and a DISPATCH_FAILED row is added.
\* The attempt remembers the new status but not a new retry count.
RetryDispatchFailed(w, outcome) ==
    /\ worker[w].pc = "undispatched"
    /\ LET d == worker[w]
           t == UpdateTaskStatus(d.loaded, "FAILED", "dispatch_error")
           e == [d EXCEPT !.attempt.status = "FAILED",
                          !.attempt.reason = "dispatch_error"]
       IN  Commit(w, outcome, Flush(row, d.loaded, t),
                  RecordTaskAttempt(audit, d.decision.number, "DISPATCH_FAILED"),
                  Finish(e, "FAILED"), e)

(***************************************************************************)
(* post_execute                                                            *)
(***************************************************************************)

\* on_error owns the outcome: the row is left alone.
PostExecuteSkips(w) ==
    /\ At(w, "load", "post")
    /\ worker[w].noResult \/ worker[w].shadow
    /\ Become(w, [worker[w] EXCEPT !.pc = "save"])
    /\ UNCHANGED <<row, audit, queue, gate, sent, faults>>

PostExecute(w, outcome) ==
    /\ At(w, "write", "post")
    /\ IF worker[w].failed THEN SetStatus(w, outcome, "FAILED", "failed")
                           ELSE SetStatus(w, outcome, "COMPLETED", "completed")

\* The exception of a failed emit reaches the receiver.
Emit_Raises(w) ==
    /\ worker[w].pc = "emit"
    /\ Become(w, [worker[w] EXCEPT !.pc = "stuck", !.event = "PENDING"])
    /\ UNCHANGED <<row, audit, queue, gate, sent, faults>>

\* _emit_status_event, after the session; it never raises.
Emit(w) ==
    /\ worker[w].pc = "emit"
    /\ LET d == [worker[w] EXCEPT !.event = "PENDING"]
       IN  Become(w, CASE d.hook = "pre"   -> [d EXCEPT !.pc = "run"]
                       [] d.hook = "error" -> Enter(d, "post")
                       [] d.hook = "post"  -> [d EXCEPT !.pc = "save"])
    /\ UNCHANGED <<row, audit, queue, gate, sent, faults>>

(***************************************************************************)
(* Lost deliveries (the broker redelivers what was not acknowledged)       *)
(***************************************************************************)

Returned(w) == IF worker[w].held THEN queue + 1 ELSE queue

\* The process running w dies.
Crash(w) ==
    /\ worker[w].pc \notin {"idle", "stuck"}
    /\ faults.crash < MaxCrashes
    /\ faults' = [faults EXCEPT !.crash = @ + 1]
    /\ queue' = Returned(w)
    /\ Become(w, Idle)
    /\ UNCHANGED <<row, audit, gate, sent>>

\* The broker channel is lost while w keeps running: its message is delivered again.
ChannelLost(w) ==
    /\ worker[w].pc \notin {"idle", "stuck"}
    /\ worker[w].held
    /\ faults.channel < MaxChannelLosses
    /\ faults' = [faults EXCEPT !.channel = @ + 1]
    /\ queue' = Returned(w)
    /\ Become(w, [worker[w] EXCEPT !.held = FALSE])
    /\ UNCHANGED <<row, audit, gate, sent>>

\* A delivery whose hook raised is never acknowledged, and nothing in the worker
\* closes its channel: the broker does, when it has waited too long for the
\* acknowledgement, and delivers the message again.
GiveBack(w) ==
    /\ worker[w].pc = "stuck"
    /\ queue' = Returned(w)
    /\ Become(w, Idle)
    /\ UNCHANGED <<row, audit, gate, sent, faults>>

(***************************************************************************)
(* The specification                                                       *)
(***************************************************************************)

\* No delivery has begun.
Fresh ==
    /\ audit = << >>
    /\ worker = [w \in Worker |-> Idle]
    /\ gate \in Gates
    /\ sent = [n \in Number |-> 0]
    /\ faults = [db |-> 0, send |-> 0, unconfirmed |-> 0, crash |-> 0, channel |-> 0]

\* The dispatching caller committed the row before it enqueued the message (module
\* Dispatch); a message may also name a row that does not exist.
Init ==
    /\ row \in {NewRow, NoRow}
    /\ queue = 1
    /\ Fresh

\* The steps a running delivery takes by itself: all but the emit, and all.
Work(w) ==
    \/ LoadFails(w) \/ UnretriedError(w)
    \/ Load(w) \/ OnErrorLoad(w) \/ RecoverDispatch(w)
    \/ RequeueSent(w) \/ RequeueRefused(w) \/ RequeueUnconfirmed(w)
    \/ PostExecuteSkips(w) \/ RunTask(w) \/ SaveAndAck(w) \/ GiveBack(w)
    \/ \E outcome \in Outcome :
          \/ PreExecute(w, outcome)
          \/ RecordErrorStatus(w, outcome)
          \/ MarkDispatched(w, outcome)
          \/ RetryDispatchFailed(w, outcome)
          \/ PostExecute(w, outcome)

Step(w) == Work(w) \/ Emit(w)

Next == \E w \in Worker : Receive(w) \/ Step(w) \/ Crash(w) \/ ChannelLost(w)

Spec == Init /\ [][Next]_vars

(***************************************************************************)
(* Properties                                                              *)
(***************************************************************************)

\* Every variable keeps its type; in particular retry_count stays within
\* 0 .. max_retries and no audit row is numbered beyond max_retries, whatever
\* interleaving or failure (_resolve_retry_decision checks the limit on a snapshot).
TypeOK ==
    /\ row \in Row
    /\ audit \in Seq(Attempt)
    /\ queue \in Nat
    /\ worker \in [Worker -> Delivery]
    /\ gate \in Gate
    /\ sent \in [Number -> Nat]
    /\ faults \in FaultCounts

\* No retry is in the broker that the audit table does not know of: the PENDING
\* row is committed before the send, and no failure, replay or redelivery leaves a
\* send without a PENDING or DISPATCHED row of its number.
WriteAheadAudit ==
    \A n \in Number : sent[n] > 0 => ClaimedRows(audit, n) # {}

Dispatching(d) == d.pc \in {"lookup", "requeue", "mark", "undispatched"}

ClaimKnown(d, log) == Dispatching(d) => ClaimedRows(log, ClaimNumber(d)) # {}

\* The "missing retry audit row" errors of the recovery paths are never raised: a
\* delivery that dispatches, marks or recovers finds the row it looks for.
AuditRowFound ==
    \A w \in Worker : ClaimKnown(worker[w], audit)

\* An audit row of a retry that retry_count counts: a shadowed one under the shadow
\* gate, a claimed one otherwise.
Decides(a, mode) ==
    IF mode = "shadow" THEN a.result = "SHADOWED" ELSE Claimed(a)

\* Each of the retries 1 .. k has its decision row in the log.
AuditedUpTo(k, log, mode) ==
    \A n \in 1 .. k :
        \E i \in DOMAIN log : log[i].number = n /\ Decides(log[i], mode)

\* retry_count is never ahead of the audit table: each of the retries it counts has
\* a decision row, whatever interleaving of deliveries wrote the count.
EveryRetryAudited == AuditedUpTo(row.retries, audit, gate)

\* Some retry was decided twice, as by two deliveries that loaded the same count.
DecidedTwice(log, mode) ==
    \E i, j \in DOMAIN log :
        /\ i # j /\ log[i].number = log[j].number
        /\ Decides(log[i], mode) /\ Decides(log[j], mode)

NoDecisionAbove(k, log, mode) ==
    \A i \in DOMAIN log : Decides(log[i], mode) => log[i].number <= k

\* retry_count is never behind the audit table without a trace.  Rows are not locked
\* when they are loaded, so the slower of two deliveries may write an older count over
\* a newer one; but then the audit table shows one retry decided twice.
LostUpdateAudited ==
    DecidedTwice(audit, gate) \/ NoDecisionAbove(row.retries, audit, gate)

\* Without the gate no automatic retry reaches the broker or is claimed to have.
GateRespected ==
    gate # "open" =>
        /\ \A n \in Number : sent[n] = 0
        /\ \A i \in DOMAIN audit : audit[i].result \in {"SHADOWED", "BLOCKED"}

\* The sends made, as pairs of a decision number and which send of it this was.
SendsMade == UNION {{n} \X (1 .. sent[n]) : n \in Number}

TotalSent == Cardinality(SendsMade)

AllClaimed(log) == {i \in DOMAIN log : Claimed(log[i])}

\* A retry is sent more often than it is audited only by database failures, one
\* extra message for each at most.
ExtraSendsHaveACause ==
    TotalSent <= Cardinality(AllClaimed(audit)) + faults.db

\* Every message of the task is acknowledged and every delivery over.
Settled == queue = 0 /\ \A w \in Worker : worker[w].pc = "idle"

\* The row tells an outcome: terminal, or RETRYING only as the operator's recovery point
\* of shadow mode; not RUNNING, and not RETRYING with no retry on its way.
OutcomeTold ==
    \/ row.status \in TerminalStatus
    \/ gate = "shadow" /\ row.status = "RETRYING" /\ row.reason = "shadowed"

\* post_execute never writes over a row whose retry its own on_error handed to the
\* broker.
SentRetryKept ==
    \A w \in Worker : At(w, "write", "post") => worker[w].resent = 0

\* A row marked DISPATCHED stands for a retry that was sent.
DispatchedWasSent ==
    \A i \in DOMAIN audit :
        audit[i].result = "DISPATCHED" => sent[audit[i].number] > 0

\* One on_error invocation counts one retry at most.
CountedOncePerError == \A w \in Worker : worker[w].counted <= 1

\* Each retry decision is sent once at most.
SentAtMostOnce == \A n \in Number : sent[n] <= 1

\* A retry still PENDING when all is settled is explained by a failed send.
SettledAudit ==
    Settled => \A i \in PendingRows(audit) :
                   \E j \in DOMAIN audit : /\ j > i
                                            /\ audit[j].number = audit[i].number
                                            /\ audit[j].result = "DISPATCH_FAILED"

\* A failed send is recorded under the number of a retry that was claimed before it,
\* or the next number: a replay computes the number anew, from the advanced count.
FailedSendNumbered ==
    \A i \in DOMAIN audit :
        audit[i].result = "DISPATCH_FAILED" =>
            \E j \in 1 .. i - 1 :
                /\ Claimed(audit[j])
                /\ audit[i].number \in {audit[j].number, audit[j].number + 1}

\* The audit table only grows, and of its rows only a PENDING one changes, once, to
\* DISPATCHED.
AuditAppendOnly == [][OnlyGrows(audit, audit')]_vars

\* Nothing failed so far but sends that the broker refused.
Calm == faults.db = 0 /\ faults.unconfirmed = 0 /\ faults.crash = 0 /\ faults.channel = 0

\* No two deliveries of the task overlap: one slot, and no message that comes back
\* while its delivery runs on.
OneDelivery ==
    \A v, w \in Worker : worker[v].pc # "idle" /\ worker[w].pc # "idle" => v = w

(***************************************************************************)
(* The inductive invariant behind WriteAheadAudit                          *)
(***************************************************************************)

\* A decision that is about to be written is the one its snapshot calls for.
DecisionFresh(d, mode) ==
    d.pc = "write" /\ d.hook = "error" =>
        /\ d.decision = ResolveRetryDecision(d.loaded, d.attempt, mode)
        /\ ~ d.decision.recorded

\* Only an allowed retry is dispatched, and its number is within the limit.
DispatchAllowed(d, mode) ==
    Dispatching(d) => mode = "open" /\ d.decision.number \in Number

\* What an on_error invocation remembers: a retry number that its recorded count
\* covers, or, when it never recorded a retry, a count at the limit.
AttemptSound(a, mode) ==
    /\ a.number # 0 => mode = "open"
    /\ a.number # 0 /\ a.retries # -1 => a.number <= a.retries
    /\ a.number = 0 /\ mode = "open" => a.retries \in {-1, MaxRetries}

DeliverySound(d, log, mode) ==
    /\ AuditedUpTo(d.loaded.retries, log, mode)
    /\ DecisionFresh(d, mode)
    /\ DispatchAllowed(d, mode)
    /\ AttemptSound(d.attempt, mode)
    /\ ClaimKnown(d, log)

\* TypeOK, WriteAheadAudit, AuditRowFound and EveryRetryAudited, strengthened until
\* every step keeps them: what a delivery loaded, decided and remembers is covered by
\* the log as well.
AuditInv ==
    /\ TypeOK
    /\ EveryRetryAudited
    /\ \A w \in Worker : DeliverySound(worker[w], audit, gate)
    /\ WriteAheadAudit

(***************************************************************************)
(* Refinements                                                             *)
(***************************************************************************)

\* The ledger that the audit table keeps of the retries sent.
Ledger == INSTANCE RetryLedger WITH
              claims <- {n \in Number : ClaimedRows(audit, n) # {}},
              sends  <- sent

\* The audit table is a write-ahead ledger of what goes to the broker, through every
\* failure and replay of on_error.
LedgerSpec == Ledger!Spec

\* The row as its observers see it.
Lifecycle == INSTANCE TaskLifecycle WITH
                 status  <- row.status,
                 retries <- row.retries

\* While nothing fails but sends that the broker refuses, the row goes through the
\* documented state machine, although the retried delivery overlaps the end of the
\* one that sent it.
LifecycleSpec == Lifecycle!Spec
=============================================================================
