--------------------------- MODULE DispatchProofs ---------------------------
(***************************************************************************)
(* The retry protocol keeps its invariant when its row and its message are *)
(* made by dispatch_example_task, every message has its row, and what is   *)
(* dispatched comes to its outcome.                                        *)
(***************************************************************************)
EXTENDS Dispatch, StateTrackingProofs, FiniteSetTheorems

USE DEF FaultCounts

\* A step of a delivery starts from a message or from a delivery in progress, and neither
\* makes nor removes the row.
LEMMA GoesKeepsRow ==
    ASSUME AuditInv, NEW w \in Worker, Goes(worker[w], worker'[w])
    PROVE  /\ row'.exists = row.exists
           /\ queue > 0 \/ worker[w].pc # "idle"
<1> DEFINE d == worker[w]
           e == worker'[w]
<1>1. ASSUME NEW loaded, NEW dirty
      PROVE  Flush(row, loaded, dirty).exists = row.exists
  BY DEF Flush
<1>2. CASE \/ Received(d, e) \/ Ran(d, e) \/ Saved(d, e) \/ WasReturned(d, e)
           \/ LostChannel(d, e) \/ SessionFailed(d, e) \/ Loaded(d, e) \/ Decided(d, e)
           \/ Recovered(d, e) \/ WasSent(d, e) \/ WasRefused(d, e) \/ Skipped(d, e)
           \/ Emitted(d, e)
  BY <1>2 DEF Received, Ran, Saved, WasReturned, LostChannel, SessionFailed, Loaded,
              Decided, Recovered, WasSent, WasRefused, Skipped, Emitted
<1>3. ASSUME NEW outcome \in Outcome,
             \/ Wrote(d, e, outcome) \/ Recorded(d, e, outcome)
             \/ Marked(d, e, outcome) \/ GaveUp(d, e, outcome)
      PROVE  row'.exists = row.exists /\ d.pc # "idle"
  BY <1>1, <1>3 DEF Wrote, Recorded, Marked, GaveUp, Commits
<1> QED
  BY <1>2, <1>3 DEF Goes

(***************************************************************************)
(* The invariants                                                          *)
(***************************************************************************)

\* A step of the caller leaves the deliveries and the audit table alone, and makes the
\* row before there is a message.
LEMMA CallerKeeps ==
    ASSUME AuditInv, MessageNeedsRow, Call \/ CallerCrash
    PROVE  AuditInv'
<1>1. /\ audit' = audit /\ worker' = worker /\ gate' = gate /\ sent' = sent
  BY DEF Call, CallerCrash, CreateRow, Enqueue, EnqueueRefused, EnqueueUnconfirmed
<1>2. row' = row \/ row' = NewRow
  BY DEF Call, CallerCrash, CreateRow, Enqueue, EnqueueRefused, EnqueueUnconfirmed
<1>3. queue' \in Nat /\ faults' \in FaultCounts
  <2>1. queue \in Nat /\ faults \in FaultCounts
    BY DEF AuditInv, TypeOK
  <2>2. CASE Enqueue \/ EnqueueRefused \/ EnqueueUnconfirmed
    BY <2>1, <2>2 DEF Enqueue, EnqueueRefused, EnqueueUnconfirmed
  <2>3. CASE CallerCrash
    BY <2>1, <2>3 DEF CallerCrash
  <2>4. ASSUME NEW outcome \in Outcome, CreateRow(outcome)
        PROVE  queue' \in Nat /\ faults' \in FaultCounts
    BY <2>1, <2>4 DEF CreateRow
  <2> QED
    BY <2>2, <2>3, <2>4 DEF Call
<1>4. row' \in Row /\ EveryRetryAudited'
  <2>1. CASE row' = row
    BY <1>1, <2>1 DEF AuditInv, TypeOK, EveryRetryAudited
  <2>2. CASE row' = NewRow
    BY <1>1, <2>2, NeutralRecords DEF EveryRetryAudited, AuditedUpTo, NewRow
  <2> QED
    BY <1>2, <2>1, <2>2
<1>5. TypeOK'
  BY <1>1, <1>3, <1>4 DEF AuditInv, TypeOK
<1>6. WriteAheadAudit' /\ \A w \in Worker : DeliverySound(worker'[w], audit', gate')
  BY <1>1 DEF AuditInv, WriteAheadAudit
<1> QED
  BY <1>4, <1>5, <1>6 DEF AuditInv

\* The row the caller is about to announce is there.
DispatchInv ==
    /\ AuditInv
    /\ MessageNeedsRow
    /\ caller = "enqueue" => row.exists

LEMMA DispatchInvInductive ==
    /\ DispatchInit => DispatchInv
    /\ DispatchInv /\ [DispatchNext]_dispatchVars => DispatchInv'
<1>1. DispatchInit => DispatchInv
  <2> SUFFICES ASSUME DispatchInit PROVE DispatchInv
    OBVIOUS
  <2>1. row = NoRow /\ NoRow.retries = 0 /\ row \in Row
    BY NeutralRecords DEF DispatchInit, NoRow, NewRow
  <2>2. /\ audit = << >> /\ gate \in Gate /\ queue = 0
        /\ worker = [w \in Worker |-> Idle]
        /\ sent = [n \in Number |-> 0] /\ faults \in FaultCounts
    BY GatesAssumption DEF DispatchInit, Fresh
  <2>3. TypeOK
    BY <2>1, <2>2, NeutralRecords DEF TypeOK
  <2>4. EveryRetryAudited /\ WriteAheadAudit
    BY <2>1, <2>2 DEF EveryRetryAudited, AuditedUpTo, WriteAheadAudit
  <2>5. \A w \in Worker : DeliverySound(worker[w], audit, gate) /\ worker[w].pc = "idle"
    BY <2>2, IdleSound DEF Idle
  <2> QED
    BY <2>2, <2>3, <2>4, <2>5 DEF DispatchInv, AuditInv, MessageNeedsRow, DispatchInit
<1>2. ASSUME DispatchInv, [DispatchNext]_dispatchVars
      PROVE  DispatchInv'
  <2>1. CASE UNCHANGED dispatchVars
    <3>1. UNCHANGED vars /\ caller' = caller /\ queue' = queue /\ row' = row /\ worker' = worker
      BY <2>1 DEF dispatchVars, vars
    <3> QED
      BY <1>2, <3>1, NextKeepsAudit DEF DispatchInv, SoundStep, MessageNeedsRow
  <2>2. CASE Next /\ UNCHANGED caller
    <3>1. row'.exists = row.exists /\ row.exists
      BY <1>2, <2>2, NextGoes, GoesKeepsRow DEF DispatchInv, MessageNeedsRow
    <3> QED
      BY <1>2, <2>2, <3>1, NextKeepsAudit DEF DispatchInv, SoundStep, MessageNeedsRow
  <2>3. CASE Call \/ CallerCrash
    <3>1. AuditInv'
      BY <1>2, <2>3, CallerKeeps DEF DispatchInv
    <3>2. NewRow.exists
      BY DEF NewRow
    <3>3. /\ row.exists => row'.exists
          /\ caller' = "enqueue" => row'.exists
          /\ queue' # queue => row'.exists
          /\ worker' = worker
      BY <1>2, <2>3, <3>2 DEF Call, CallerCrash, CreateRow, Enqueue, EnqueueRefused,
             EnqueueUnconfirmed, DispatchInv
    <3> QED
      BY <1>2, <3>1, <3>3 DEF DispatchInv, MessageNeedsRow
  <2> QED
    BY <1>2, <2>1, <2>2, <2>3 DEF DispatchNext
<1> QED
  BY <1>1, <1>2

\* A delivery of a dispatched task always finds the row: the commit that
\* dispatch_example_task waits for comes before every message.
THEOREM MessageHasRow == DispatchSpec => []MessageNeedsRow
<1>1. DispatchInv => MessageNeedsRow
  BY DEF DispatchInv
<1> QED
  BY <1>1, DispatchInvInductive, PTL DEF DispatchSpec

\* The invariant of the retry protocol (AuditInv) holds for a task made by
\* dispatch_example_task, whatever fails on either side.
THEOREM DispatchedAudit == DispatchSpec => []AuditInv
<1>1. DispatchInv => AuditInv
  BY DEF DispatchInv
<1> QED
  BY <1>1, DispatchInvInductive, PTL DEF DispatchSpec

(***************************************************************************)
(* The inductive invariant behind DispatchOutcome, while no channel is     *)
(* lost                                                                    *)
(***************************************************************************)

AllIdle == \A w \in Worker : worker[w].pc = "idle"

\* What every delivery keeps to: its message is still the broker's, what it loaded exists,
\* a marker is only set at the end of on_error, and what it remembers is RETRYING only
\* with the retry's number.
DeliveryPlain(d) ==
    /\ d.pc # "idle" => d.held
    /\ d.pc \in {"write", "lookup", "requeue", "undispatched"} => d.loaded.exists
    /\ d.pc = "run" => d.hook = "pre"
    /\ d.pc = "save" => d.hook = "post"
    /\ Dispatching(d) => d.hook = "error"
    /\ d.hook = "pre" \/ (d.hook = "error" /\ d.pc \notin {"emit", "stuck"})
          => ~ d.noResult /\ ~ d.shadow
    /\ d.attempt.status \in {"PENDING", "RETRYING", "FAILED"}
    /\ d.attempt.status = "RETRYING" /\ gate = "open"
          => d.attempt.number # 0 /\ d.attempt.number = d.attempt.retries

\* There is no message without the row, and before the caller is done none at all.
RowFirst ==
    /\ ~ row.exists => row = NoRow /\ caller \notin {"enqueue", "returned"}
    /\ caller = "create" => ~ row.exists

\* A PENDING row was never written, and there is a message for it unless its caller was
\* not handed the task.
PendingUntouched ==
    row.exists /\ row.status = "PENDING" =>
        /\ row = NewRow
        /\ \A w \in Worker : worker[w].pc # "idle" =>
              /\ worker[w].hook = "pre" /\ worker[w].pc \in {"load", "write", "stuck"}
              /\ worker[w].pc = "write" => worker[w].loaded = row
        /\ caller # "returned" \/ queue > 0 \/ ~ AllIdle

\* Without the open gate nothing is sent: there is one message in all.
OneMessage ==
    gate # "open" =>
        /\ caller \in {"create", "enqueue"} => queue = 0 /\ AllIdle
        /\ queue <= 1 /\ (queue > 0 => AllIdle)
        /\ OneDelivery
        /\ \A w \in Worker : worker[w].pc = "write" => worker[w].loaded = row

\* RETRYING comes with a retry, and in shadow mode says so.
RetryingTold ==
    row.status = "RETRYING" =>
        /\ gate # "closed" /\ row.retries > 0
        /\ gate = "shadow" => row.reason = "shadowed"

\* The retry that a delivery is about to mark was sent, or taken to be sent before.
MarkKnown(d) ==
    d.pc = "mark" =>
        \/ sent[ClaimNumber(d)] > 0
        \/ \E i \in ClaimedRows(audit, ClaimNumber(d)) : audit[i].result = "DISPATCHED"

\* A delivery that will move the row on, or whose message will come back.
Resumes(d) ==
    \/ d.pc = "stuck"
    \/ d.hook = "pre" /\ d.pc # "idle"
    \/ d.hook = "error" /\ d.pc \in {"load", "write"}
    \/ /\ d.hook = "error" /\ d.pc \in {"requeue", "undispatched"}
       /\ d.loaded.status # "FAILED"
    \/ d.hook = "error" /\ d.pc = "emit" /\ ~ d.noResult /\ ~ d.shadow
    \/ /\ d.hook = "post" /\ ~ d.noResult /\ ~ d.shadow
       /\ \/ d.pc = "load"
          \/ d.pc = "write" /\ d.loaded.status \notin TerminalStatus

\* A replay that is about to find retry k claimed.
RecoversRetry(d, k) ==
    /\ d.pc = "lookup" /\ d.hook = "error"
    /\ ClaimNumber(d) = k /\ d.loaded.status = "RETRYING"

\* A delivery that will start the task anew, or whose message will come back.
Starts(d) ==
    \/ d.pc = "stuck"
    \/ d.hook = "pre" /\ d.pc = "load"
    \/ d.hook = "pre" /\ d.pc = "write" /\ d.loaded.status # "RUNNING"

ClaimedOnce(k) == \A i, j \in ClaimedRows(audit, k) : i = j

RunningGoesOn ==
    row.exists /\ row.status = "RUNNING" =>
        queue > 0 \/ \E w \in Worker : Resumes(worker[w])

\* The one claim of the current retry says whether it was sent; sent, its message is
\* there or was taken; not sent, its delivery is at work on it.
RetryGoesOn ==
    gate = "open" /\ ClaimedOnce(row.retries) /\ row.retries > 0 =>
        /\ sent[row.retries] = 0 =>
              \A i \in ClaimedRows(audit, row.retries) : audit[i].result = "PENDING"
        /\ row.status = "RETRYING" =>
              \/ queue > 0
              \/ \E w \in Worker :
                    IF sent[row.retries] = 0
                    THEN Resumes(worker[w]) \/ RecoversRetry(worker[w], row.retries)
                    ELSE Starts(worker[w])

TaskGoesOn ==
    /\ \A w \in Worker : DeliveryPlain(worker[w]) /\ MarkKnown(worker[w])
    /\ RowFirst /\ PendingUntouched /\ OneMessage /\ RetryingTold
    /\ RunningGoesOn /\ RetryGoesOn

OutcomeInv == faults.channel = 0 => TaskGoesOn

(***************************************************************************)
(* DispatchOutcome: a step of delivery w, while no channel is lost         *)
(***************************************************************************)

OutcomeStep(w) ==
    /\ DispatchInv /\ TaskGoesOn /\ SoundStep /\ caller' = caller
    /\ worker[w] \in Delivery /\ worker'[w] \in Delivery
    /\ Others(w) /\ Goes(worker[w], worker'[w])
    /\ faults.channel = 0 /\ faults'.channel = 0

\* What the parts of the invariant say of the delivery that moves.
LEMMA OutcomeFacts ==
    ASSUME NEW w \in Worker, OutcomeStep(w)
    PROVE  LET d == worker[w]
           IN  /\ AuditInv /\ AuditInv' /\ gate' = gate /\ gate \in Gate
               /\ d \in Delivery /\ DeliveryPlain(d) /\ MarkKnown(d)
               /\ d.loaded \in Row /\ d.attempt \in OnErrorAttempt
               /\ row \in Row /\ row.exists /\ queue \in Nat
               /\ ~ LostChannel(d, worker'[w])
<1> DEFINE d == worker[w]
           e == worker'[w]
<1>1. AuditInv /\ AuditInv' /\ gate' = gate /\ Goes(d, e)
  BY DEF OutcomeStep, DispatchInv, SoundStep
<1>2. /\ d \in Delivery /\ gate \in Gate /\ row \in Row /\ queue \in Nat
      /\ d.loaded \in Row /\ d.attempt \in OnErrorAttempt /\ faults \in FaultCounts
  BY <1>1, InvFacts DEF Delivery
<1>3. row.exists
  BY <1>1, GoesKeepsRow DEF OutcomeStep, DispatchInv, MessageNeedsRow
<1>4. ~ LostChannel(d, e)
  BY <1>2 DEF OutcomeStep, LostChannel
<1>5. DeliveryPlain(d) /\ MarkKnown(d)
  BY DEF OutcomeStep, TaskGoesOn
<1> QED
  BY <1>1, <1>2, <1>3, <1>4, <1>5

\* What a commit of on_error writes to the row.
LEMMA RecordedRow ==
    ASSUME NEW w \in Worker, OutcomeStep(w), NEW outcome \in Outcome,
           Recorded(worker[w], worker'[w], outcome), outcome # "rolled_back"
    PROVE  LET d == worker[w]
               dec == d.decision
           IN  /\ row'.status = IF dec.status # d.loaded.status THEN dec.status
                                                                ELSE row.status
               /\ row'.retries = IF dec.status = "RETRYING" THEN dec.number ELSE row.retries
               /\ dec.reason # d.loaded.reason => row'.reason = dec.reason
               /\ dec.reason = d.loaded.reason =>
                     row'.reason \in {row.reason, dec.reason}
               /\ audit' = AuditDecision(audit, dec)
<1> DEFINE d == worker[w]
           dec == d.decision
<1>1. d.pc = "write" /\ d.hook = "error" /\ Commits(outcome,
         Flush(row, d.loaded, UpdateTaskStatus(d.loaded, dec.status, dec.reason)),
         AuditDecision(audit, dec))
  BY DEF Recorded
<1>2. d.loaded.exists /\ d.loaded \in Row /\ row \in Row /\ AuditInv
  BY <1>1, OutcomeFacts DEF DeliveryPlain
<1>3. dec.status \in Status /\ dec.reason \in Reason /\ dec.number = d.loaded.retries + 1
  BY <1>1, <1>2, DecisionParts DEF Decision
<1> QED
  BY <1>1, <1>2, <1>3, FlushFields DEF Commits

\* A commit of another hook: the status it was to write is there, unless it was loaded
\* so; the count is left alone.
LEMMA WrittenRow ==
    ASSUME NEW w \in Worker, OutcomeStep(w), NEW outcome \in Outcome,
           \/ Wrote(worker[w], worker'[w], outcome) \/ GaveUp(worker[w], worker'[w], outcome)
    PROVE  LET d == worker[w]
               target == IF d.pc = "undispatched" THEN "FAILED"
                         ELSE IF d.hook = "pre" THEN "RUNNING"
                         ELSE IF d.failed THEN "FAILED" ELSE "COMPLETED"
           IN  /\ row'.retries = row.retries
               /\ outcome = "rolled_back" => row' = row
               /\ outcome # "rolled_back" =>
                     row'.status = IF target # d.loaded.status THEN target ELSE row.status
<1> DEFINE d == worker[w]
<1>1. d.loaded.exists /\ d.loaded \in Row /\ row \in Row
  BY OutcomeFacts DEF Wrote, GaveUp, DeliveryPlain
<1>2. CASE Wrote(d, worker'[w], outcome)
  <2> DEFINE status == IF d.hook = "pre" THEN "RUNNING"
                       ELSE IF d.failed THEN "FAILED" ELSE "COMPLETED"
             reason == IF d.hook = "pre" THEN "started"
                       ELSE IF d.failed THEN "failed" ELSE "completed"
  <2>1. status \in Status \ {"RETRYING"} /\ reason \in Reason
    BY DEF Status, Reason
  <2>2. d.pc = "write" /\ Commits(outcome,
           Flush(row, d.loaded, UpdateTaskStatus(d.loaded, status, reason)), audit)
    BY <1>2 DEF Wrote
  <2> HIDE DEF reason
  <2> QED
    BY <1>1, <2>1, <2>2, FlushFields DEF Commits
<1>3. CASE GaveUp(d, worker'[w], outcome)
  <2>1. "FAILED" \in Status /\ "dispatch_error" \in Reason
    BY DEF Status, Reason
  <2>2. /\ d.pc = "undispatched"
        /\ row' = IF outcome = "rolled_back" THEN row
                  ELSE Flush(row, d.loaded,
                             UpdateTaskStatus(d.loaded, "FAILED", "dispatch_error"))
    BY <1>3 DEF GaveUp, Commits
  <2> QED
    BY <1>1, <2>1, <2>2, FlushFields
<1> QED
  BY <1>2, <1>3

LEMMA PlainStep ==
    ASSUME NEW w \in Worker, OutcomeStep(w)
    PROVE  DeliveryPlain(worker'[w])
<1> DEFINE d == worker[w]
           e == worker'[w]
<1>1. /\ d \in Delivery /\ e \in Delivery /\ DeliveryPlain(d) /\ row.exists
      /\ AuditInv /\ gate \in Gate
      /\ Goes(d, e) /\ ~ LostChannel(d, e)
  BY OutcomeFacts DEF OutcomeStep
<1> USE DEF DeliveryPlain, Dispatching
<1>2. CASE Received(d, e) \/ Saved(d, e) \/ WasReturned(d, e)
  <2>1. CASE e = Idle
    BY <2>1 DEF Idle, NoAttempt
  <2>2. CASE Received(d, e)
    BY <2>2 DEF Received, NoAttempt
  <2> QED
    BY <1>2, <2>1, <2>2 DEF Saved, WasReturned
<1>3. CASE Ran(d, e)
  BY <1>1, <1>3 DEF Ran, Marks, NoAttempt
<1>4. CASE SessionFailed(d, e) \/ WasRefused(d, e)
  BY <1>1, <1>4 DEF SessionFailed, WasRefused, Steady, Within, Marks, Memory
<1>5. CASE Loaded(d, e) \/ Skipped(d, e)
  BY <1>1, <1>5 DEF Loaded, Skipped, Steady, Within, Marks, Memory
<1>6. CASE Emitted(d, e)
  BY <1>1, <1>6 DEF Emitted, Marks, Delivery, NoAttempt
<1>7. CASE Decided(d, e)
  BY <1>1, <1>7 DEF Decided, Within, Marks, Memory
<1>8. CASE Recovered(d, e)
  BY <1>1, <1>8 DEF Recovered, Steady, Within, Marks, Memory
<1>9. CASE WasSent(d, e)
  BY <1>1, <1>9 DEF WasSent, Within, Marks, Memory
<1>10. ASSUME NEW outcome \in Outcome, Wrote(d, e, outcome)
       PROVE  DeliveryPlain(e)
  BY <1>1, <1>10 DEF Wrote, Leaves, Steady, Within, Marks, Memory
<1>11. ASSUME NEW outcome \in Outcome, Recorded(d, e, outcome)
       PROVE  DeliveryPlain(e)
  <2> DEFINE dec == d.decision
             t == UpdateTaskStatus(d.loaded, dec.status, dec.reason)
  <2>1. /\ d.pc = "write" /\ d.hook = "error" /\ d.loaded.exists
        /\ ~ d.noResult /\ ~ d.shadow
    BY <1>1, <1>11 DEF Recorded
  <2>2. /\ dec.number = d.loaded.retries + 1 /\ d.loaded \in Row
        /\ dec.status \in {"RETRYING", "FAILED"} /\ dec.reason \in Reason
        /\ dec.status = "RETRYING" /\ gate = "open" => dec.allowed
    BY <1>1, <2>1, DecisionParts DEF Decision, Delivery
  <2>3. dec.status = "RETRYING" => t.retries = dec.number /\ dec.number # 0
    BY <2>1, <2>2, MaxRetriesAssumption DEF UpdateTaskStatus, Row
  <2>4. e.attempt = Remember(d, t)
    BY <1>11 DEF Recorded
  <2> HIDE DEF t
  <2>5. /\ e.attempt.status = dec.status
        /\ dec.status = "RETRYING" /\ gate = "open" =>
              e.attempt.number = dec.number /\ e.attempt.retries = t.retries
    BY <2>1, <2>2, <2>4 DEF Remember
  <2>6. /\ e.held /\ e.hook = "error" /\ ~ e.noResult
        /\ e.pc \in {"load", "stuck", "emit", "requeue"}
        /\ e.pc \notin {"emit", "stuck"} => ~ e.shadow
    BY <1>1, <1>11, <2>1 DEF Recorded, Leaves, Within
  <2>7. e.pc = "requeue" => e.loaded.exists
    <3>1. e.pc = "requeue" => e.loaded = Flush(row, d.loaded, t)
      BY <1>11 DEF Recorded, Leaves, t
    <3> QED
      BY <1>1, <3>1 DEF Flush
  <2> QED
    BY <1>1, <2>1, <2>2, <2>3, <2>5, <2>6, <2>7
<1>12. ASSUME NEW outcome \in Outcome, Marked(d, e, outcome)
       PROVE  DeliveryPlain(e)
  BY <1>1, <1>12 DEF Marked, Leaves, Within, Memory
<1>13. ASSUME NEW outcome \in Outcome, GaveUp(d, e, outcome)
       PROVE  DeliveryPlain(e)
  BY <1>1, <1>13 DEF GaveUp, Leaves, Within, Marks
<1> QED
  BY <1>1, <1>2, <1>3, <1>4, <1>5, <1>6, <1>7, <1>8, <1>9, <1>10, <1>11, <1>12, <1>13
  DEF Goes

LEMMA MarkStep ==
    ASSUME NEW w \in Worker, OutcomeStep(w)
    PROVE  \A v \in Worker : MarkKnown(worker[v])'
<1> DEFINE d == worker[w]
           e == worker'[w]
           Known(n, sends, log) == \/ sends[n] > 0
                                   \/ \E i \in ClaimedRows(log, n) : log[i].result = "DISPATCHED"
<1>1. /\ AuditInv /\ Goes(d, e) /\ ~ LostChannel(d, e) /\ d \in Delivery /\ e \in Delivery
      /\ audit \in Seq(Attempt) /\ audit' \in Seq(Attempt) /\ OnlyGrows(audit, audit')
      /\ sent \in [Number -> Nat] /\ MarkKnown(d) /\ DeliverySound(d, audit, gate)
  BY OutcomeFacts, InvFacts DEF OutcomeStep, SoundStep, AuditInv, TypeOK
<1>2. \/ sent' = sent
      \/ d.pc = "requeue" /\ sent' = [sent EXCEPT ![ClaimNumber(d)] = @ + 1]
  BY <1>1, OnlyRequeueSends DEF WasSent
<1>3. ASSUME NEW n, Known(n, sent, audit), n \in Number
      PROVE  Known(n, sent', audit')
  <2>1. CASE sent[n] > 0
    BY <1>1, <1>2, <1>3, <2>1
  <2>2. ASSUME NEW i \in ClaimedRows(audit, n), audit[i].result = "DISPATCHED"
        PROVE  Known(n, sent', audit')
    <3>1. i \in ClaimedRows(audit', n) /\ i \in DOMAIN audit
      BY <1>1, OnlyGrowsKeepsRows DEF ClaimedRows
    <3>2. audit'[i].result = "DISPATCHED"
      BY <1>1, <2>2, <3>1 DEF OnlyGrows
    <3> QED
      BY <3>1, <3>2
  <2> QED
    BY <1>3, <2>1, <2>2
<1>4. ASSUME NEW v \in Worker, worker[v].pc = "mark"
      PROVE  ClaimNumber(worker[v]) \in Number /\ Known(ClaimNumber(worker[v]), sent, audit)
  <2>1. worker[v] \in Delivery /\ DeliverySound(worker[v], audit, gate)
    BY <1>1, InvFacts
  <2>2. ClaimNumber(worker[v]) \in Number
    BY <1>4, <2>1, MaxRetriesAssumption
    DEF DeliverySound, DispatchAllowed, Dispatching, ClaimNumber, Delivery, OnErrorAttempt,
        Number
  <2> QED
    BY <1>4, <2>2 DEF OutcomeStep, TaskGoesOn, MarkKnown
<1>5. ASSUME e.pc = "mark"
      PROVE  Known(ClaimNumber(e), sent', audit')
  <2>1. CASE Recovered(d, e)
    <3>1. /\ ClaimNumber(e) = ClaimNumber(d) /\ sent' = sent /\ audit' = audit
          /\ DispatchState(audit, ClaimNumber(d)) = "DISPATCHED"
          /\ ClaimedRows(audit, ClaimNumber(d)) # {}
      BY <1>1, <1>5, <2>1
      DEF Recovered, Steady, Memory, ClaimNumber, DeliverySound, ClaimKnown, Dispatching
    <3> QED
      BY <1>1, <3>1, DispatchStateKnown
  <2>2. CASE WasSent(d, e)
    <3>1. ClaimNumber(e) = ClaimNumber(d) /\ sent' = [sent EXCEPT ![ClaimNumber(d)] = @ + 1]
      BY <2>2 DEF WasSent, Memory, ClaimNumber
    <3>2. ClaimNumber(d) \in Number
      BY <1>1, <2>2, MaxRetriesAssumption
      DEF WasSent, DeliverySound, DispatchAllowed, Dispatching, ClaimNumber, Delivery,
          OnErrorAttempt, Number
    <3> QED
      BY <1>1, <3>1, <3>2
  <2> QED
    BY <1>1, <1>5, <2>1, <2>2 DEF Goes, Received, Ran, Saved, WasReturned, SessionFailed,
       Loaded, Decided, WasRefused, Wrote, Recorded, Marked, GaveUp, Skipped, Emitted,
       Leaves, Idle
<1>6. ASSUME NEW v \in Worker PROVE MarkKnown(worker[v])'
  <2>1. CASE v = w
    BY <1>5, <2>1 DEF MarkKnown
  <2>2. CASE v # w
    <3>1. worker'[v] = worker[v]
      BY <2>2 DEF OutcomeStep, Others
    <3> QED
      BY <1>3, <1>4, <3>1 DEF MarkKnown
  <2> QED
    BY <2>1, <2>2
<1> QED
  BY <1>6

LEMMA PendingStep ==
    ASSUME NEW w \in Worker, OutcomeStep(w)
    PROVE  RowFirst' /\ PendingUntouched'
<1> DEFINE d == worker[w]
           e == worker'[w]
<1>1. /\ AuditInv /\ Goes(d, e) /\ ~ LostChannel(d, e) /\ d \in Delivery /\ row.exists
      /\ DeliveryPlain(d) /\ queue \in Nat /\ caller' = caller /\ Others(w)
      /\ PendingUntouched /\ RowFirst
  BY OutcomeFacts DEF OutcomeStep, TaskGoesOn
<1>2. RowFirst'
  <2>1. row'.exists /\ caller # "create"
    BY <1>1, GoesKeepsRow DEF RowFirst
  <2> QED
    BY <1>1, <2>1 DEF RowFirst
<1>3. ASSUME row'.status = "PENDING"
      PROVE  row.status = "PENDING" /\ row' = row
  <2>1. ASSUME NEW outcome \in Outcome, Wrote(d, e, outcome) \/ GaveUp(d, e, outcome)
        PROVE  row.status = "PENDING" /\ row' = row
    <3>1. d.pc \in {"write", "undispatched"}
      BY <2>1 DEF Wrote, GaveUp
    <3>2. row.status = "PENDING"
      BY <1>3, <2>1, WrittenRow
    <3>3. d.pc = "write" /\ d.hook = "pre" /\ d.loaded.status = "PENDING"
      BY <1>1, <3>1, <3>2 DEF PendingUntouched
    <3> QED
      BY <1>3, <2>1, <3>2, <3>3, WrittenRow
  <2>2. ASSUME NEW outcome \in Outcome, Recorded(d, e, outcome)
        PROVE  row.status = "PENDING" /\ row' = row
    <3>1. d.pc = "write" /\ d.hook = "error"
      BY <2>2 DEF Recorded
    <3>2. row.status # "PENDING"
      BY <1>1, <3>1 DEF PendingUntouched
    <3>3. d.decision.status \in {"RETRYING", "FAILED"}
      BY <1>1, <3>1, DecisionParts
    <3>4. outcome = "rolled_back"
      BY <1>3, <2>2, <3>2, <3>3, RecordedRow
    <3> QED
      BY <1>3, <2>2, <3>2, <3>4 DEF Recorded, Commits
  <2> QED
    BY <1>1, <1>3, <2>1, <2>2, RowWriters
<1>4. ASSUME row'.status = "PENDING"
      PROVE  /\ e.pc # "idle" => /\ e.hook = "pre" /\ e.pc \in {"load", "write", "stuck"}
                                 /\ e.pc = "write" => e.loaded = row
             /\ e.pc = "idle" => queue' > 0
  <2>1. row.status = "PENDING" /\ row' = row
    BY <1>3, <1>4
  <2>2. \/ d.pc = "idle"
        \/ d.hook = "pre" /\ d.pc = "stuck"
        \/ d.hook = "pre" /\ d.pc = "load"
        \/ d.hook = "pre" /\ d.pc = "write" /\ d.loaded = row
    BY <1>1, <2>1 DEF PendingUntouched
  <2>3. CASE Received(d, e)
    BY <2>3 DEF Received
  <2>4. CASE WasReturned(d, e)
    BY <1>1, <2>4 DEF WasReturned, Idle, DeliveryPlain
  <2>5. CASE SessionFailed(d, e)
    BY <2>2, <2>5 DEF SessionFailed, Steady, Within
  <2>6. CASE Loaded(d, e)
    BY <2>2, <2>6 DEF Loaded, Steady, Within
  <2>7. ASSUME NEW outcome \in Outcome, Wrote(d, e, outcome)
        PROVE  e.hook = "pre" /\ e.pc \in {"load", "stuck"}
    <3>1. d.pc = "write" /\ d.hook = "pre" /\ d.loaded.status = "PENDING"
      BY <2>1, <2>2, <2>7 DEF Wrote
    <3>2. outcome = "rolled_back"
      BY <1>4, <2>7, <3>1, WrittenRow
    <3> QED
      BY <2>7, <3>1, <3>2 DEF Wrote, Leaves, Steady, Within
  <2>8. ~ \/ Ran(d, e) \/ Saved(d, e) \/ Decided(d, e) \/ Recovered(d, e) \/ WasSent(d, e)
          \/ WasRefused(d, e) \/ Skipped(d, e) \/ Emitted(d, e)
          \/ \E outcome \in Outcome : \/ Recorded(d, e, outcome) \/ Marked(d, e, outcome)
                                      \/ GaveUp(d, e, outcome)
    BY <2>2 DEF Ran, Saved, Decided, Recovered, WasSent, WasRefused, Skipped, Emitted,
       Recorded, Marked, GaveUp
  <2> QED
    BY <1>1, <2>3, <2>4, <2>5, <2>6, <2>7, <2>8 DEF Goes
<1>5. ASSUME row'.exists, row'.status = "PENDING"
      PROVE  /\ row' = NewRow
             /\ \A v \in Worker : worker'[v].pc # "idle" =>
                   /\ worker'[v].hook = "pre"
                   /\ worker'[v].pc \in {"load", "write", "stuck"}
                   /\ worker'[v].pc = "write" => worker'[v].loaded = row'
             /\ caller' # "returned" \/ queue' > 0 \/ \E v \in Worker : worker'[v].pc # "idle"
  <2>1. row.status = "PENDING" /\ row' = row
    BY <1>3, <1>5
  <2>2. ASSUME NEW v \in Worker, worker'[v].pc # "idle"
        PROVE  /\ worker'[v].hook = "pre"
               /\ worker'[v].pc \in {"load", "write", "stuck"}
               /\ worker'[v].pc = "write" => worker'[v].loaded = row'
    BY <1>1, <1>4, <1>5, <2>1, <2>2 DEF Others, PendingUntouched
  <2> QED
    BY <1>1, <1>4, <1>5, <2>1, <2>2 DEF PendingUntouched
<1> QED
  BY <1>2, <1>5 DEF PendingUntouched, AllIdle

\* Under a gate that is not open nothing is sent, and a row is written as it was loaded.
LEMMA ClosedFacts ==
    ASSUME NEW w \in Worker, OutcomeStep(w), gate # "open"
    PROVE  LET d == worker[w]
           IN  /\ ~ Dispatching(d)
               /\ d.pc = "write" => d.loaded = row
               /\ d.pc # "idle" => queue = 0 /\ \A v \in Worker : v # w => worker[v].pc = "idle"
<1> DEFINE d == worker[w]
<1>1. AuditInv /\ OneMessage /\ d \in Delivery /\ queue \in Nat
  BY OutcomeFacts DEF OutcomeStep, TaskGoesOn
<1>2. ~ Dispatching(d)
  BY <1>1, InvFacts DEF DeliverySound, DispatchAllowed
<1> QED
  BY <1>1, <1>2 DEF OneMessage, OneDelivery, AllIdle

LEMMA OneMessageStep ==
    ASSUME NEW w \in Worker, OutcomeStep(w)
    PROVE  OneMessage'
<1> DEFINE d == worker[w]
           e == worker'[w]
<1> SUFFICES ASSUME gate # "open" PROVE OneMessage'
  BY OutcomeFacts DEF OneMessage
<1>1. /\ Goes(d, e) /\ ~ LostChannel(d, e) /\ d \in Delivery /\ DeliveryPlain(d)
      /\ queue \in Nat /\ caller' = caller /\ Others(w) /\ OneMessage
  BY OutcomeFacts DEF OutcomeStep, TaskGoesOn
<1>2. /\ ~ Dispatching(d) /\ (d.pc = "write" => d.loaded = row)
      /\ d.pc # "idle" => queue = 0
      /\ \A v \in Worker : v # w => worker'[v] = worker[v]
      /\ d.pc # "idle" => \A v \in Worker : v # w => worker'[v].pc = "idle"
  BY <1>1, ClosedFacts DEF Others
<1>3. caller' \notin {"create", "enqueue"}
  BY <1>1, GoesKeepsRow, OutcomeFacts DEF OneMessage, AllIdle
<1>4. CASE Received(d, e)
  <2>1. queue = 1 /\ queue' = 0 /\ AllIdle /\ e.pc = "load"
    BY <1>1, <1>4 DEF Received, OneMessage
  <2>2. \A v \in Worker : worker'[v].pc # "idle" => v = w
    BY <1>2, <2>1 DEF AllIdle
  <2> QED
    BY <1>3, <2>1, <2>2 DEF OneMessage, OneDelivery, AllIdle
<1>5. CASE WasReturned(d, e)
  <2>1. queue = 0 /\ queue' = 1 /\ \A v \in Worker : worker'[v].pc = "idle"
    BY <1>1, <1>2, <1>5 DEF WasReturned, Idle, DeliveryPlain
  <2> QED
    BY <1>3, <2>1 DEF OneMessage, OneDelivery, AllIdle
<1>6. ASSUME d.pc # "idle", queue' = queue, e.pc = "write" => e.loaded = row'
      PROVE  OneMessage'
  BY <1>2, <1>3, <1>6 DEF OneMessage, OneDelivery, AllIdle
<1>7. CASE \/ Ran(d, e) \/ Saved(d, e) \/ SessionFailed(d, e) \/ Skipped(d, e)
           \/ Emitted(d, e)
  BY <1>6, <1>7 DEF Ran, Saved, SessionFailed, Skipped, Emitted, Idle
<1>8. CASE Loaded(d, e) \/ Decided(d, e)
  BY <1>6, <1>8 DEF Loaded, Decided
<1>9. ASSUME NEW outcome \in Outcome, Wrote(d, e, outcome) \/ Recorded(d, e, outcome)
      PROVE  OneMessage'
  BY <1>6, <1>9 DEF Wrote, Recorded, Leaves, Commits
<1>10. ~ \/ Recovered(d, e) \/ WasSent(d, e) \/ WasRefused(d, e)
         \/ \E outcome \in Outcome : Marked(d, e, outcome) \/ GaveUp(d, e, outcome)
  BY <1>2 DEF Dispatching, Recovered, WasSent, WasRefused, Marked, GaveUp
<1> QED
  BY <1>1, <1>4, <1>5, <1>7, <1>8, <1>9, <1>10 DEF Goes

LEMMA RetryingStep ==
    ASSUME NEW w \in Worker, OutcomeStep(w)
    PROVE  RetryingTold'
<1> DEFINE d == worker[w]
           e == worker'[w]
<1>1. /\ AuditInv /\ Goes(d, e) /\ d \in Delivery /\ DeliveryPlain(d) /\ gate' = gate
      /\ gate \in Gate /\ d.loaded \in Row /\ row \in Row /\ RetryingTold
  BY OutcomeFacts DEF OutcomeStep, TaskGoesOn
<1>2. row' = row => RetryingTold'
  BY <1>1 DEF RetryingTold
<1>3. ASSUME NEW outcome \in Outcome, Wrote(d, e, outcome) \/ GaveUp(d, e, outcome)
      PROVE  RetryingTold'
  <2> SUFFICES ASSUME row'.status = "RETRYING", outcome # "rolled_back"
               PROVE  RetryingTold'
    BY <1>2, <1>3, WrittenRow DEF RetryingTold
  <2>1. row.status = "RETRYING" /\ row'.retries = row.retries
    BY <1>3, WrittenRow
  <2>2. gate = "open"
    <3> SUFFICES ASSUME gate # "open" PROVE FALSE
      OBVIOUS
    <3>1. d.loaded = row
      BY <1>3, ClosedFacts DEF Wrote, GaveUp, Dispatching
    <3> QED
      BY <1>3, <2>1, <3>1, WrittenRow
  <2> QED
    BY <1>1, <2>1, <2>2 DEF RetryingTold
<1>4. ASSUME NEW outcome \in Outcome, Recorded(d, e, outcome)
      PROVE  RetryingTold'
  <2> SUFFICES ASSUME row'.status = "RETRYING", outcome # "rolled_back"
               PROVE  RetryingTold'
    BY <1>2, <1>4 DEF Recorded, Commits, RetryingTold
  <2> DEFINE dec == d.decision
  <2>1. d.pc = "write" /\ d.hook = "error" /\ d.loaded.retries \in Nat
    BY <1>1, <1>4, MaxRetriesAssumption DEF Recorded, Row
  <2>2. /\ dec = ResolveRetryDecision(d.loaded, d.attempt, gate) /\ ~ dec.recorded
        /\ dec.number = d.loaded.retries + 1
        /\ dec.allowed <=> dec.should /\ gate = "open"
        /\ dec.shadowed <=> dec.should /\ gate = "shadow"
        /\ dec.status = IF dec.allowed \/ dec.shadowed THEN "RETRYING" ELSE "FAILED"
    BY <1>1, <2>1, DecisionParts
  <2>3. /\ row'.status = IF dec.status # d.loaded.status THEN dec.status ELSE row.status
        /\ row'.retries = IF dec.status = "RETRYING" THEN dec.number ELSE row.retries
        /\ dec.reason # d.loaded.reason => row'.reason = dec.reason
        /\ dec.reason = d.loaded.reason => row'.reason \in {row.reason, dec.reason}
    BY <1>4, RecordedRow
  <2>4. CASE gate = "open"
    BY <1>1, <2>1, <2>2, <2>3, <2>4 DEF RetryingTold
  <2>5. CASE gate # "open"
    <3>1. d.loaded = row
      BY <2>1, <2>5, ClosedFacts
    <3>2. dec.status = "RETRYING" /\ dec.shadowed
      BY <2>2, <2>3, <2>5, <3>1
    <3>3. dec.reason = "shadowed"
      <4> HIDE DEF dec
      <4> QED
        BY <2>2, <2>5, <3>2 DEF ResolveRetryDecision
    <3> QED
      BY <1>1, <2>1, <2>2, <2>3, <3>1, <3>2, <3>3 DEF RetryingTold
  <2> QED
    BY <2>4, <2>5
<1> QED
  BY <1>1, <1>2, <1>3, <1>4, RowWriters

\* The number under which a delivery looks its retry up.
LEMMA ClaimNumberRange ==
    ASSUME AuditInv, NEW w \in Worker, Dispatching(worker[w])
    PROVE  ClaimNumber(worker[w]) \in Number /\ gate = "open"
<1>1. DeliverySound(worker[w], audit, gate) /\ worker[w] \in Delivery
  BY InvFacts
<1> QED
  BY <1>1, MaxRetriesAssumption
  DEF DeliverySound, DispatchAllowed, ClaimNumber, Delivery, OnErrorAttempt, Number

\* A delivery that moves the row on keeps doing so, gives its message back or leaves the
\* row with its outcome; or the retry it recorded is to be recovered.
LEMMA ResumesStep ==
    ASSUME NEW w \in Worker, OutcomeStep(w), Resumes(worker[w]),
           row'.status \in {"RUNNING", "RETRYING"},
           row'.status = "RETRYING" => gate = "open"
    PROVE  \/ queue' > 0
           \/ Resumes(worker'[w])
           \/ row'.status = "RETRYING" /\ RecoversRetry(worker'[w], row'.retries)
<1> DEFINE d == worker[w]
           e == worker'[w]
           Kept == \/ queue' > 0 \/ Resumes(e)
                   \/ row'.status = "RETRYING" /\ RecoversRetry(e, row'.retries)
<1>1. /\ AuditInv /\ gate \in Gate /\ d \in Delivery /\ DeliveryPlain(d)
      /\ d.loaded \in Row /\ d.attempt \in OnErrorAttempt /\ row \in Row /\ row.exists
      /\ queue \in Nat /\ Goes(d, e) /\ ~ LostChannel(d, e)
  BY OutcomeFacts DEF OutcomeStep
<1>2. CASE Received(d, e) \/ Ran(d, e) \/ Saved(d, e) \/ WasReturned(d, e)
  <2>1. ~ Received(d, e) /\ ~ Saved(d, e)
    BY <1>1 DEF Resumes, Received, Saved, DeliveryPlain
  <2>2. WasReturned(d, e) => queue' > 0
    BY <1>1 DEF WasReturned, DeliveryPlain
  <2>3. Ran(d, e) => Resumes(e)
    BY <1>1 DEF Ran, Marks, Resumes, DeliveryPlain
  <2> QED
    BY <1>2, <2>1, <2>2, <2>3
<1>3. CASE SessionFailed(d, e)
  BY <1>1, <1>3 DEF SessionFailed, Resumes, Steady, Within, Marks
<1>4. CASE Loaded(d, e) \/ Skipped(d, e)
  <2>1. ~ Skipped(d, e)
    BY DEF Resumes, Skipped
  <2>2. row' = row
    BY <1>4 DEF Loaded, Skipped
  <2> QED
    BY <1>1, <1>4, <2>1, <2>2 DEF Loaded, Resumes, Steady, Within, Marks, TerminalStatus
<1>5. CASE Decided(d, e)
  <2> DEFINE dec == ResolveRetryDecision(row, d.attempt, gate)
  <2>1. /\ d.pc = "load" /\ d.hook = "error" /\ e.hook = "error"
        /\ e.attempt = d.attempt /\ e.noResult = d.noResult
        /\ ~ d.noResult /\ ~ d.shadow /\ row' = row
    BY <1>1, <1>5 DEF Decided, Within, Memory, DeliveryPlain
  <2>2. CASE ~ dec.recorded
    BY <1>5, <2>1, <2>2 DEF Decided, Resumes
  <2>3. CASE dec.recorded
    <3>1. row.status = d.attempt.status /\ row.retries = d.attempt.retries
      BY <1>1, <2>3 DEF ResolveRetryDecision, RetryAlreadyRecorded
    <3>2. /\ row.status = "RETRYING" /\ gate = "open"
          /\ d.attempt.number = row.retries /\ d.attempt.number # 0
      BY <1>1, <2>1, <3>1 DEF DeliveryPlain
    <3>3. ~ dec.shadowed
      BY <1>1, <3>2, ResolveRetryDecisionType
    <3>4. CASE dec.allowed
      BY <1>5, <2>1, <2>3, <3>2, <3>4 DEF Decided, RecoversRetry, ClaimNumber
    <3>5. CASE ~ dec.allowed
      BY <1>5, <2>1, <2>3, <3>3, <3>5 DEF Decided, Resumes
    <3> QED
      BY <3>4, <3>5
  <2> QED
    BY <2>2, <2>3
<1>6. CASE WasSent(d, e)
  BY <1>1, <1>6 DEF WasSent
<1>7. CASE WasRefused(d, e)
  BY <1>1, <1>7 DEF WasRefused, Resumes, Steady, Within
<1>8. CASE Emitted(d, e)
  BY <1>1, <1>8 DEF Emitted, Resumes, Marks
<1>9. ASSUME NEW outcome \in Outcome, Wrote(d, e, outcome)
      PROVE  Kept
  <2>1. d.pc = "write" /\ Steady(d, e) /\ Leaves(outcome, e, {"emit"})
    BY <1>9 DEF Wrote
  <2>2. CASE d.hook = "pre"
    BY <2>1, <2>2 DEF Leaves, Steady, Within, Resumes
  <2>3. CASE d.hook # "pre"
    <3>1. d.hook = "post" /\ ~ d.noResult /\ ~ d.shadow /\ d.loaded.status \notin TerminalStatus
      BY <1>9, <2>3 DEF Wrote, Resumes
    <3>2. outcome = "rolled_back"
      BY <1>9, <2>1, <3>1, WrittenRow DEF TerminalStatus
    <3> QED
      BY <2>1, <3>1, <3>2 DEF Leaves, Steady, Within, Marks, Resumes
  <2> QED
    BY <2>2, <2>3
<1>10. ASSUME NEW outcome \in Outcome, Recorded(d, e, outcome)
       PROVE  Kept
  <2>1. /\ d.pc = "write" /\ d.hook = "error" /\ e.hook = "error"
        /\ ~ d.noResult /\ ~ d.shadow /\ ~ e.noResult
    BY <1>1, <1>10 DEF Recorded, Within, DeliveryPlain
  <2>2. CASE outcome # "committed"
    BY <1>10, <2>1, <2>2 DEF Recorded, Leaves, Resumes
  <2>3. CASE outcome = "committed" /\ d.decision.allowed
    <3>1. e.pc = "requeue" /\ e.loaded = row'
      BY <1>10, <2>3 DEF Recorded, Leaves, Commits
    <3> QED
      BY <2>1, <3>1 DEF Resumes
  <2>4. CASE outcome = "committed" /\ ~ d.decision.allowed
    <3>1. e.pc = "emit" /\ (e.shadow <=> d.decision.shadowed)
      BY <1>10, <2>1, <2>4 DEF Recorded, Leaves
    <3>2. ~ d.decision.shadowed
      <4> SUFFICES ASSUME d.decision.shadowed PROVE FALSE
        OBVIOUS
      <4>1. gate = "shadow" /\ d.decision.status = "RETRYING"
        BY <1>1, <2>1, DecisionParts
      <4>2. d.loaded = row
        BY <2>1, <4>1, ClosedFacts
      <4>3. row'.status = "RETRYING"
        BY <1>10, <2>4, <4>1, <4>2, RecordedRow
      <4> QED
        BY <4>1, <4>3
    <3> QED
      BY <2>1, <3>1, <3>2 DEF Resumes
  <2> QED
    BY <2>2, <2>3, <2>4
<1>11. ASSUME NEW outcome \in Outcome, GaveUp(d, e, outcome)
       PROVE  Kept
  <2>1. /\ d.pc = "undispatched" /\ d.hook = "error" /\ d.loaded.status # "FAILED"
        /\ e.hook = "error"
    BY <1>1, <1>11 DEF GaveUp, Within, Resumes, DeliveryPlain, Dispatching
  <2>2. outcome = "rolled_back"
    BY <1>11, <2>1, WrittenRow
  <2> QED
    BY <1>11, <2>1, <2>2 DEF GaveUp, Leaves, Resumes
<1>12. ~ \/ Recovered(d, e) \/ \E outcome \in Outcome : Marked(d, e, outcome)
  BY <1>1 DEF Recovered, Marked, Resumes, DeliveryPlain, Dispatching
<1> QED
  BY <1>1, <1>2, <1>3, <1>4, <1>5, <1>6, <1>7, <1>8, <1>9, <1>10, <1>11, <1>12 DEF Goes

\* A delivery that starts the task anew keeps doing so while the row says RETRYING.
LEMMA StartsStep ==
    ASSUME NEW w \in Worker, OutcomeStep(w), Starts(worker[w]), row'.status = "RETRYING"
    PROVE  queue' > 0 \/ Starts(worker'[w])
<1> DEFINE d == worker[w]
           e == worker'[w]
<1>1. /\ AuditInv /\ d \in Delivery /\ DeliveryPlain(d) /\ row \in Row
      /\ queue \in Nat /\ Goes(d, e) /\ ~ LostChannel(d, e)
  BY OutcomeFacts DEF OutcomeStep
<1>2. CASE WasReturned(d, e)
  BY <1>1, <1>2 DEF WasReturned, DeliveryPlain
<1>3. CASE SessionFailed(d, e)
  BY <1>3 DEF SessionFailed, Starts, Steady, Within
<1>4. CASE Loaded(d, e)
  BY <1>4 DEF Loaded, Starts, Steady, Within
<1>5. ASSUME NEW outcome \in Outcome, Wrote(d, e, outcome)
      PROVE  Starts(e)
  <2>1. d.pc = "write" /\ d.hook = "pre" /\ d.loaded.status # "RUNNING"
    BY <1>5 DEF Wrote, Starts
  <2>2. outcome = "rolled_back"
    BY <1>5, <2>1, WrittenRow
  <2> QED
    BY <1>5, <2>1, <2>2 DEF Wrote, Leaves, Steady, Within, Starts
<1>6. ~ \/ Received(d, e) \/ Ran(d, e) \/ Saved(d, e) \/ Decided(d, e) \/ Recovered(d, e)
        \/ WasSent(d, e) \/ WasRefused(d, e) \/ Skipped(d, e) \/ Emitted(d, e)
        \/ \E outcome \in Outcome : \/ Recorded(d, e, outcome) \/ Marked(d, e, outcome)
                                    \/ GaveUp(d, e, outcome)
  BY DEF Starts, Received, Ran, Saved, Decided, Recovered, WasSent, WasRefused, Skipped,
         Emitted, Recorded, Marked, GaveUp
<1> QED
  BY <1>1, <1>2, <1>3, <1>4, <1>5, <1>6 DEF Goes

\* A message that was there is there, or its delivery has begun.
LEMMA MessageTaken ==
    ASSUME NEW w \in Worker, OutcomeStep(w), queue > 0
    PROVE  queue' > 0 \/ (Starts(worker'[w]) /\ Resumes(worker'[w]))
<1> DEFINE d == worker[w]
           e == worker'[w]
<1>1. queue \in Nat /\ Goes(d, e)
  BY OutcomeFacts DEF OutcomeStep
<1>2. CASE Received(d, e)
  BY <1>2 DEF Received, Starts, Resumes
<1>3. ASSUME NEW outcome \in Outcome,
             \/ Wrote(d, e, outcome) \/ Recorded(d, e, outcome)
             \/ Marked(d, e, outcome) \/ GaveUp(d, e, outcome)
      PROVE  queue' = queue
  BY <1>3 DEF Wrote, Recorded, Marked, GaveUp, Commits
<1>4. CASE \/ Ran(d, e) \/ Saved(d, e) \/ WasReturned(d, e) \/ LostChannel(d, e)
           \/ SessionFailed(d, e) \/ Loaded(d, e) \/ Decided(d, e) \/ Recovered(d, e)
           \/ WasSent(d, e) \/ WasRefused(d, e) \/ Skipped(d, e) \/ Emitted(d, e)
  BY <1>1, <1>4 DEF Ran, Saved, WasReturned, LostChannel, SessionFailed, Loaded, Decided,
                    Recovered, WasSent, WasRefused, Skipped, Emitted
<1> QED
  BY <1>1, <1>2, <1>3, <1>4 DEF Goes

LEMMA RunningStep ==
    ASSUME NEW w \in Worker, OutcomeStep(w)
    PROVE  RunningGoesOn'
<1> DEFINE d == worker[w]
           e == worker'[w]
<1> SUFFICES ASSUME row'.status = "RUNNING"
             PROVE  queue' > 0 \/ \E v \in Worker : Resumes(worker'[v])
  BY DEF RunningGoesOn, Resumes
<1>1. /\ AuditInv /\ row.exists /\ Goes(d, e) /\ RunningGoesOn /\ Others(w)
  BY OutcomeFacts DEF OutcomeStep, TaskGoesOn
<1>2. CASE row.status = "RUNNING"
  <2>1. CASE queue > 0
    BY <2>1, MessageTaken
  <2>2. ASSUME NEW v \in Worker, Resumes(worker[v])
        PROVE  queue' > 0 \/ Resumes(worker'[v])
    <3>1. v = w => queue' > 0 \/ Resumes(worker'[w])
      BY <2>2, ResumesStep
    <3>2. v # w => worker'[v] = worker[v]
      BY <1>1 DEF Others
    <3> QED
      BY <2>2, <3>1, <3>2
  <2> QED
    BY <1>1, <1>2, <2>1, <2>2 DEF RunningGoesOn
<1>3. CASE row.status # "RUNNING"
  <2>1. PICK outcome \in Outcome :
           /\ outcome # "rolled_back"
           /\ Wrote(d, e, outcome) \/ Recorded(d, e, outcome) \/ GaveUp(d, e, outcome)
    BY <1>1, <1>3, RowWriters
  <2>2. ~ Recorded(d, e, outcome)
    <3> SUFFICES ASSUME Recorded(d, e, outcome) PROVE FALSE
      OBVIOUS
    <3>1. d.decision.status \in {"RETRYING", "FAILED"}
      BY <1>1, DecisionParts DEF Recorded
    <3> QED
      BY <1>3, <2>1, <3>1, RecordedRow
  <2>3. ~ GaveUp(d, e, outcome)
    <3> SUFFICES ASSUME GaveUp(d, e, outcome) PROVE FALSE
      OBVIOUS
    <3>1. d.pc = "undispatched"
      BY DEF GaveUp
    <3> QED
      BY <1>3, <2>1, <3>1, WrittenRow
  <2>4. d.hook = "pre" /\ d.pc = "write"
    BY <1>3, <2>1, <2>2, <2>3, WrittenRow DEF Wrote
  <2>5. Resumes(e)
    BY <2>1, <2>2, <2>3, <2>4 DEF Wrote, Leaves, Steady, Within, Resumes
  <2> QED
    BY <2>5
<1> QED
  BY <1>2, <1>3

\* What a step does to the claims of the retry that the row counts, when it does not
\* count a new one: none is added, and of a retry that is not sent each stays PENDING.
LEMMA ClaimsStay ==
    ASSUME NEW w \in Worker, OutcomeStep(w), gate = "open", row.retries > 0,
           row'.retries = row.retries,
           sent[row.retries] = 0 =>
              \A i \in ClaimedRows(audit, row.retries) : audit[i].result = "PENDING",
           \A outcome \in Outcome : Recorded(worker[w], worker'[w], outcome) =>
              outcome = "rolled_back" \/ worker[w].decision.status # "RETRYING"
    PROVE  /\ ClaimedRows(audit', row.retries) = ClaimedRows(audit, row.retries)
           /\ sent[row.retries] = 0 =>
                 \A i \in ClaimedRows(audit', row.retries) : audit'[i].result = "PENDING"
<1> DEFINE d == worker[w]
           e == worker'[w]
           n == row.retries
           Same == /\ ClaimedRows(audit', n) = ClaimedRows(audit, n)
                   /\ \A i \in ClaimedRows(audit, n) :
                         sent[n] = 0 => audit'[i].result = "PENDING"
<1>1. /\ AuditInv /\ Goes(d, e) /\ MarkKnown(d) /\ audit \in Seq(Attempt) /\ d \in Delivery
      /\ row \in Row /\ gate = "open"
  BY OutcomeFacts, InvFacts DEF OutcomeStep
<1>2. audit' = audit => Same
  OBVIOUS
<1>3. ASSUME NEW outcome \in Outcome, Recorded(d, e, outcome)
      PROVE  audit' = audit
  <2>1. CASE outcome = "rolled_back"
    BY <1>3, <2>1 DEF Recorded, Commits
  <2>2. CASE outcome # "rolled_back"
    <3>1. d.decision.status # "RETRYING"
      BY <1>3, <2>2
    <3>2. ~ d.decision.allowed /\ ~ d.decision.should
      BY <1>1, <1>3, <3>1, DecisionParts DEF Recorded
    <3>3. AuditDecision(audit, d.decision) = audit
      BY <3>2 DEF AuditDecision
    <3> QED
      BY <1>3, <2>2, <3>3, RecordedRow
  <2> QED
    BY <2>1, <2>2
<1>4. ASSUME NEW outcome \in Outcome, Marked(d, e, outcome)
      PROVE  Same
  <2> DEFINE m == ClaimNumber(d)
             new == MarkTaskAttemptDispatched(audit, m)
  <2>1. ClaimedRows(new, n) = ClaimedRows(audit, n)
    BY <1>1, MarkKeepsClaims
  <2>2. sent[n] = 0 => m # n
    BY <1>1, <1>4 DEF MarkKnown, Marked
  <2>3. ASSUME m # n, NEW i \in ClaimedRows(audit, n)
        PROVE  new[i] = audit[i]
    BY <2>3 DEF MarkTaskAttemptDispatched, ClaimedRows
  <2>4. audit' = audit \/ audit' = new
    BY <1>4 DEF Marked, Commits
  <2> HIDE DEF new, m
  <2> QED
    BY <2>1, <2>2, <2>3, <2>4
<1>5. ASSUME NEW outcome \in Outcome, GaveUp(d, e, outcome)
      PROVE  Same
  <2> DEFINE m == d.decision.number
             new == RecordTaskAttempt(audit, m, "DISPATCH_FAILED")
  <2>1. m \in Number
    <3>1. d.pc = "undispatched" /\ DispatchAllowed(d, gate)
      BY <1>1, <1>5, InvFacts DEF GaveUp, DeliverySound
    <3> QED
      BY <3>1 DEF DispatchAllowed, Dispatching
  <2>2. ClaimedRows(new, n) = ClaimedRows(audit, n)
    <3>1. "DISPATCH_FAILED" \in DispatchResult \ {"PENDING", "DISPATCHED"}
      BY DEF DispatchResult
    <3>2. ClaimedRows(new, n) =
             ClaimedRows(audit, n) \cup
                (IF n = m /\ "DISPATCH_FAILED" \in {"PENDING", "DISPATCHED"}
                 THEN {Len(audit) + 1} ELSE {})
      BY <1>1, <2>1, <3>1, RecordClaims
    <3> QED
      BY <3>1, <3>2
  <2>3. \A i \in ClaimedRows(audit, n) : new[i] = audit[i]
    <3>1. \A i \in DOMAIN audit : new[i] = audit[i]
      BY <1>1 DEF RecordTaskAttempt
    <3> QED
      BY <3>1 DEF ClaimedRows
  <2>4. audit' = audit \/ audit' = new
    BY <1>5 DEF GaveUp, Commits
  <2> HIDE DEF new
  <2> QED
    BY <2>2, <2>3, <2>4
<1>6. audit' = audit \/ \E outcome \in Outcome : \/ Recorded(d, e, outcome)
                                              \/ Marked(d, e, outcome)
                                              \/ GaveUp(d, e, outcome)
  <2>1. ASSUME NEW outcome \in Outcome, Wrote(d, e, outcome)
        PROVE  audit' = audit
    BY <2>1 DEF Wrote, Commits
  <2> QED
    BY <1>1, <2>1 DEF Goes, Received, Ran, Saved, WasReturned, LostChannel, SessionFailed,
       Loaded, Decided, Recovered, WasSent, WasRefused, Skipped, Emitted
<1>7. Same
  BY <1>2, <1>3, <1>4, <1>5, <1>6
<1> QED
  BY <1>7

\* A replay that finds its claimed retry PENDING sends it.
LEMMA RecoversStep ==
    ASSUME NEW w \in Worker, OutcomeStep(w), NEW k, RecoversRetry(worker[w], k),
           \A i \in ClaimedRows(audit, k) : audit[i].result = "PENDING"
    PROVE  queue' > 0 \/ Resumes(worker'[w])
<1> DEFINE d == worker[w]
           e == worker'[w]
<1>1. /\ AuditInv /\ Goes(d, e) /\ ~ LostChannel(d, e) /\ DeliveryPlain(d) /\ queue \in Nat
      /\ audit \in Seq(Attempt)
  BY OutcomeFacts, InvFacts DEF OutcomeStep
<1>2. d.pc = "lookup" /\ d.hook = "error" /\ ClaimNumber(d) = k /\ d.loaded.status = "RETRYING"
  BY DEF RecoversRetry
<1>3. CASE WasReturned(d, e)
  BY <1>1, <1>3 DEF WasReturned, DeliveryPlain
<1>4. CASE SessionFailed(d, e)
  BY <1>2, <1>4 DEF SessionFailed, Steady, Within, Resumes
<1>5. CASE Recovered(d, e)
  <2>1. ClaimedRows(audit, k) # {}
    BY <1>1, <1>2, InvFacts DEF DeliverySound, ClaimKnown, Dispatching
  <2>2. DispatchState(audit, k) = "PENDING"
    BY <1>1, <2>1, DispatchStateKnown
  <2> QED
    BY <1>2, <1>5, <2>2 DEF Recovered, Steady, Within, Resumes
<1>6. ~ \/ Received(d, e) \/ Ran(d, e) \/ Saved(d, e) \/ Loaded(d, e) \/ Decided(d, e)
        \/ WasSent(d, e) \/ WasRefused(d, e) \/ Skipped(d, e) \/ Emitted(d, e)
        \/ \E outcome \in Outcome : \/ Wrote(d, e, outcome) \/ Recorded(d, e, outcome)
                                    \/ Marked(d, e, outcome) \/ GaveUp(d, e, outcome)
  BY <1>2 DEF Received, Ran, Saved, Loaded, Decided, WasSent, WasRefused, Skipped, Emitted,
              Wrote, Recorded, Marked, GaveUp
<1> QED
  BY <1>1, <1>3, <1>4, <1>5, <1>6 DEF Goes

LEMMA RetryStep ==
    ASSUME NEW w \in Worker, OutcomeStep(w)
    PROVE  RetryGoesOn'
<1> DEFINE d == worker[w]
           e == worker'[w]
           n == row'.retries
           Told == sent'[n] = 0 =>
                      \A i \in ClaimedRows(audit', n) : audit'[i].result = "PENDING"
           Cared == \/ queue' > 0
                    \/ \E v \in Worker :
                          IF sent'[n] = 0
                          THEN Resumes(worker'[v]) \/ RecoversRetry(worker'[v], n)
                          ELSE Starts(worker'[v])
<1>1. /\ AuditInv /\ AuditInv' /\ gate' = gate /\ gate \in Gate /\ d \in Delivery
      /\ row \in Row /\ queue \in Nat /\ Goes(d, e) /\ Others(w) /\ RetryGoesOn
      /\ audit \in Seq(Attempt) /\ audit' \in Seq(Attempt) /\ row' \in Row
      /\ sent \in [Number -> Nat] /\ sent' \in [Number -> Nat]
  BY OutcomeFacts, InvFacts DEF OutcomeStep, TaskGoesOn, AuditInv, TypeOK
<1> SUFFICES ASSUME gate = "open", n > 0, \A i, j \in ClaimedRows(audit', n) : i = j
             PROVE  Told /\ (row'.status = "RETRYING" => Cared)
  BY <1>1 DEF RetryGoesOn, ClaimedOnce
<1>2. n \in Number
  BY <1>1, MaxRetriesAssumption DEF Row, Number
<1>3. ASSUME NEW outcome \in Outcome, Recorded(d, e, outcome), outcome # "rolled_back",
             d.decision.status = "RETRYING"
      PROVE  Told /\ (row'.status = "RETRYING" => Cared)
  <2> DEFINE dec == d.decision
             log == ReconcilePending(audit)
  <2>1. dec.allowed /\ n = dec.number /\ sent' = sent
    BY <1>1, <1>3, DecisionParts, RecordedRow DEF Recorded, Commits
  <2>2. audit' = RecordTaskAttempt(log, n, "PENDING")
    BY <1>3, <2>1, RecordedRow DEF AuditDecision
  <2>3. log \in Seq(Attempt)
    BY <1>1, ReconcilePendingKeeps
  <2>4. ClaimedRows(audit', n) = ClaimedRows(audit, n) \cup {Len(log) + 1}
    <3>1. ClaimedRows(log, n) = ClaimedRows(audit, n)
      BY <1>1, ReconcileKeepsClaims
    <3> HIDE DEF log
    <3> QED
      BY <1>2, <2>2, <2>3, <3>1, RecordClaims DEF DispatchResult
  <2>5. Len(log) + 1 \notin ClaimedRows(log, n) /\ Len(log) \in Nat
    <3> HIDE DEF log
    <3> QED
      BY <2>3 DEF ClaimedRows
  <2>6. ClaimedRows(audit, n) = {}
    BY <1>1, <2>4, <2>5, ReconcileKeepsClaims
  <2>7. sent[n] = 0
    <3>1. ~ (sent[n] > 0)
      BY <1>1, <1>2, <2>6 DEF AuditInv, WriteAheadAudit
    <3> QED
      BY <1>1, <1>2, <3>1
  <2>8. audit'[Len(log) + 1].result = "PENDING"
    <3> HIDE DEF log
    <3> QED
      BY <2>2, <2>3 DEF RecordTaskAttempt
  <2>9. Told
    BY <2>4, <2>6, <2>8
  <2>10. ASSUME row'.status = "RETRYING" PROVE Resumes(e)
    <3>1. /\ e.hook = "error"
          /\ IF outcome = "committed" THEN e.pc = "requeue" /\ e.loaded = row'
                                      ELSE e.pc \in {"load", "stuck"}
      BY <1>3, <2>1 DEF Recorded, Within, Leaves, Commits
    <3> QED
      BY <2>10, <3>1 DEF Resumes
  <2> QED
    BY <2>1, <2>7, <2>9, <2>10
<1>4. ASSUME \A outcome \in Outcome : Recorded(d, e, outcome) =>
                outcome = "rolled_back" \/ d.decision.status # "RETRYING"
      PROVE  Told /\ (row'.status = "RETRYING" => Cared)
  <2>1. /\ row'.retries = row.retries
        /\ row'.status = "RETRYING" => row.status = "RETRYING"
    <3>1. ASSUME NEW outcome \in Outcome, outcome # "rolled_back", Recorded(d, e, outcome)
          PROVE  /\ row'.retries = row.retries
                 /\ row'.status = "RETRYING" => row.status = "RETRYING"
      BY <1>4, <3>1, RecordedRow
    <3>2. ASSUME NEW outcome \in Outcome, outcome # "rolled_back",
                 Wrote(d, e, outcome) \/ GaveUp(d, e, outcome)
          PROVE  /\ row'.retries = row.retries
                 /\ row'.status = "RETRYING" => row.status = "RETRYING"
      BY <3>2, WrittenRow
    <3> QED
      BY <1>1, <3>1, <3>2, RowWriters
  <2>2. OnlyGrows(audit, audit') /\ ClaimedOnce(n)
    <3>1. OnlyGrows(audit, audit')
      BY DEF OutcomeStep, SoundStep
    <3> QED
      BY <1>1, <3>1, OnlyGrowsKeepsRows DEF ClaimedOnce
  <2>3. /\ sent[n] = 0 => \A i \in ClaimedRows(audit, n) : audit[i].result = "PENDING"
        /\ row'.status = "RETRYING" =>
              \/ queue > 0
              \/ \E v \in Worker :
                    IF sent[n] = 0
                    THEN Resumes(worker[v]) \/ RecoversRetry(worker[v], n)
                    ELSE Starts(worker[v])
    BY <1>1, <2>1, <2>2 DEF RetryGoesOn
  <2>4. \/ sent'[n] = sent[n]
        \/ queue' > 0 /\ sent'[n] > 0
    <3>1. CASE WasSent(d, e)
      BY <1>1, <1>2, <3>1 DEF WasSent
    <3> QED
      BY <1>1, <3>1, OnlyRequeueSends
  <2>5. Told
    <3>1. sent'[n] = 0 => sent[n] = 0
      BY <1>1, <1>2, <2>4
    <3> QED
      BY <1>4, <2>1, <2>3, <3>1, ClaimsStay
  <2>6. ASSUME row'.status = "RETRYING", sent'[n] = sent[n], ~ (queue' > 0)
        PROVE  Cared
    <3>1. CASE queue > 0
      BY <2>6, <3>1, MessageTaken
    <3>2. ASSUME NEW v \in Worker,
                 IF sent[n] = 0 THEN Resumes(worker[v]) \/ RecoversRetry(worker[v], n)
                                ELSE Starts(worker[v])
          PROVE  Cared
      <4>1. CASE v # w
        BY <1>1, <2>6, <3>2, <4>1 DEF Others
      <4>2. CASE v = w /\ sent[n] = 0 /\ Resumes(d)
        BY <2>6, <4>2, ResumesStep
      <4>3. CASE v = w /\ sent[n] = 0 /\ RecoversRetry(d, n)
        BY <2>3, <2>6, <4>3, RecoversStep
      <4>4. CASE v = w /\ sent[n] # 0
        BY <2>6, <3>2, <4>4, StartsStep
      <4> QED
        BY <3>2, <4>1, <4>2, <4>3, <4>4
    <3> QED
      BY <2>3, <2>6, <3>1, <3>2
  <2> QED
    BY <2>4, <2>5, <2>6
<1> QED
  BY <1>3, <1>4

(***************************************************************************)
(* DispatchOutcome: the caller, and the theorem                            *)
(***************************************************************************)

\* The row and its first message.
LEMMA CallerGoesOn ==
    ASSUME DispatchInv, TaskGoesOn, Call \/ CallerCrash
    PROVE  TaskGoesOn'
<1>1. /\ worker' = worker /\ audit' = audit /\ gate' = gate /\ sent' = sent
      /\ queue \in Nat
  BY DEF Call, CallerCrash, CreateRow, Enqueue, EnqueueRefused, EnqueueUnconfirmed,
         DispatchInv, AuditInv, TypeOK
<1>2. \A w \in Worker : DeliveryPlain(worker[w])' /\ MarkKnown(worker[w])'
  BY <1>1 DEF TaskGoesOn, DeliveryPlain, MarkKnown
<1>3. ASSUME NEW outcome \in Outcome, CreateRow(outcome)
      PROVE  /\ RowFirst' /\ PendingUntouched' /\ OneMessage' /\ RetryingTold'
             /\ RunningGoesOn' /\ RetryGoesOn'
  <2>1. /\ caller = "create" /\ queue' = queue
        /\ \/ row' = row /\ caller' = "raised"
           \/ row' = NewRow /\ caller' \in {"enqueue", "raised"}
    BY <1>3 DEF CreateRow
  <2>2. /\ row = NoRow /\ ~ row.exists /\ queue = 0
        /\ \A w \in Worker : worker'[w].pc = "idle"
    BY <1>1, <2>1 DEF DispatchInv, MessageNeedsRow, TaskGoesOn, RowFirst
  <2>3. /\ row'.status = "PENDING" /\ row'.retries = 0
        /\ row'.exists => row' = NewRow
        /\ ~ row'.exists => row' = NoRow /\ caller' = "raised"
    BY <2>1, <2>2 DEF NewRow, NoRow
  <2> QED
    BY <2>1, <2>2, <2>3
    DEF RowFirst, PendingUntouched, OneMessage, OneDelivery, AllIdle, RetryingTold,
        RunningGoesOn, RetryGoesOn
<1>4. ASSUME Enqueue \/ EnqueueRefused \/ EnqueueUnconfirmed \/ CallerCrash
      PROVE  /\ RowFirst' /\ PendingUntouched' /\ OneMessage' /\ RetryingTold'
             /\ RunningGoesOn' /\ RetryGoesOn'
  <2>1. /\ row' = row /\ caller \in {"create", "enqueue"}
        /\ queue' = queue \/ queue' = queue + 1
        /\ caller' \in {"returned", "raised", "dead"}
        /\ caller' = "returned" => row.exists /\ queue' > 0
    BY <1>1, <1>4 DEF Enqueue, EnqueueRefused, EnqueueUnconfirmed, CallerCrash, DispatchInv
  <2>2. queue > 0 => queue' > 0
    BY <1>1, <2>1
  <2>3. RowFirst' /\ PendingUntouched' /\ RetryingTold'
    BY <1>1, <2>1, <2>2
    DEF TaskGoesOn, RowFirst, PendingUntouched, AllIdle, RetryingTold
  <2>4. OneMessage'
    BY <1>1, <2>1, <2>2 DEF TaskGoesOn, OneMessage, OneDelivery, AllIdle
  <2>5. RunningGoesOn' /\ RetryGoesOn'
    BY <1>1, <2>1, <2>2
    DEF TaskGoesOn, RunningGoesOn, RetryGoesOn, ClaimedOnce, Resumes, RecoversRetry, Starts
  <2> QED
    BY <2>3, <2>4, <2>5
<1>5. CallerCrash \/ Enqueue \/ EnqueueRefused \/ EnqueueUnconfirmed
      \/ \E outcome \in Outcome : CreateRow(outcome)
  BY DEF Call
<1> QED
  BY <1>2, <1>3, <1>4, <1>5 DEF TaskGoesOn

LEMMA OutcomeInvInductive ==
    /\ DispatchInit => OutcomeInv
    /\ DispatchInv /\ OutcomeInv /\ [DispatchNext]_dispatchVars => OutcomeInv'
<1>1. DispatchInit => OutcomeInv
  <2> SUFFICES ASSUME DispatchInit PROVE TaskGoesOn
    BY DEF OutcomeInv
  <2>1. /\ row = NoRow /\ row.status = "PENDING" /\ row.retries = 0 /\ ~ row.exists
        /\ caller = "create" /\ queue = 0
        /\ \A w \in Worker : worker[w] = Idle /\ worker[w].pc = "idle"
    BY DEF DispatchInit, Fresh, NoRow, NewRow, Idle
  <2>2. DeliveryPlain(Idle) /\ MarkKnown(Idle)
    BY DEF DeliveryPlain, MarkKnown, Idle, NoAttempt, Dispatching
  <2> QED
    BY <2>1, <2>2
    DEF TaskGoesOn, RowFirst, PendingUntouched, OneMessage, OneDelivery, AllIdle,
        RetryingTold, RunningGoesOn, RetryGoesOn
<1>2. ASSUME DispatchInv, OutcomeInv, [DispatchNext]_dispatchVars
      PROVE  OutcomeInv'
  <2> SUFFICES ASSUME faults'.channel = 0 PROVE TaskGoesOn'
    BY DEF OutcomeInv
  <2>1. CASE UNCHANGED dispatchVars
    BY <1>2, <2>1
    DEF dispatchVars, vars, OutcomeInv, TaskGoesOn, DeliveryPlain, MarkKnown, RowFirst,
        PendingUntouched, OneMessage, OneDelivery, AllIdle, RetryingTold, RunningGoesOn,
        RetryGoesOn, ClaimedOnce
  <2>2. CASE Next /\ UNCHANGED caller
    <3>1. AuditInv /\ SoundStep
      BY <1>2, <2>2, NextKeepsAudit DEF DispatchInv
    <3>2. PICK w \in Worker : /\ Others(w) /\ Goes(worker[w], worker'[w])
                              /\ worker[w] \in Delivery /\ worker'[w] \in Delivery
      BY <2>2, <3>1, NextGoes
    <3>3. faults.channel = 0
      <4>1. faults \in FaultCounts
        BY <3>1 DEF AuditInv, TypeOK
      <4> QED
        BY <3>2, <4>1, FaultsOnlyGrow
    <3>4. TaskGoesOn
      BY <1>2, <3>3 DEF OutcomeInv
    <3>5. OutcomeStep(w)
      BY <1>2, <2>2, <3>1, <3>2, <3>3, <3>4 DEF OutcomeStep
    <3>6. ASSUME NEW v \in Worker PROVE DeliveryPlain(worker[v])'
      <4>1. DeliveryPlain(worker'[v])
        BY <3>2, <3>4, <3>5, PlainStep DEF Others, TaskGoesOn
      <4> QED
        BY <3>5, <4>1, OutcomeFacts DEF DeliveryPlain
    <3> QED
      BY <3>5, <3>6, MarkStep, PendingStep, OneMessageStep, RetryingStep, RunningStep,
         RetryStep DEF TaskGoesOn
  <2>3. CASE Call \/ CallerCrash
    <3>1. faults'.channel = faults.channel
      <4>1. faults \in FaultCounts
        BY <1>2 DEF DispatchInv, AuditInv, TypeOK
      <4> QED
        BY <2>3, <4>1 DEF Call, CallerCrash, CreateRow, Enqueue, EnqueueRefused,
                          EnqueueUnconfirmed
    <3> QED
      BY <1>2, <2>3, <3>1, CallerGoesOn DEF OutcomeInv
  <2> QED
    BY <1>2, <2>1, <2>2, <2>3 DEF DispatchNext
<1> QED
  BY <1>1, <1>2

\* Two claims of a retry are counted as two.
LEMMA TwoClaims ==
    ASSUME AuditInv, NEW k, ~ ClaimedOnce(k)
    PROVE  Cardinality(ClaimedRows(audit, k)) > 1
<1> DEFINE S == ClaimedRows(audit, k)
<1>1. PICK i \in S, j \in S : i # j
  BY DEF ClaimedOnce
<1>2. IsFiniteSet(S)
  <2>1. S \in SUBSET (1 .. Len(audit)) /\ Len(audit) \in Nat
    BY DEF ClaimedRows, AuditInv, TypeOK
  <2>2. IsFiniteSet(1 .. Len(audit))
    BY <2>1, FS_Interval
  <2> HIDE DEF S
  <2> QED
    BY <2>1, <2>2, FS_Subset
<1> HIDE DEF S
<1>3. IsFiniteSet({i}) /\ Cardinality({i}) = 1
  BY FS_Singleton
<1>4. IsFiniteSet({i} \cup {j}) /\ Cardinality({i} \cup {j}) = 2
  BY <1>1, <1>3, FS_AddElement
<1>5. Cardinality({i} \cup {j}) <= Cardinality(S)
  BY <1>1, <1>2, FS_Subset
<1>6. Cardinality(S) \in Nat
  BY <1>2, FS_CardinalityType
<1> QED
  BY <1>4, <1>5, <1>6 DEF S

\* While no channel is lost every dispatched task is led to its outcome: whatever else
\* fails, in the caller or in a worker, once all is over the row is terminal, or the
\* operator's recovery point of shadow mode, or was never announced; or it says RETRYING
\* of a retry that two deliveries both claimed.
THEOREM EveryTaskEnds == DispatchSpec => []DispatchOutcome
<1>1. DispatchInv /\ OutcomeInv => DispatchOutcome
  <2> SUFFICES ASSUME DispatchInv, OutcomeInv, Over, faults.channel = 0,
                      ~ (row.exists /\ OutcomeTold),
                      ~ (caller # "returned" /\ row \in {NoRow, NewRow})
               PROVE  /\ row.status = "RETRYING"
                      /\ Cardinality(ClaimedRows(audit, row.retries)) > 1
    BY DEF DispatchOutcome
  <2>1. /\ TaskGoesOn /\ AuditInv /\ row \in Row /\ gate \in Gate
        /\ ~ (queue > 0) /\ AllIdle
    BY DEF OutcomeInv, DispatchInv, AuditInv, TypeOK, Over, Settled, AllIdle
  <2>2. \A w \in Worker : /\ ~ Resumes(worker[w]) /\ ~ Starts(worker[w])
                          /\ ~ RecoversRetry(worker[w], row.retries)
    BY <2>1 DEF AllIdle, Resumes, Starts, RecoversRetry
  <2>3. row.exists /\ row.status # "PENDING"
    BY <2>1 DEF TaskGoesOn, RowFirst, PendingUntouched
  <2>4. row.status # "RUNNING"
    BY <2>1, <2>2, <2>3 DEF TaskGoesOn, RunningGoesOn
  <2>5. row.status = "RETRYING"
    <3>1. row.status \in Status
      BY <2>1 DEF Row
    <3> QED
      BY <2>3, <2>4, <3>1 DEF Status, OutcomeTold, TerminalStatus
  <2>6. gate = "open" /\ row.retries > 0
    BY <2>1, <2>3, <2>5 DEF TaskGoesOn, RetryingTold, OutcomeTold, Gate
  <2>7. ~ ClaimedOnce(row.retries)
    BY <2>1, <2>2, <2>5, <2>6 DEF TaskGoesOn, RetryGoesOn
  <2> QED
    BY <2>1, <2>5, <2>7, TwoClaims
<1> QED
  BY <1>1, DispatchInvInductive, OutcomeInvInductive, PTL DEF DispatchSpec
=============================================================================
