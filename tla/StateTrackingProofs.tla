------------------------ MODULE StateTrackingProofs ------------------------
(***************************************************************************)
(* AuditInv is an inductive invariant of StateTracking for every number of *)
(* workers, every retry limit and every number of failures, and with it    *)
(* type correctness, the write-ahead audit and the append-only audit table.*)
(* From it follows that no update of retry_count is lost without a trace.  *)
(***************************************************************************)
EXTENDS StateTracking, TaskRecordsProofs

USE DEF FaultCounts

(***************************************************************************)
(* Deliveries                                                              *)
(***************************************************************************)

\* The neutral records that stand for "none loaded" and "none remembered".
LEMMA NeutralRecords ==
    /\ NoRow \in Row /\ NewRow \in Row
    /\ NoDecision \in Decision
    /\ NoAttempt \in OnErrorAttempt
    /\ Idle \in Delivery
<1>1. NewRow \in Row /\ NoRow \in Row
  <2>1. 0 \in 0 .. MaxRetries
    BY MaxRetriesAssumption
  <2>2. NewRow \in Row
    BY <2>1 DEF NewRow, Row, Status, Reason
  <2> QED
    BY <2>2, Zenon DEF NoRow, Row
<1>2. NoDecision \in Decision
  BY MaxRetriesAssumption DEF NoDecision, Decision, Status, Reason
<1>3. NoAttempt \in OnErrorAttempt
  BY MaxRetriesAssumption DEF NoAttempt, OnErrorAttempt, Status, Reason
<1>4. 1 \in 1 .. DbAttempts /\ 0 \in Nat
  BY DbAttemptsAssumption
<1>5. Idle \in Delivery
  BY <1>1, <1>2, <1>3, <1>4, SMTT(30) DEF Idle, Delivery, PC, Hook, Status
<1> QED
  BY <1>1, <1>2, <1>3, <1>5

\* A hook that raises leaves a stuck delivery, which remembers what it did.
LEMMA RaiseType ==
    ASSUME NEW d \in Delivery
    PROVE  /\ Raise(d) \in Delivery
           /\ Raise(d).pc = "stuck"
           /\ Raise(d).loaded = NoRow
           /\ Raise(d).attempt = d.attempt
<1>1. "stuck" \in PC
  BY DEF PC
<1> QED
  BY <1>1, NeutralRecords DEF Raise, Delivery

\* db_retry leaves a delivery that goes back to load, or is stuck.
LEMMA RetryType ==
    ASSUME NEW d \in Delivery
    PROVE  /\ Retry(d) \in Delivery
           /\ Retry(d).pc \in {"load", "stuck"}
           /\ Retry(d).loaded = NoRow
           /\ Retry(d).attempt = d.attempt
<1>1. CASE d.tries < DbAttempts
  <2>1. "load" \in PC /\ d.tries + 1 \in 1 .. DbAttempts
    BY <1>1, DbAttemptsAssumption DEF PC, Delivery
  <2>2. Retry(d) = [d EXCEPT !.pc = "load", !.tries = d.tries + 1,
                             !.loaded = NoRow, !.decision = NoDecision]
    BY <1>1 DEF Retry, Delivery
  <2> QED
    BY <2>1, <2>2, NeutralRecords DEF Delivery
<1>2. CASE ~ (d.tries < DbAttempts)
  BY <1>2, RaiseType DEF Retry
<1> QED
  BY <1>1, <1>2

\* Leaving a session leaves a delivery that is about to emit.
LEMMA FinishType ==
    ASSUME NEW d \in Delivery, NEW status \in Status
    PROVE  /\ Finish(d, status) \in Delivery
           /\ Finish(d, status).pc = "emit"
           /\ Finish(d, status).loaded = NoRow
           /\ Finish(d, status).attempt = d.attempt
<1>1. "emit" \in PC
  BY DEF PC
<1> QED
  BY <1>1, NeutralRecords DEF Finish, Delivery

\* Entering a hook leaves a delivery that loads and remembers nothing.
LEMMA EnterType ==
    ASSUME NEW d \in Delivery, NEW hook \in Hook
    PROVE  /\ Enter(d, hook) \in Delivery
           /\ Enter(d, hook).pc = "load"
           /\ Enter(d, hook).loaded = d.loaded
           /\ Enter(d, hook).attempt = NoAttempt
<1>1. "load" \in PC /\ "PENDING" \in Status
  BY DEF PC, Status
<1>2. 1 \in 1 .. DbAttempts
  BY DbAttemptsAssumption
<1> QED
  BY <1>1, <1>2, NeutralRecords DEF Enter, Delivery

\* A decision has its type; an allowed or shadowed one is below the limit, and unless it
\* was already recorded it says RETRYING exactly then.
LEMMA ResolveRetryDecisionType ==
    ASSUME NEW t \in Row, NEW attempt \in OnErrorAttempt, NEW mode \in Gate
    PROVE  LET dec == ResolveRetryDecision(t, attempt, mode)
           IN  /\ dec \in Decision
               /\ dec.number = t.retries + 1
               /\ dec.recorded <=> RetryAlreadyRecorded(t, attempt)
               /\ dec.should <=> t.exists /\ t.retries < MaxRetries
               /\ dec.allowed <=> dec.should /\ mode = "open"
               /\ dec.shadowed <=> dec.should /\ mode = "shadow"
               /\ ~ dec.recorded =>
                     dec.status = IF dec.allowed \/ dec.shadowed THEN "RETRYING" ELSE "FAILED"
<1> DEFINE dec == ResolveRetryDecision(t, attempt, mode)
<1>1. /\ dec.recorded \in BOOLEAN /\ dec.should \in BOOLEAN
      /\ dec.allowed \in BOOLEAN /\ dec.shadowed \in BOOLEAN
  BY DEF ResolveRetryDecision, RetryAlreadyRecorded, Row
<1>2. dec.status \in Status /\ dec.reason \in Reason
  BY DEF ResolveRetryDecision, OnErrorAttempt, Status, Reason
<1>3. dec.number \in 1 .. MaxRetries + 1
  BY MaxRetriesAssumption DEF ResolveRetryDecision, Row
<1>4. dec = [status |-> dec.status, reason |-> dec.reason, recorded |-> dec.recorded,
             should |-> dec.should, allowed |-> dec.allowed,
             shadowed |-> dec.shadowed, number |-> dec.number]
  BY DEF ResolveRetryDecision
<1>5. dec \in Decision
  <2> HIDE DEF dec
  <2> QED
    BY <1>1, <1>2, <1>3, <1>4 DEF Decision
<1> QED
  BY <1>5 DEF ResolveRetryDecision

\* The same, with the shadow marker set when the decision says so.
LEMMA FinishUndispatchedType ==
    ASSUME NEW d \in Delivery, NEW decision \in Decision
    PROVE  /\ FinishUndispatched(d, decision) \in Delivery
           /\ FinishUndispatched(d, decision).pc = "emit"
           /\ FinishUndispatched(d, decision).loaded = NoRow
           /\ FinishUndispatched(d, decision).attempt = d.attempt
<1> DEFINE e == [d EXCEPT !.shadow = @ \/ decision.shadowed]
<1>1. e.shadow \in BOOLEAN
  BY DEF Delivery
<1>2. e = [d EXCEPT !.shadow = e.shadow]
  BY DEF Delivery
<1> HIDE DEF e
<1>3. e \in Delivery /\ e.attempt = d.attempt
  BY <1>1, <1>2 DEF Delivery
<1>4. decision.status \in Status
  BY DEF Decision
<1> QED
  BY <1>3, <1>4, FinishType DEF FinishUndispatched, e

(***************************************************************************)
(* Soundness of a delivery, and what every step shows                      *)
(***************************************************************************)

\* What the log already covers stays covered.
LEMMA AuditedUpToKept ==
    ASSUME NEW log \in Seq(Attempt), NEW new \in Seq(Attempt), OnlyGrows(log, new),
           NEW k, NEW mode, AuditedUpTo(k, log, mode)
    PROVE  AuditedUpTo(k, new, mode)
<1> SUFFICES ASSUME NEW n \in 1 .. k
             PROVE  \E i \in DOMAIN new :
                       /\ new[i].number = n
                       /\ IF mode = "shadow" THEN new[i].result = "SHADOWED"
                                             ELSE Claimed(new[i])
  BY DEF AuditedUpTo, Decides
<1>1. PICK i \in DOMAIN log :
         /\ log[i].number = n
         /\ IF mode = "shadow" THEN log[i].result = "SHADOWED" ELSE Claimed(log[i])
  BY DEF AuditedUpTo, Decides
<1>2. /\ i \in DOMAIN new
      /\ new[i].number = log[i].number
      /\ Claimed(log[i]) => Claimed(new[i])
      /\ log[i].result = "SHADOWED" => new[i].result = "SHADOWED"
  BY OnlyGrowsKeepsRows
<1> QED
  BY <1>1, <1>2

\* A row without retries needs no audit row.
LEMMA NothingToAudit ==
    ASSUME NEW log, NEW mode
    PROVE  AuditedUpTo(NoRow.retries, log, mode)
BY DEF AuditedUpTo, NoRow, NewRow

\* A sound delivery stays sound while other deliveries extend the log.
LEMMA SoundKept ==
    ASSUME NEW log \in Seq(Attempt), NEW new \in Seq(Attempt), OnlyGrows(log, new),
           NEW d, NEW mode, DeliverySound(d, log, mode)
    PROVE  DeliverySound(d, new, mode)
<1>1. AuditedUpTo(d.loaded.retries, new, mode)
  BY AuditedUpToKept, Zenon DEF DeliverySound
<1>2. ClaimKnown(d, new)
  BY OnlyGrowsKeepsRows, Zenon DEF DeliverySound, ClaimKnown
<1> QED
  BY <1>1, <1>2, Zenon DEF DeliverySound

\* Quiet: neither dispatching nor about to record an error.
Quiet(d) == ~ Dispatching(d) /\ ~ (d.pc = "write" /\ d.hook = "error")

\* A quiet delivery is sound when what it loaded is covered and what it remembers is
\* sound.
LEMMA QuietSound ==
    ASSUME NEW d, NEW log, NEW mode, Quiet(d),
           AuditedUpTo(d.loaded.retries, log, mode), AttemptSound(d.attempt, mode)
    PROVE  DeliverySound(d, log, mode)
BY Zenon DEF Quiet, DeliverySound, DecisionFresh, DispatchAllowed, ClaimKnown

\* Memory of nothing is sound.
LEMMA NoAttemptSound ==
    ASSUME NEW mode PROVE AttemptSound(NoAttempt, mode)
BY DEF AttemptSound, NoAttempt

\* What every step shows: the invariant is kept, the log only grows, the settings stay.
SoundStep == AuditInv' /\ OnlyGrows(audit, audit') /\ gate' = gate

\* The frame of every step: one delivery moves, the log grows, and nothing is sent that
\* is not claimed.
LEMMA StepKeeps ==
    ASSUME AuditInv,
           NEW w \in Worker, NEW e \in Delivery, Become(w, e), gate' = gate,
           row' \in Row, AuditedUpTo(row'.retries, audit', gate),
           audit' \in Seq(Attempt), OnlyGrows(audit, audit'),
           queue' \in Nat, sent' \in [Number -> Nat],
           \A n \in Number : sent'[n] > 0 => sent[n] > 0 \/ ClaimedRows(audit', n) # {},
           faults' \in FaultCounts,
           DeliverySound(e, audit', gate)
    PROVE  SoundStep
<1>1. /\ worker \in [Worker -> Delivery] /\ audit \in Seq(Attempt) /\ gate \in Gate
      /\ worker' = [worker EXCEPT ![w] = e]
  BY DEF AuditInv, TypeOK, Become
<1>2. worker' \in [Worker -> Delivery]
  BY <1>1
<1>3. TypeOK'
  BY <1>1, <1>2 DEF TypeOK
<1>4. ASSUME NEW v \in Worker
      PROVE  DeliverySound(worker'[v], audit', gate')
  <2>1. CASE v = w
    BY <1>1, <2>1
  <2>2. CASE v # w
    <3>1. worker'[v] = worker[v] /\ DeliverySound(worker[v], audit, gate)
      BY <1>1, <2>2 DEF AuditInv
    <3> QED
      BY <1>1, <3>1, SoundKept
  <2> QED
    BY <2>1, <2>2
<1>5. EveryRetryAudited'
  BY DEF EveryRetryAudited
<1>6. WriteAheadAudit'
  <2> SUFFICES ASSUME NEW n \in Number, sent'[n] > 0
               PROVE  ClaimedRows(audit', n) # {}
    BY DEF WriteAheadAudit
  <2>1. CASE sent[n] > 0
    <3>1. ClaimedRows(audit, n) # {}
      BY <2>1 DEF AuditInv, WriteAheadAudit
    <3> QED
      BY <1>1, <3>1, OnlyGrowsKeepsRows
  <2> QED
    BY <2>1
<1> QED
  BY <1>3, <1>4, <1>5, <1>6 DEF AuditInv, SoundStep

\* Leaving the log alone is growing.
LEMMA OnlyGrowsReflexive ==
    ASSUME NEW log \in Seq(Attempt) PROVE OnlyGrows(log, log)
BY DEF OnlyGrows

\* A step that leaves the tables alone.
LEMMA LocalStepKeeps ==
    ASSUME AuditInv,
           NEW w \in Worker, NEW e \in Delivery, Become(w, e),
           UNCHANGED <<row, audit, gate, sent>>, queue' \in Nat,
           faults' \in FaultCounts,
           DeliverySound(e, audit, gate)
    PROVE  SoundStep
<1>1. row \in Row /\ audit \in Seq(Attempt) /\ sent \in [Number -> Nat]
      /\ AuditedUpTo(row.retries, audit, gate)
  BY DEF AuditInv, TypeOK, EveryRetryAudited
<1>2. /\ row' = row /\ audit' = audit /\ gate' = gate /\ sent' = sent
  OBVIOUS
<1> QED
  BY <1>1, <1>2, OnlyGrowsReflexive, StepKeeps

\* db_retry leaves a sound delivery: it has nothing loaded, and remembers what it did.
LEMMA RetrySound ==
    ASSUME NEW d \in Delivery, NEW log, NEW mode, AttemptSound(d.attempt, mode)
    PROVE  DeliverySound(Retry(d), log, mode)
<1>1. Quiet(Retry(d))
  BY RetryType DEF Quiet, Dispatching
<1> QED
  BY <1>1, RetryType, NothingToAudit, QuietSound

\* So does a hook that raises.
LEMMA RaiseSound ==
    ASSUME NEW d \in Delivery, NEW log, NEW mode, AttemptSound(d.attempt, mode)
    PROVE  DeliverySound(Raise(d), log, mode)
<1>1. Quiet(Raise(d))
  BY RaiseType DEF Quiet, Dispatching
<1> QED
  BY <1>1, RaiseType, NothingToAudit, QuietSound

\* A commit, whatever its outcome.
LEMMA CommitKeeps ==
    ASSUME AuditInv,
           NEW w \in Worker, NEW outcome \in Outcome, NEW newRow \in Row,
           NEW newAudit \in Seq(Attempt), OnlyGrows(audit, newAudit),
           AuditedUpTo(newRow.retries, newAudit, gate),
           NEW ok \in Delivery, DeliverySound(ok, newAudit, gate),
           NEW ko \in Delivery, AttemptSound(ko.attempt, gate),
           Commit(w, outcome, newRow, newAudit, ok, ko)
    PROVE  SoundStep
<1> DEFINE e == IF outcome = "committed" THEN ok ELSE Retry(ko)
<1>1. /\ row \in Row /\ audit \in Seq(Attempt) /\ queue \in Nat
      /\ sent \in [Number -> Nat] /\ AuditedUpTo(row.retries, audit, gate)
      /\ faults \in FaultCounts
  BY DEF AuditInv, TypeOK, EveryRetryAudited
<1>2. faults' \in FaultCounts
  BY <1>1 DEF Commit
<1>3. queue' = queue /\ gate' = gate /\ sent' = sent
  BY DEF Commit
<1>4. \/ row' = row /\ audit' = audit /\ outcome = "rolled_back"
      \/ row' = newRow /\ audit' = newAudit
  BY DEF Commit
<1>5. Become(w, e) /\ e \in Delivery
  BY RetryType DEF Commit
<1>6. /\ row' \in Row /\ audit' \in Seq(Attempt) /\ OnlyGrows(audit, audit')
      /\ AuditedUpTo(row'.retries, audit', gate)
  BY <1>1, <1>4, OnlyGrowsReflexive
<1>7. DeliverySound(e, audit', gate)
  BY <1>4, RetrySound
<1> HIDE DEF e
<1> QED
  BY <1>1, <1>2, <1>3, <1>5, <1>6, <1>7, StepKeeps

\* What a typed state says of one delivery.
LEMMA InvFacts ==
    ASSUME AuditInv, NEW w \in Worker
    PROVE  /\ worker[w] \in Delivery
           /\ DeliverySound(worker[w], audit, gate)
           /\ AttemptSound(worker[w].attempt, gate)
           /\ AuditedUpTo(worker[w].loaded.retries, audit, gate)
           /\ row \in Row /\ audit \in Seq(Attempt) /\ queue \in Nat /\ gate \in Gate
           /\ sent \in [Number -> Nat]
           /\ faults \in FaultCounts
           /\ AuditedUpTo(row.retries, audit, gate)
BY DEF AuditInv, TypeOK, EveryRetryAudited, DeliverySound

\* The idle delivery, and a delivery that just entered a hook, are sound.
LEMMA IdleSound ==
    ASSUME NEW log, NEW mode PROVE DeliverySound(Idle, log, mode)
<1>1. Quiet(Idle)
  BY DEF Quiet, Dispatching, Idle
<1>2. Idle.loaded = NoRow /\ Idle.attempt = NoAttempt
  BY DEF Idle
<1> QED
  BY <1>1, <1>2, QuietSound, NothingToAudit, NoAttemptSound

\* Entering a hook forgets what the last invocation remembered.
LEMMA EnterSound ==
    ASSUME NEW d \in Delivery, NEW hook \in Hook, NEW log, NEW mode,
           AuditedUpTo(d.loaded.retries, log, mode)
    PROVE  DeliverySound(Enter(d, hook), log, mode)
<1>1. Quiet(Enter(d, hook))
  BY EnterType DEF Quiet, Dispatching
<1> QED
  BY <1>1, EnterType, QuietSound, NoAttemptSound

\* A delivery that leaves its session has nothing loaded and dispatches nothing.
LEMMA FinishSound ==
    ASSUME NEW d \in Delivery, NEW status \in Status, NEW log, NEW mode,
           AttemptSound(d.attempt, mode)
    PROVE  DeliverySound(Finish(d, status), log, mode)
<1>1. Quiet(Finish(d, status))
  BY FinishType DEF Quiet, Dispatching
<1> QED
  BY <1>1, FinishType, QuietSound, NothingToAudit

\* The same at the end of an on_error that dispatches nothing.
LEMMA FinishUndispatchedSound ==
    ASSUME NEW d \in Delivery, NEW decision \in Decision, NEW log, NEW mode,
           AttemptSound(d.attempt, mode)
    PROVE  DeliverySound(FinishUndispatched(d, decision), log, mode)
<1>1. Quiet(FinishUndispatched(d, decision))
  BY FinishUndispatchedType DEF Quiet, Dispatching
<1> QED
  BY <1>1, FinishUndispatchedType, QuietSound, NothingToAudit

(***************************************************************************)
(* The actions                                                             *)
(***************************************************************************)

\* The receiver's steps and the lost deliveries.
LEMMA ReceiverKeeps ==
    ASSUME AuditInv, NEW w \in Worker,
           \/ Receive(w) \/ RunTask(w) \/ SaveAndAck(w) \/ Crash(w)
           \/ ChannelLost(w) \/ GiveBack(w)
    PROVE  SoundStep
<1> USE InvFacts
<1>1. CASE Receive(w)
  <2> DEFINE d == [Idle EXCEPT !.held = TRUE]
  <2>1. d \in Delivery /\ d.loaded = NoRow
    BY NeutralRecords, Zenon DEF Delivery, Idle
  <2>2. "pre" \in Hook
    BY DEF Hook
  <2>3. Enter(d, "pre") \in Delivery /\ DeliverySound(Enter(d, "pre"), audit, gate)
    BY <2>1, <2>2, EnterType, EnterSound, NothingToAudit
  <2>4. queue' \in Nat
    BY <1>1 DEF Receive
  <2> QED
    BY <1>1, <2>3, <2>4, LocalStepKeeps DEF Receive
<1>2. CASE RunTask(w)
  <2>1. PICK failed \in BOOLEAN :
          Become(w, Enter([worker[w] EXCEPT !.failed = failed],
                          IF failed THEN "error" ELSE "post"))
    BY <1>2 DEF RunTask
  <2> DEFINE d    == [worker[w] EXCEPT !.failed = failed]
             hook == IF failed THEN "error" ELSE "post"
  <2>2. d \in Delivery /\ d.loaded = worker[w].loaded /\ hook \in Hook
    BY DEF Delivery, Hook
  <2> HIDE DEF d, hook
  <2>3. Enter(d, hook) \in Delivery /\ DeliverySound(Enter(d, hook), audit, gate)
    BY <2>2, EnterType, EnterSound
  <2> QED
    BY <1>2, <2>1, <2>3, LocalStepKeeps DEF RunTask, d, hook
<1>3. CASE SaveAndAck(w)
  BY <1>3, NeutralRecords, IdleSound, LocalStepKeeps DEF SaveAndAck
<1>4. Returned(w) \in Nat
  BY DEF Returned
<1>5. CASE Crash(w)
  <2>1. faults' \in FaultCounts
    BY <1>5, SMTT(20) DEF Crash
  <2> QED
    BY <1>4, <1>5, <2>1, NeutralRecords, IdleSound, LocalStepKeeps DEF Crash
<1>6. CASE ChannelLost(w)
  <2> DEFINE e == [worker[w] EXCEPT !.held = FALSE]
  <2>1. e \in Delivery
    BY DEF Delivery
  <2>2. /\ e.pc = worker[w].pc /\ e.hook = worker[w].hook /\ e.loaded = worker[w].loaded
        /\ e.attempt = worker[w].attempt /\ e.decision = worker[w].decision
    BY DEF Delivery
  <2>3. DeliverySound(e, audit, gate)
    <3> HIDE DEF e
    <3> QED
      BY <2>2 DEF DeliverySound, DecisionFresh, DispatchAllowed, ClaimKnown,
                  Dispatching, ClaimNumber
  <2>4. faults' \in FaultCounts
    BY <1>6, SMTT(30) DEF ChannelLost
  <2> QED
    BY <1>4, <1>6, <2>1, <2>3, <2>4, LocalStepKeeps DEF ChannelLost
<1>7. CASE GiveBack(w)
  BY <1>4, <1>7, NeutralRecords, IdleSound, LocalStepKeeps DEF GiveBack
<1> QED
  BY <1>1, <1>2, <1>3, <1>5, <1>6, <1>7

\* Writing a status other than RETRYING leaves the count in the row alone.
LEMMA SetStatusKeeps ==
    ASSUME AuditInv, NEW w \in Worker, NEW outcome \in Outcome,
           NEW status \in Status, NEW reason \in Reason, status # "RETRYING",
           SetStatus(w, outcome, status, reason)
    PROVE  SoundStep
<1> DEFINE d      == worker[w]
           t      == UpdateTaskStatus(d.loaded, status, reason)
           newRow == Flush(row, d.loaded, t)
<1>1. d.loaded \in Row /\ d \in Delivery
  BY InvFacts DEF Delivery
<1>2. t \in Row /\ t.retries = d.loaded.retries
  BY <1>1, UpdateTaskStatusType
<1>3. newRow \in Row /\ newRow.retries = row.retries
  BY <1>1, <1>2, InvFacts, FlushType
<1>4. Finish(d, status) \in Delivery /\ DeliverySound(Finish(d, status), audit, gate)
  BY <1>1, InvFacts, FinishType, FinishSound
<1>5. Commit(w, outcome, newRow, audit, Finish(d, status), d)
  BY DEF SetStatus
<1> HIDE DEF t, newRow
<1> QED
  BY <1>1, <1>3, <1>4, <1>5, InvFacts, OnlyGrowsReflexive, CommitKeeps

\* pre_execute, post_execute, the emit and the failing reads.
LEMMA HooksKeep ==
    ASSUME AuditInv, NEW w \in Worker, NEW outcome \in Outcome,
           \/ LoadFails(w) \/ UnretriedError(w) \/ Load(w) \/ PreExecute(w, outcome)
           \/ PostExecuteSkips(w) \/ PostExecute(w, outcome) \/ Emit(w)
    PROVE  SoundStep
<1>1. CASE LoadFails(w)
  <2>1. faults' \in FaultCounts
    BY <1>1, InvFacts, SMTT(30) DEF LoadFails
  <2> QED
    BY <1>1, <2>1, InvFacts, RetryType, RetrySound, LocalStepKeeps DEF LoadFails
<1>2. CASE Load(w)
  <2> DEFINE e == [worker[w] EXCEPT !.pc = "write", !.loaded = row]
  <2>1. worker[w] \in Delivery /\ row \in Row /\ "write" \in PC
    BY InvFacts DEF PC
  <2>2. /\ e \in Delivery /\ e.pc = "write" /\ e.hook = worker[w].hook /\ e.loaded = row
        /\ e.attempt = worker[w].attempt
    BY <2>1 DEF Delivery
  <2>3. e.hook # "error"
    BY <1>2, <2>2 DEF Load, At
  <2> HIDE DEF e
  <2>4. DeliverySound(e, audit, gate)
    BY <2>2, <2>3, InvFacts, QuietSound DEF Quiet, Dispatching
  <2> QED
    BY <1>2, <2>2, <2>4, InvFacts, LocalStepKeeps DEF Load, e
<1>3. CASE PreExecute(w, outcome)
  BY <1>3, SetStatusKeeps DEF PreExecute, Status, Reason
<1>4. CASE PostExecuteSkips(w)
  <2> DEFINE e == [worker[w] EXCEPT !.pc = "save"]
  <2>1. /\ e \in Delivery /\ e.pc = "save" /\ e.loaded = worker[w].loaded
        /\ e.attempt = worker[w].attempt
    <3>1. worker[w] \in Delivery
      BY InvFacts
    <3> QED
      BY <3>1, SMTT(20) DEF Delivery, PC
  <2> HIDE DEF e
  <2>2. DeliverySound(e, audit, gate)
    BY <2>1, InvFacts, QuietSound DEF Quiet, Dispatching
  <2> QED
    BY <1>4, <2>1, <2>2, InvFacts, LocalStepKeeps DEF PostExecuteSkips, e
<1>5. CASE PostExecute(w, outcome)
  BY <1>5, SetStatusKeeps DEF PostExecute, Status, Reason
<1>6. CASE Emit(w)
  <2> DEFINE d == [worker[w] EXCEPT !.event = "PENDING"]
             e == CASE d.hook = "pre"   -> [d EXCEPT !.pc = "run"]
                    [] d.hook = "error" -> Enter(d, "post")
                    [] d.hook = "post"  -> [d EXCEPT !.pc = "save"]
  <2>1. /\ d \in Delivery /\ d.loaded = worker[w].loaded /\ d.attempt = worker[w].attempt
        /\ d.hook \in {"pre", "error", "post"}
    BY InvFacts DEF Delivery, Status, Hook
  <2> HIDE DEF d
  <2>2. ASSUME NEW pc \in {"run", "save"}
        PROVE  /\ [d EXCEPT !.pc = pc] \in Delivery
               /\ DeliverySound([d EXCEPT !.pc = pc], audit, gate)
    <3> DEFINE f == [d EXCEPT !.pc = pc]
    <3>1. f \in Delivery /\ f.pc = pc /\ f.loaded = d.loaded /\ f.attempt = d.attempt
      BY <2>1 DEF Delivery, PC
    <3> HIDE DEF f
    <3>2. DeliverySound(f, audit, gate)
      BY <2>1, <3>1, InvFacts, QuietSound DEF Quiet, Dispatching
    <3> QED
      BY <3>1, <3>2 DEF f
  <2>3. Enter(d, "post") \in Delivery /\ DeliverySound(Enter(d, "post"), audit, gate)
    BY <2>1, InvFacts, EnterType, EnterSound DEF Hook
  <2>4. e \in Delivery /\ DeliverySound(e, audit, gate)
    BY <2>1, <2>2, <2>3
  <2>5. Become(w, e)
    BY <1>6 DEF Emit, d
  <2> HIDE DEF e
  <2> QED
    BY <1>6, <2>4, <2>5, InvFacts, LocalStepKeeps DEF Emit
<1>7. CASE UnretriedError(w)
  <2>1. faults' \in FaultCounts
    BY <1>7, InvFacts, SMTT(20) DEF UnretriedError
  <2> QED
    BY <1>7, <2>1, InvFacts, RaiseType, RaiseSound, LocalStepKeeps DEF UnretriedError
<1> QED
  BY <1>1, <1>2, <1>3, <1>4, <1>5, <1>6, <1>7

\* A delivery that only moves between the dispatching steps stays sound.
LEMMA DispatchingSound ==
    ASSUME NEW d \in Delivery, Dispatching(d), NEW log, NEW mode,
           DeliverySound(d, log, mode),
           NEW e, Dispatching(e), e.loaded = d.loaded, e.decision = d.decision,
           e.attempt = d.attempt
    PROVE  DeliverySound(e, log, mode)
BY DEF DeliverySound, DecisionFresh, DispatchAllowed, ClaimKnown, Dispatching, ClaimNumber

\* _record_error_status loads the row: a retry it finds recorded is audited.
LEMMA OnErrorLoadKeeps ==
    ASSUME AuditInv, NEW w \in Worker, OnErrorLoad(w)
    PROVE  SoundStep
<1> DEFINE d   == worker[w]
           dec == ResolveRetryDecision(row, d.attempt, gate)
           at(pc) == [d EXCEPT !.pc = pc, !.loaded = row, !.decision = dec]
           e   == IF ~ dec.recorded THEN at("write")
                  ELSE IF dec.allowed THEN at("lookup")
                  ELSE FinishUndispatched(d, dec)
<1>1. d \in Delivery /\ d.attempt \in OnErrorAttempt /\ row \in Row /\ gate \in Gate
      /\ AttemptSound(d.attempt, gate) /\ AuditedUpTo(row.retries, audit, gate)
  BY InvFacts DEF Delivery
<1>2. /\ dec \in Decision
      /\ dec.number = row.retries + 1
      /\ dec.recorded <=> RetryAlreadyRecorded(row, d.attempt)
      /\ dec.should <=> row.exists /\ row.retries < MaxRetries
      /\ dec.allowed <=> dec.should /\ gate = "open"
  BY <1>1, ResolveRetryDecisionType
<1>3. dec = ResolveRetryDecision(row, d.attempt, gate)
  OBVIOUS
<1>4. Become(w, e) /\ d.hook = "error"
  BY DEF OnErrorLoad, At
<1> HIDE DEF d, dec
<1>5. ASSUME NEW pc \in PC
      PROVE  /\ at(pc) \in Delivery /\ at(pc).pc = pc /\ at(pc).hook = d.hook
             /\ at(pc).loaded = row /\ at(pc).decision = dec /\ at(pc).attempt = d.attempt
  BY <1>1, <1>2 DEF Delivery
<1> HIDE DEF at
<1>6. ASSUME ~ dec.recorded
      PROVE  e \in Delivery /\ DeliverySound(e, audit, gate)
  <2>1. "write" \in PC
    BY DEF PC
  <2>2. DeliverySound(at("write"), audit, gate)
    BY <1>1, <1>3, <1>5, <1>6, <2>1
       DEF DeliverySound, DecisionFresh, DispatchAllowed, ClaimKnown, Dispatching
  <2> QED
    BY <1>5, <1>6, <2>1, <2>2
<1>7. ASSUME dec.recorded /\ dec.allowed
      PROVE  e \in Delivery /\ DeliverySound(e, audit, gate)
  <2>1. "lookup" \in PC
    BY DEF PC
  <2>2. gate = "open" /\ dec.number \in Number /\ row.retries < MaxRetries
    BY <1>1, <1>2, <1>7, MaxRetriesAssumption DEF Number, Row
  <2>3. d.attempt.retries = row.retries /\ row.retries \in 0 .. MaxRetries
    BY <1>1, <1>2, <1>7 DEF RetryAlreadyRecorded, Row
  <2>4. d.attempt.number # 0 /\ d.attempt.number <= row.retries
    BY <1>1, <2>2, <2>3, MaxRetriesAssumption DEF AttemptSound
  <2>5. d.attempt.number \in 1 .. row.retries
    BY <1>1, <2>3, <2>4 DEF OnErrorAttempt
  <2>6. ClaimedRows(audit, d.attempt.number) # {}
    BY <1>1, <2>2, <2>5 DEF AuditedUpTo, Decides, ClaimedRows
  <2>7. ClaimNumber(at("lookup")) = d.attempt.number
    BY <1>5, <2>1, <2>4 DEF ClaimNumber
  <2>8. DeliverySound(at("lookup"), audit, gate)
    BY <1>1, <1>5, <2>1, <2>2, <2>6, <2>7
       DEF DeliverySound, DecisionFresh, DispatchAllowed, ClaimKnown, Dispatching
  <2> QED
    BY <1>5, <1>7, <2>1, <2>8
<1>8. ASSUME dec.recorded /\ ~ dec.allowed
      PROVE  e \in Delivery /\ DeliverySound(e, audit, gate)
  BY <1>1, <1>2, <1>8, FinishUndispatchedType, FinishUndispatchedSound
<1>9. e \in Delivery /\ DeliverySound(e, audit, gate)
  BY <1>6, <1>7, <1>8
<1> HIDE DEF e
<1> QED
  BY <1>4, <1>9, InvFacts, LocalStepKeeps DEF OnErrorLoad

\* The lookup of a recorded retry, and the three ways a send ends.
LEMMA DispatchKeeps ==
    ASSUME AuditInv, NEW w \in Worker,
           \/ RecoverDispatch(w)
           \/ RequeueSent(w) \/ RequeueRefused(w) \/ RequeueUnconfirmed(w)
    PROVE  SoundStep
<1> DEFINE d == worker[w]
<1>1. d \in Delivery /\ DeliverySound(d, audit, gate) /\ Dispatching(d)
  BY InvFacts DEF RecoverDispatch, RequeueSent, RequeueRefused, RequeueUnconfirmed,
                  Dispatching, At
<1>2. ClaimedRows(audit, ClaimNumber(d)) # {} /\ ClaimNumber(d) \in Number
  BY <1>1, MaxRetriesAssumption
     DEF DeliverySound, ClaimKnown, DispatchAllowed, ClaimNumber, Delivery,
         OnErrorAttempt, Number
<1> HIDE DEF d
<1>3. ASSUME NEW pc \in {"requeue", "mark", "undispatched"}, NEW resent \in Nat
      PROVE  /\ [d EXCEPT !.pc = pc, !.resent = resent] \in Delivery
             /\ DeliverySound([d EXCEPT !.pc = pc, !.resent = resent], audit, gate)
  <2> DEFINE e == [d EXCEPT !.pc = pc, !.resent = resent]
  <2>1. e \in Delivery /\ e.pc = pc /\ e.loaded = d.loaded /\ e.decision = d.decision
        /\ e.attempt = d.attempt
    BY <1>1 DEF Delivery, PC
  <2> HIDE DEF e
  <2>2. DeliverySound(e, audit, gate)
    BY <1>1, <2>1, DispatchingSound DEF Dispatching
  <2> QED
    BY <2>1, <2>2 DEF e
<1>4. d.resent \in Nat /\ d.resent + 1 \in Nat
  BY <1>1 DEF Delivery
<1>5. ASSUME NEW pc \in {"requeue", "mark", "undispatched"}
      PROVE  /\ [d EXCEPT !.pc = pc] \in Delivery
             /\ DeliverySound([d EXCEPT !.pc = pc], audit, gate)
  <2>1. [d EXCEPT !.pc = pc] = [d EXCEPT !.pc = pc, !.resent = d.resent]
    BY <1>1 DEF Delivery
  <2> QED
    BY <1>3, <1>4, <2>1
<1>6. sent \in [Number -> Nat] /\ audit \in Seq(Attempt) /\ row \in Row
      /\ queue \in Nat /\ queue + 1 \in Nat /\ AuditedUpTo(row.retries, audit, gate)
      /\ OnlyGrows(audit, audit)
  BY InvFacts, OnlyGrowsReflexive
<1>7. ASSUME sent' = [sent EXCEPT ![ClaimNumber(d)] = @ + 1]
      PROVE  /\ sent' \in [Number -> Nat]
             /\ \A n \in Number : sent'[n] > 0 => sent[n] > 0 \/ ClaimedRows(audit, n) # {}
  <2> DEFINE m == ClaimNumber(d)
  <2>1. sent' = [sent EXCEPT ![m] = @ + 1] /\ ClaimedRows(audit, m) # {} /\ m \in Number
    BY <1>2, <1>7
  <2> HIDE DEF m
  <2>2. sent' \in [Number -> Nat]
    <3>1. sent[m] + 1 \in Nat
      BY <1>6, <2>1
    <3> QED
      BY <1>6, <2>1, <3>1
  <2>3. ASSUME NEW n \in Number, n # m PROVE sent'[n] = sent[n]
    BY <1>6, <2>1, <2>3
  <2> QED
    BY <2>1, <2>2, <2>3
<1>8. CASE RecoverDispatch(w)
  <2> DEFINE state == DispatchState(audit, ClaimNumber(d))
             e == IF state = "PENDING" THEN [d EXCEPT !.pc = "requeue"]
                  ELSE IF state = "DISPATCHED" THEN [d EXCEPT !.pc = "mark"]
                  ELSE Retry(d)
  <2>1. Become(w, e)
    BY <1>8 DEF RecoverDispatch, d
  <2>2. Retry(d) \in Delivery /\ DeliverySound(Retry(d), audit, gate)
    BY <1>1, RetryType, RetrySound DEF DeliverySound
  <2>3. e \in Delivery /\ DeliverySound(e, audit, gate)
    BY <1>5, <2>2
  <2> HIDE DEF e
  <2> QED
    BY <1>8, <2>1, <2>3, InvFacts, LocalStepKeeps DEF RecoverDispatch
<1>9. CASE RequeueSent(w)
  <2> DEFINE e == [d EXCEPT !.pc = "mark", !.resent = d.resent + 1]
  <2>1. Become(w, e)
    BY <1>1, <1>9 DEF RequeueSent, d, Delivery
  <2>2. e \in Delivery /\ DeliverySound(e, audit, gate)
    BY <1>3, <1>4
  <2>3. /\ row' = row /\ audit' = audit /\ gate' = gate /\ faults' = faults
        /\ queue' = queue + 1 /\ sent' = [sent EXCEPT ![ClaimNumber(d)] = @ + 1]
    BY <1>9 DEF RequeueSent, d
  <2> HIDE DEF e
  <2> QED
    BY <1>6, <1>7, <2>1, <2>2, <2>3, InvFacts, StepKeeps
<1>10. CASE RequeueRefused(w)
  <2>1. faults' \in FaultCounts
    BY <1>10, InvFacts, SMTT(20) DEF RequeueRefused
  <2>2. Become(w, [d EXCEPT !.pc = "undispatched"])
    BY <1>10 DEF RequeueRefused, d
  <2> QED
    BY <1>5, <1>10, <2>1, <2>2, InvFacts, LocalStepKeeps DEF RequeueRefused
<1>11. CASE RequeueUnconfirmed(w)
  <2>1. faults' \in FaultCounts
    <3>1. faults' = [faults EXCEPT !.unconfirmed = @ + 1]
      BY <1>11 DEF RequeueUnconfirmed
    <3>2. faults \in FaultCounts
      BY InvFacts
    <3>3. faults.unconfirmed + 1 \in Nat
      BY <3>2
    <3> QED
      BY <3>1, <3>2, <3>3, Zenon
  <2>2. Become(w, [d EXCEPT !.pc = "undispatched"])
    BY <1>11 DEF RequeueUnconfirmed, d
  <2>3. /\ row' = row /\ audit' = audit /\ gate' = gate
        /\ queue' = queue + 1 /\ sent' = [sent EXCEPT ![ClaimNumber(d)] = @ + 1]
    BY <1>11 DEF RequeueUnconfirmed, d
  <2> QED
    BY <1>5, <1>6, <1>7, <2>1, <2>2, <2>3, StepKeeps
<1> QED
  BY <1>8, <1>9, <1>10, <1>11

\* The numbers 1 .. k are audited, and k + 1 by a row that was just added.
LEMMA AuditedOneMore ==
    ASSUME NEW log \in Seq(Attempt), NEW n \in Number, NEW result \in DispatchResult,
           NEW k \in Nat, n = k + 1, NEW mode, AuditedUpTo(k, log, mode),
           IF mode = "shadow" THEN result = "SHADOWED" ELSE result \in {"PENDING", "DISPATCHED"}
    PROVE  AuditedUpTo(n, RecordTaskAttempt(log, n, result), mode)
<1> DEFINE new == RecordTaskAttempt(log, n, result)
<1>1. /\ new \in Seq(Attempt) /\ OnlyGrows(log, new)
      /\ Len(log) + 1 \in DOMAIN new
      /\ new[Len(log) + 1] = [number |-> n, result |-> result]
  BY RecordTaskAttemptKeeps
<1> HIDE DEF new
<1>2. AuditedUpTo(k, new, mode)
  BY <1>1, AuditedUpToKept
<1> SUFFICES ASSUME NEW m \in 1 .. n
             PROVE  \E i \in DOMAIN new :
                       /\ new[i].number = m
                       /\ IF mode = "shadow" THEN new[i].result = "SHADOWED"
                                             ELSE Claimed(new[i])
  BY DEF AuditedUpTo, Decides, new
<1>3. CASE m \in 1 .. k
  BY <1>2, <1>3 DEF AuditedUpTo, Decides
<1>4. CASE m = n
  BY <1>1, <1>4 DEF Claimed
<1> QED
  BY <1>3, <1>4 DEF Number

\* _record_initial_error_status: the row and its audit row are written together, so
\* the count stays covered, and so does what the invocation remembers.
LEMMA RecordErrorStatusKeeps ==
    ASSUME AuditInv, NEW w \in Worker, NEW outcome \in Outcome,
           RecordErrorStatus(w, outcome)
    PROVE  SoundStep
<1> DEFINE d      == worker[w]
           dec    == d.decision
           t      == UpdateTaskStatus(d.loaded, dec.status, dec.reason)
           newRow == Flush(row, d.loaded, t)
           newAudit == AuditDecision(audit, dec)
           memory   == Remember(d, t)
           counted == IF dec.status = "RETRYING" /\ outcome # "rolled_back"
                      THEN d.counted + 1 ELSE d.counted
           e  == [d EXCEPT !.attempt = memory, !.counted = counted]
           ok == IF dec.allowed
                 THEN [e EXCEPT !.pc = "requeue", !.loaded = newRow]
                 ELSE FinishUndispatched(e, dec)
<1>1. /\ d \in Delivery /\ DeliverySound(d, audit, gate) /\ gate \in Gate
      /\ d.loaded \in Row /\ d.attempt \in OnErrorAttempt /\ d.counted \in Nat
      /\ dec \in Decision /\ dec.status \in Status /\ dec.reason \in Reason
      /\ AttemptSound(d.attempt, gate) /\ AuditedUpTo(d.loaded.retries, audit, gate)
      /\ row \in Row /\ audit \in Seq(Attempt) /\ AuditedUpTo(row.retries, audit, gate)
  BY InvFacts DEF Delivery, Decision
<1>2. dec = ResolveRetryDecision(d.loaded, d.attempt, gate) /\ ~ dec.recorded
  BY <1>1 DEF RecordErrorStatus, At, DeliverySound, DecisionFresh
<1>3. /\ dec.number = d.loaded.retries + 1
      /\ dec.should <=> d.loaded.exists /\ d.loaded.retries < MaxRetries
      /\ dec.allowed <=> dec.should /\ gate = "open"
      /\ dec.shadowed <=> dec.should /\ gate = "shadow"
      /\ dec.status = IF dec.allowed \/ dec.shadowed THEN "RETRYING" ELSE "FAILED"
  <2>1. LET r == ResolveRetryDecision(d.loaded, d.attempt, gate)
        IN  /\ r.number = d.loaded.retries + 1
            /\ r.should <=> d.loaded.exists /\ d.loaded.retries < MaxRetries
            /\ r.allowed <=> r.should /\ gate = "open"
            /\ r.shadowed <=> r.should /\ gate = "shadow"
            /\ ~ r.recorded =>
                 r.status = IF r.allowed \/ r.shadowed THEN "RETRYING" ELSE "FAILED"
    BY <1>1, ResolveRetryDecisionType
  <2> QED
    BY <1>2, <2>1
<1>4. Commit(w, outcome, newRow, newAudit, ok, e)
  BY <1>1 DEF RecordErrorStatus, Delivery
<1> HIDE DEF d, dec
<1>5. /\ t \in Row
      /\ t.retries = IF d.loaded.exists /\ dec.status = "RETRYING"
                     THEN d.loaded.retries + 1 ELSE d.loaded.retries
  BY <1>1, <1>3, UpdateTaskStatusType
<1> HIDE DEF t
<1>6. /\ newRow \in Row
      /\ newRow.retries = IF t.retries = d.loaded.retries THEN row.retries ELSE t.retries
  BY <1>1, <1>5, FlushType
<1> HIDE DEF newRow
<1>7. /\ d.loaded.retries \in 0 .. MaxRetries /\ t.retries \in 0 .. MaxRetries
      /\ d.loaded.retries \in Nat
      /\ dec.should => dec.number \in Number
  BY <1>1, <1>3, <1>5, MaxRetriesAssumption DEF Row, Number
<1>8. /\ newAudit \in Seq(Attempt) /\ OnlyGrows(audit, newAudit)
      /\ AuditedUpTo(newRow.retries, newAudit, gate)
      /\ dec.allowed => ClaimedRows(newAudit, dec.number) # {}
  <2>1. CASE dec.allowed
    <3> DEFINE log == ReconcilePending(audit)
               new == RecordTaskAttempt(log, dec.number, "PENDING")
    <3>1. log \in Seq(Attempt) /\ OnlyGrows(audit, log)
      BY <1>1, ReconcilePendingKeeps
    <3> HIDE DEF log
    <3>2. dec.number \in Number /\ "PENDING" \in DispatchResult
      BY <1>3, <1>7, <2>1 DEF DispatchResult
    <3>3. /\ new \in Seq(Attempt) /\ OnlyGrows(log, new)
          /\ Len(log) + 1 \in DOMAIN new
          /\ new[Len(log) + 1] = [number |-> dec.number, result |-> "PENDING"]
      BY <3>1, <3>2, RecordTaskAttemptKeeps
    <3>4. OnlyGrows(audit, new)
      <4> HIDE DEF new
      <4> QED
        BY <1>1, <3>1, <3>3, OnlyGrowsTransitive
    <3>5. AuditedUpTo(d.loaded.retries, log, gate)
      BY <1>1, <3>1, AuditedUpToKept
    <3>6. gate # "shadow"
      BY <1>3, <2>1
    <3>7. AuditedUpTo(dec.number, new, gate)
      BY <1>3, <1>7, <3>1, <3>2, <3>5, <3>6, AuditedOneMore
    <3>8. newRow.retries = dec.number
      BY <1>3, <1>5, <1>6, <1>7, <2>1
    <3>9. ClaimedRows(new, dec.number) # {}
      <4> HIDE DEF new
      <4> QED
        BY <3>3 DEF ClaimedRows, Claimed
    <3>10. newAudit = new
      BY <2>1 DEF log, AuditDecision
    <3> QED
      BY <3>3, <3>4, <3>7, <3>8, <3>9, <3>10
  <2>2. CASE dec.shadowed
    <3> DEFINE new == RecordTaskAttempt(audit, dec.number, "SHADOWED")
    <3>1. dec.number \in Number /\ "SHADOWED" \in DispatchResult /\ ~ dec.allowed
          /\ dec.should /\ gate = "shadow"
      BY <1>3, <1>7, <2>2 DEF DispatchResult
    <3>2. new \in Seq(Attempt) /\ OnlyGrows(audit, new)
      BY <1>1, <3>1, RecordTaskAttemptKeeps
    <3>3. AuditedUpTo(dec.number, new, gate)
      BY <1>1, <1>3, <1>7, <3>1, AuditedOneMore
    <3>4. newRow.retries = dec.number
      BY <1>3, <1>5, <1>6, <1>7, <2>2, <3>1
    <3>5. newAudit = new
      BY <2>2, <3>1 DEF AuditDecision
    <3> QED
      BY <3>1, <3>2, <3>3, <3>4, <3>5
  <2>3. CASE ~ dec.allowed /\ ~ dec.shadowed
    <3>1. newRow.retries = row.retries
      BY <1>3, <1>5, <1>6, <2>3
    <3>2. newAudit \in Seq(Attempt) /\ OnlyGrows(audit, newAudit)
      <4>1. CASE dec.should
        <5>1. newAudit = RecordTaskAttempt(audit, dec.number, "BLOCKED")
          BY <2>3, <4>1 DEF AuditDecision
        <5>2. dec.number \in Number /\ "BLOCKED" \in DispatchResult
          BY <1>7, <4>1 DEF DispatchResult
        <5> QED
          BY <1>1, <5>1, <5>2, RecordTaskAttemptKeeps
      <4>2. CASE ~ dec.should
        BY <1>1, <2>3, <4>2, OnlyGrowsReflexive DEF AuditDecision
      <4> QED
        BY <4>1, <4>2
    <3> HIDE DEF newAudit
    <3>3. AuditedUpTo(row.retries, newAudit, gate)
      BY <1>1, <3>2, AuditedUpToKept
    <3> QED
      BY <2>3, <3>1, <3>2, <3>3
  <2> QED
    BY <2>1, <2>2, <2>3
<1> HIDE DEF newAudit
<1>9. memory \in OnErrorAttempt /\ AttemptSound(memory, gate)
  <2>1. /\ memory.retries = (IF d.loaded.exists THEN t.retries ELSE -1)
        /\ memory.number = (IF dec.allowed THEN dec.number ELSE d.attempt.number)
        /\ memory.status = dec.status /\ memory.reason = dec.reason
    BY DEF Remember, dec
  <2>2. memory.retries \in -1 .. MaxRetries
    BY <1>7, <2>1, MaxRetriesAssumption
  <2>3. memory.number \in 0 .. MaxRetries
    BY <1>1, <1>3, <1>7, <2>1, MaxRetriesAssumption DEF OnErrorAttempt, Number
  <2>4. memory \in OnErrorAttempt
    BY <1>1, <2>1, <2>2, <2>3 DEF OnErrorAttempt, Remember, dec
  <2> HIDE DEF memory
  <2>5. CASE dec.allowed
    <3>1. gate = "open" /\ memory.number = memory.retries /\ memory.number # 0
          /\ memory.number \in Int
      BY <1>3, <1>5, <1>7, <2>1, <2>5 DEF Number
    <3> QED
      BY <2>4, <3>1 DEF AttemptSound
  <2>6. CASE ~ dec.allowed
    <3>1. memory.number = d.attempt.number /\ d.attempt.number \in 0 .. MaxRetries
      BY <1>1, <2>1, <2>6 DEF OnErrorAttempt
    <3>2. memory.number # 0 => gate = "open"
      BY <1>1, <3>1 DEF AttemptSound
    <3>3. gate = "open" => memory.retries \in {-1, MaxRetries}
      <4> SUFFICES ASSUME gate = "open", d.loaded.exists
                   PROVE  memory.retries = MaxRetries
        BY <2>1
      <4>1. ~ dec.should /\ ~ dec.shadowed
        BY <1>3, <2>6
      <4>2. d.loaded.retries = MaxRetries
        BY <1>3, <1>7, <4>1, MaxRetriesAssumption
      <4> QED
        BY <1>3, <1>5, <2>1, <2>6, <4>1, <4>2
    <3> QED
      BY <2>4, <3>1, <3>2, <3>3, MaxRetriesAssumption DEF AttemptSound
  <2> QED
    BY <2>4, <2>5, <2>6
<1>10. counted \in Nat
  BY <1>1
<1>11. e \in Delivery /\ e.attempt = memory /\ e.decision = dec /\ e.hook = d.hook
  <2> HIDE DEF memory, counted
  <2> QED
    BY <1>1, <1>9, <1>10 DEF Delivery, dec
<1> HIDE DEF memory, counted, e
<1>12. ok \in Delivery /\ DeliverySound(ok, newAudit, gate)
  <2>1. CASE dec.allowed
    <3> DEFINE f == [e EXCEPT !.pc = "requeue", !.loaded = newRow]
    <3>1. /\ f \in Delivery /\ f.pc = "requeue" /\ f.loaded = newRow
          /\ f.decision = dec /\ f.attempt = memory
      BY <1>6, <1>11 DEF Delivery, PC
    <3> HIDE DEF f
    <3>2. memory.number = dec.number /\ dec.number \in Number /\ gate = "open"
          /\ memory.number # 0
      BY <1>3, <1>7, <2>1 DEF memory, Remember, dec, Number
    <3>3. ClaimNumber(f) = dec.number
      BY <3>1, <3>2 DEF ClaimNumber
    <3>4. DeliverySound(f, newAudit, gate)
      BY <1>8, <1>9, <2>1, <3>1, <3>2, <3>3
         DEF DeliverySound, DecisionFresh, DispatchAllowed, ClaimKnown
    <3> QED
      BY <2>1, <3>1, <3>4 DEF f
  <2>2. CASE ~ dec.allowed
    BY <1>1, <1>9, <1>11, <2>2, FinishUndispatchedType, FinishUndispatchedSound
  <2> QED
    BY <2>1, <2>2
<1> HIDE DEF ok
<1> QED
  BY <1>4, <1>6, <1>8, <1>9, <1>11, <1>12, CommitKeeps

\* The end of a dispatch: the audit row of a sent retry is marked, or the failed send
\* is recorded.
LEMMA DispatchEndKeeps ==
    ASSUME AuditInv, NEW w \in Worker, NEW outcome \in Outcome,
           MarkDispatched(w, outcome) \/ RetryDispatchFailed(w, outcome)
    PROVE  SoundStep
<1> DEFINE d == worker[w]
<1>1. /\ d \in Delivery /\ DeliverySound(d, audit, gate) /\ Dispatching(d)
      /\ d.loaded \in Row /\ d.decision \in Decision /\ d.decision.status \in Status
      /\ AttemptSound(d.attempt, gate) /\ d.attempt \in OnErrorAttempt
      /\ row \in Row /\ audit \in Seq(Attempt) /\ AuditedUpTo(row.retries, audit, gate)
  BY InvFacts DEF MarkDispatched, RetryDispatchFailed, Dispatching, Delivery, Decision
<1>2. CASE MarkDispatched(w, outcome)
  <2> DEFINE n        == ClaimNumber(d)
             newAudit == MarkTaskAttemptDispatched(audit, n)
             e        == [d EXCEPT !.noResult = TRUE]
             ok       == Finish(e, d.decision.status)
  <2>1. CASE ClaimedRows(audit, n) = {}
    <3>1. Become(w, Retry(d)) /\ UNCHANGED <<row, audit, queue, gate, sent, faults>>
      BY <1>2, <2>1 DEF MarkDispatched
    <3>2. Retry(d) \in Delivery /\ DeliverySound(Retry(d), audit, gate)
      BY <1>1, RetryType, RetrySound
    <3> QED
      BY <3>1, <3>2, InvFacts, LocalStepKeeps
  <2>2. CASE ClaimedRows(audit, n) # {}
    <3>1. Commit(w, outcome, row, newAudit, ok, d)
      BY <1>2, <2>2 DEF MarkDispatched
    <3> HIDE DEF n
    <3>2. newAudit \in Seq(Attempt) /\ OnlyGrows(audit, newAudit)
      BY <1>1, MarkTaskAttemptDispatchedKeeps
    <3> HIDE DEF newAudit
    <3>3. AuditedUpTo(row.retries, newAudit, gate)
      BY <1>1, <3>2, AuditedUpToKept
    <3>4. e \in Delivery /\ e.attempt = d.attempt
      BY <1>1 DEF Delivery
    <3> HIDE DEF e
    <3>5. ok \in Delivery /\ DeliverySound(ok, newAudit, gate)
      BY <1>1, <3>4, FinishType, FinishSound
    <3> HIDE DEF ok
    <3> QED
      BY <1>1, <3>1, <3>2, <3>3, <3>5, CommitKeeps
  <2> QED
    BY <2>1, <2>2
<1>3. CASE RetryDispatchFailed(w, outcome)
  <2> DEFINE t        == UpdateTaskStatus(d.loaded, "FAILED", "dispatch_error")
             newRow   == Flush(row, d.loaded, t)
             newAudit == RecordTaskAttempt(audit, d.decision.number, "DISPATCH_FAILED")
             memory   == [d.attempt EXCEPT !.status = "FAILED", !.reason = "dispatch_error"]
             e        == [d EXCEPT !.attempt = memory]
             ok       == Finish(e, "FAILED")
  <2>1. Commit(w, outcome, newRow, newAudit, ok, e)
    BY <1>1, <1>3 DEF RetryDispatchFailed, Delivery
  <2>2. "FAILED" \in Status /\ "dispatch_error" \in Reason
        /\ "DISPATCH_FAILED" \in DispatchResult
    BY DEF Status, Reason, DispatchResult
  <2>3. t \in Row /\ t.retries = d.loaded.retries
    BY <1>1, <2>2, UpdateTaskStatusType
  <2> HIDE DEF t
  <2>4. newRow \in Row /\ newRow.retries = row.retries
    BY <1>1, <2>3, FlushType
  <2> HIDE DEF newRow
  <2>5. newAudit \in Seq(Attempt) /\ OnlyGrows(audit, newAudit)
    BY <1>1, <2>2, RecordTaskAttemptKeeps DEF DeliverySound, DispatchAllowed
  <2> HIDE DEF newAudit
  <2>6. AuditedUpTo(newRow.retries, newAudit, gate)
    BY <1>1, <2>4, <2>5, AuditedUpToKept
  <2>7. memory \in OnErrorAttempt /\ AttemptSound(memory, gate)
    BY <1>1, <2>2 DEF OnErrorAttempt, AttemptSound
  <2> HIDE DEF memory
  <2>8. e \in Delivery /\ e.attempt = memory
    BY <1>1, <2>7 DEF Delivery
  <2> HIDE DEF e
  <2>9. ok \in Delivery /\ DeliverySound(ok, newAudit, gate)
    BY <2>2, <2>7, <2>8, FinishType, FinishSound
  <2> HIDE DEF ok
  <2> QED
    BY <2>1, <2>4, <2>5, <2>6, <2>7, <2>8, <2>9, CommitKeeps
<1> QED
  BY <1>2, <1>3

(***************************************************************************)
(* The invariant and its consequences                                      *)
(***************************************************************************)

\* Nothing is sent, audited or remembered at the start.
LEMMA InitAudit == Init => AuditInv
<1> SUFFICES ASSUME Init PROVE AuditInv
  OBVIOUS
<1>1. row \in Row /\ row.retries = 0
  <2>1. NewRow.retries = 0 /\ NoRow.retries = 0
    BY DEF NewRow, NoRow
  <2> QED
    BY <2>1, NeutralRecords DEF Init, Fresh
<1>2. audit \in Seq(Attempt) /\ queue \in Nat /\ gate \in Gate
  BY GatesAssumption DEF Init, Fresh
<1>3. worker \in [Worker -> Delivery] /\ \A w \in Worker : worker[w] = Idle
  BY NeutralRecords DEF Init, Fresh
<1>4. sent \in [Number -> Nat] /\ \A n \in Number : sent[n] = 0
  BY DEF Init, Fresh
<1>5. faults \in FaultCounts
  BY DEF Init, Fresh
<1>6. TypeOK
  BY <1>1, <1>2, <1>3, <1>4, <1>5 DEF TypeOK
<1>7. EveryRetryAudited
  BY <1>1 DEF EveryRetryAudited, AuditedUpTo
<1>8. \A w \in Worker : DeliverySound(worker[w], audit, gate)
  BY <1>3, IdleSound
<1>9. WriteAheadAudit
  BY <1>4 DEF WriteAheadAudit
<1> QED
  BY <1>6, <1>7, <1>8, <1>9 DEF AuditInv

\* Every action of Next keeps the invariant.
LEMMA NextKeepsAudit == AuditInv /\ [Next]_vars => SoundStep
<1> SUFFICES ASSUME AuditInv, [Next]_vars PROVE SoundStep
  OBVIOUS
<1>1. CASE UNCHANGED vars
  <2>1. audit' = audit /\ OnlyGrows(audit, audit)
    BY <1>1, OnlyGrowsReflexive DEF vars, AuditInv, TypeOK
  <2> QED
    BY <1>1, <2>1 DEF vars, AuditInv, TypeOK, EveryRetryAudited, WriteAheadAudit, SoundStep
<1>2. CASE Next
  <2>1. PICK w \in Worker : Receive(w) \/ Step(w) \/ Crash(w) \/ ChannelLost(w)
    BY <1>2 DEF Next
  <2>2. CASE Receive(w) \/ RunTask(w) \/ SaveAndAck(w) \/ Crash(w)
             \/ ChannelLost(w) \/ GiveBack(w)
    BY <2>2, ReceiverKeeps
  <2>3. CASE LoadFails(w) \/ UnretriedError(w) \/ Load(w) \/ PostExecuteSkips(w)
             \/ Emit(w)
    <3>1. "committed" \in Outcome
      BY DEF Outcome
    <3> QED
      BY <2>3, <3>1, HooksKeep
  <2>4. CASE OnErrorLoad(w)
    BY <2>4, OnErrorLoadKeeps
  <2>5. CASE RecoverDispatch(w) \/ RequeueSent(w) \/ RequeueRefused(w)
             \/ RequeueUnconfirmed(w)
    BY <2>5, DispatchKeeps
  <2>6. CASE \E outcome \in Outcome :
                \/ PreExecute(w, outcome)
                \/ RecordErrorStatus(w, outcome)
                \/ MarkDispatched(w, outcome)
                \/ RetryDispatchFailed(w, outcome)
                \/ PostExecute(w, outcome)
    BY <2>6, HooksKeep, RecordErrorStatusKeeps, DispatchEndKeeps
  <2> QED
    BY <2>1, <2>2, <2>3, <2>4, <2>5, <2>6 DEF Step, Work
<1> QED
  BY <1>1, <1>2

\* The strengthening of the audit properties is an invariant of the specification.
THEOREM AuditInvariant == Spec => []AuditInv
<1>1. AuditInv /\ [Next]_vars => AuditInv'
  BY NextKeepsAudit DEF SoundStep
<1> QED
  BY <1>1, InitAudit, PTL DEF Spec

\* Whatever interleaves or fails, every variable keeps its type: retry_count never
\* exceeds max_retries although two deliveries may count on the same snapshot.
THEOREM TypeCorrect == Spec => []TypeOK
<1>1. AuditInv => TypeOK
  BY DEF AuditInv
<1> QED
  BY <1>1, AuditInvariant, PTL

\* Every retry in the broker was claimed in the audit table first (the commit before
\* _requeue), for any number of deliveries, failures and replays.
THEOREM WriteAhead == Spec => []WriteAheadAudit
<1>1. AuditInv => WriteAheadAudit
  BY DEF AuditInv
<1> QED
  BY <1>1, AuditInvariant, PTL

\* The four "missing retry audit row" errors of state_tracking.py are never raised.
THEOREM RowAlwaysFound == Spec => []AuditRowFound
<1>1. AuditInv => AuditRowFound
  BY DEF AuditInv, DeliverySound, AuditRowFound
<1> QED
  BY <1>1, AuditInvariant, PTL

\* Every retry that retry_count counts has its decision row.
THEOREM RetriesAudited == Spec => []EveryRetryAudited
<1>1. AuditInv => EveryRetryAudited
  BY DEF AuditInv
<1> QED
  BY <1>1, AuditInvariant, PTL

\* No step withdraws or rewrites an audit row, except PENDING to DISPATCHED.
THEOREM AppendOnly == Spec => AuditAppendOnly
<1>1. AuditInv /\ [Next]_vars => [OnlyGrows(audit, audit')]_vars
  BY NextKeepsAudit DEF SoundStep
<1> QED
  BY <1>1, AuditInvariant, PTL DEF Spec, AuditAppendOnly

(***************************************************************************)
(* The steps field by field: d is the delivery before the step, e after it *)
(***************************************************************************)

\* The deliveries but w stay as they are.
Others(w) == \A v \in Worker : v # w => worker'[v] = worker[v]

\* What a hook does not change.
Within(d, e) == e.hook = d.hook /\ e.held = d.held /\ e.failed = d.failed

Marks(d, e) == e.noResult = d.noResult /\ e.shadow = d.shadow

Memory(d, e) == e.attempt = d.attempt /\ e.counted = d.counted

Steady(d, e) == Within(d, e) /\ Marks(d, e) /\ Memory(d, e) /\ e.resent = d.resent

\* A commit of the row and the audit table.
Commits(outcome, newRow, newAudit) ==
    /\ row'   = IF outcome = "rolled_back" THEN row ELSE newRow
    /\ audit' = IF outcome = "rolled_back" THEN audit ELSE newAudit
    /\ IF outcome = "committed" THEN faults' = faults
                                ELSE faults' = [faults EXCEPT !.db = @ + 1]
    /\ UNCHANGED <<queue, sent>>

\* Committed, the delivery leaves its session; else it runs the hook again or is stuck.
Leaves(outcome, e, pcs) ==
    IF outcome = "committed" THEN e.pc \in pcs ELSE e.pc \in {"load", "stuck"}

Received(d, e) ==
    /\ d.pc = "idle" /\ queue > 0 /\ queue' = queue - 1
    /\ e.pc = "load" /\ e.hook = "pre" /\ e.held /\ ~ e.failed /\ ~ e.noResult /\ ~ e.shadow
    /\ e.attempt = NoAttempt /\ e.counted = 0 /\ e.resent = 0
    /\ UNCHANGED <<row, audit, sent, faults>>

Ran(d, e) ==
    /\ d.pc = "run" /\ e.pc = "load"
    /\ e.hook = IF e.failed THEN "error" ELSE "post"
    /\ e.held = d.held /\ Marks(d, e)
    /\ e.attempt = NoAttempt /\ e.counted = d.counted /\ e.resent = d.resent
    /\ UNCHANGED <<row, audit, queue, sent, faults>>

Saved(d, e) == d.pc = "save" /\ e = Idle /\ UNCHANGED <<row, audit, queue, sent, faults>>

\* GiveBack, and Crash.
WasReturned(d, e) ==
    /\ d.pc # "idle" /\ e = Idle
    /\ queue' = IF d.held THEN queue + 1 ELSE queue
    /\ IF d.pc = "stuck" THEN faults' = faults ELSE faults' = [faults EXCEPT !.crash = @ + 1]
    /\ UNCHANGED <<row, audit, sent>>

LostChannel(d, e) ==
    /\ d.pc # "idle" /\ d.held /\ e = [d EXCEPT !.held = FALSE]
    /\ queue' = queue + 1 /\ faults' = [faults EXCEPT !.channel = @ + 1]
    /\ UNCHANGED <<row, audit, sent>>

\* LoadFails, and UnretriedError.
SessionFailed(d, e) ==
    /\ d.pc \in {"load", "lookup", "write", "mark", "undispatched"}
    /\ ~ (d.hook = "post" /\ (d.noResult \/ d.shadow))
    /\ Steady(d, e) /\ e.pc \in {"load", "stuck"}
    /\ faults' = [faults EXCEPT !.db = @ + 1]
    /\ UNCHANGED <<row, audit, queue, sent>>

Loaded(d, e) ==
    /\ d.pc = "load" /\ d.hook \in {"pre", "post"} /\ ~ d.noResult /\ ~ d.shadow
    /\ Steady(d, e) /\ e.pc = "write" /\ e.loaded = row
    /\ UNCHANGED <<row, audit, queue, sent, faults>>

\* OnErrorLoad.
Decided(d, e) ==
    LET dec == ResolveRetryDecision(row, d.attempt, gate)
    IN  /\ d.pc = "load" /\ d.hook = "error"
        /\ Within(d, e) /\ Memory(d, e) /\ e.resent = d.resent /\ e.noResult = d.noResult
        /\ IF ~ dec.recorded \/ dec.allowed
           THEN /\ e.pc = IF dec.recorded THEN "lookup" ELSE "write"
                /\ e.shadow = d.shadow /\ e.loaded = row /\ e.decision = dec
           ELSE /\ e.pc = "emit" /\ e.event = dec.status
                /\ e.shadow = (d.shadow \/ dec.shadowed)
        /\ UNCHANGED <<row, audit, queue, sent, faults>>

\* RecoverDispatch, which finds its audit row.
Recovered(d, e) ==
    /\ d.pc = "lookup" /\ d.hook = "error" /\ Steady(d, e)
    /\ e.loaded = d.loaded /\ e.decision = d.decision
    /\ \/ DispatchState(audit, ClaimNumber(d)) = "PENDING" /\ e.pc = "requeue"
       \/ DispatchState(audit, ClaimNumber(d)) = "DISPATCHED" /\ e.pc = "mark"
    /\ UNCHANGED <<row, audit, queue, sent, faults>>

\* RequeueSent, and RequeueUnconfirmed.
WasSent(d, e) ==
    /\ d.pc = "requeue" /\ Within(d, e) /\ Marks(d, e) /\ Memory(d, e)
    /\ e.loaded = d.loaded /\ e.decision = d.decision
    /\ queue' = queue + 1 /\ sent' = [sent EXCEPT ![ClaimNumber(d)] = @ + 1]
    /\ \/ e.pc = "mark" /\ e.resent = d.resent + 1 /\ faults' = faults
       \/ /\ e.pc = "undispatched" /\ e.resent = d.resent
          /\ faults' = [faults EXCEPT !.unconfirmed = @ + 1]
    /\ UNCHANGED <<row, audit>>

\* RequeueRefused.
WasRefused(d, e) ==
    /\ d.pc = "requeue" /\ Steady(d, e) /\ e.pc = "undispatched"
    /\ e.loaded = d.loaded /\ e.decision = d.decision
    /\ faults' = [faults EXCEPT !.send = @ + 1]
    /\ UNCHANGED <<row, audit, queue, sent>>

\* PreExecute, and PostExecute.
Wrote(d, e, outcome) ==
    LET status == IF d.hook = "pre" THEN "RUNNING"
                  ELSE IF d.failed THEN "FAILED" ELSE "COMPLETED"
        reason == IF d.hook = "pre" THEN "started"
                  ELSE IF d.failed THEN "failed" ELSE "completed"
        t == UpdateTaskStatus(d.loaded, status, reason)
    IN  /\ d.pc = "write" /\ d.hook \in {"pre", "post"}
        /\ Steady(d, e) /\ Leaves(outcome, e, {"emit"})
        /\ Commits(outcome, Flush(row, d.loaded, t), audit)

\* RecordErrorStatus.
Recorded(d, e, outcome) ==
    LET dec == d.decision
        t == UpdateTaskStatus(d.loaded, dec.status, dec.reason)
        newRow == Flush(row, d.loaded, t)
    IN  /\ d.pc = "write" /\ d.hook = "error"
        /\ Within(d, e) /\ e.noResult = d.noResult /\ e.resent = d.resent
        /\ e.shadow = (d.shadow \/ (outcome = "committed" /\ ~ dec.allowed /\ dec.shadowed))
        /\ e.attempt = Remember(d, t)
        /\ e.counted = d.counted + IF dec.status = "RETRYING" /\ outcome # "rolled_back"
                                   THEN 1 ELSE 0
        /\ IF dec.allowed
           THEN /\ Leaves(outcome, e, {"requeue"})
                /\ outcome = "committed" => e.loaded = newRow /\ e.decision = dec
           ELSE Leaves(outcome, e, {"emit"})
        /\ Commits(outcome, newRow, AuditDecision(audit, dec))

\* MarkDispatched, which finds its audit row.
Marked(d, e, outcome) ==
    /\ d.pc = "mark" /\ Within(d, e) /\ Memory(d, e) /\ e.resent = d.resent
    /\ e.shadow = d.shadow /\ e.noResult = (d.noResult \/ outcome = "committed")
    /\ Leaves(outcome, e, {"emit"})
    /\ Commits(outcome, row, MarkTaskAttemptDispatched(audit, ClaimNumber(d)))

\* RetryDispatchFailed.
GaveUp(d, e, outcome) ==
    LET t == UpdateTaskStatus(d.loaded, "FAILED", "dispatch_error")
    IN  /\ d.pc = "undispatched" /\ Within(d, e) /\ Marks(d, e) /\ e.resent = d.resent
        /\ e.counted = d.counted
        /\ e.attempt = [d.attempt EXCEPT !.status = "FAILED", !.reason = "dispatch_error"]
        /\ Leaves(outcome, e, {"emit"})
        /\ Commits(outcome, Flush(row, d.loaded, t),
                   RecordTaskAttempt(audit, d.decision.number, "DISPATCH_FAILED"))

\* PostExecuteSkips.
Skipped(d, e) ==
    /\ d.pc = "load" /\ d.hook = "post" /\ (d.noResult \/ d.shadow)
    /\ Steady(d, e) /\ e.pc = "save"
    /\ UNCHANGED <<row, audit, queue, sent, faults>>

Emitted(d, e) ==
    /\ d.pc = "emit" /\ e.held = d.held /\ e.failed = d.failed /\ Marks(d, e)
    /\ e.counted = d.counted /\ e.resent = d.resent
    /\ \/ d.hook = "pre" /\ e.pc = "run" /\ e.hook = "pre" /\ e.attempt = d.attempt
       \/ d.hook = "error" /\ e.pc = "load" /\ e.hook = "post" /\ e.attempt = NoAttempt
       \/ d.hook = "post" /\ e.pc = "save" /\ e.hook = "post" /\ e.attempt = d.attempt
    /\ UNCHANGED <<row, audit, queue, sent, faults>>

Goes(d, e) ==
    \/ Received(d, e) \/ Ran(d, e) \/ Saved(d, e) \/ WasReturned(d, e) \/ LostChannel(d, e)
    \/ SessionFailed(d, e) \/ Loaded(d, e) \/ Decided(d, e) \/ Recovered(d, e)
    \/ WasSent(d, e) \/ WasRefused(d, e) \/ Skipped(d, e) \/ Emitted(d, e)
    \/ \E outcome \in Outcome : \/ Wrote(d, e, outcome) \/ Recorded(d, e, outcome)
                                \/ Marked(d, e, outcome) \/ GaveUp(d, e, outcome)

LEMMA OneDeliveryMoves ==
    ASSUME worker \in [Worker -> Delivery], NEW w \in Worker, NEW e, Become(w, e)
    PROVE  worker'[w] = e /\ Others(w)
BY DEF Become, Others

LEMMA ReplayFields ==
    ASSUME NEW d \in Delivery
    PROVE  /\ Steady(d, Retry(d)) /\ Retry(d).pc \in {"load", "stuck"}
           /\ Steady(d, Raise(d)) /\ Raise(d).pc = "stuck"
<1>1. Steady(d, Raise(d)) /\ Raise(d).pc = "stuck"
  BY DEF Raise, Delivery, Steady, Within, Marks, Memory
<1>2. CASE d.tries < DbAttempts
  <2> DEFINE more == d.tries + 1
             e == [d EXCEPT !.pc = "load", !.tries = more,
                            !.loaded = NoRow, !.decision = NoDecision]
  <2>1. Retry(d) = e
    BY <1>2 DEF Retry, Delivery
  <2> HIDE DEF more
  <2>2. Steady(d, e) /\ e.pc = "load"
    BY DEF Delivery, Steady, Within, Marks, Memory
  <2> QED
    BY <1>1, <2>1, <2>2
<1>3. CASE ~ (d.tries < DbAttempts)
  BY <1>1, <1>3 DEF Retry
<1> QED
  BY <1>2, <1>3

LEMMA FinishSteady ==
    ASSUME NEW d \in Delivery, NEW status \in Status
    PROVE  /\ Steady(d, Finish(d, status))
           /\ Finish(d, status).pc = "emit" /\ Finish(d, status).event = status
BY DEF Finish, Delivery, Steady, Within, Marks, Memory

\* The commit of a hook: what its delivery becomes, and what it leaves behind.
LEMMA CommitGoes ==
    ASSUME AuditInv, NEW w \in Worker, NEW outcome \in Outcome, NEW newRow, NEW newAudit,
           NEW ok, NEW ko \in Delivery, Commit(w, outcome, newRow, newAudit, ok, ko)
    PROVE  /\ Others(w) /\ Commits(outcome, newRow, newAudit)
           /\ IF outcome = "committed"
              THEN worker'[w] = ok
              ELSE worker'[w].pc \in {"load", "stuck"} /\ Steady(ko, worker'[w])
<1>1. worker \in [Worker -> Delivery]
  BY DEF AuditInv, TypeOK
<1>2. Commits(outcome, newRow, newAudit)
  BY DEF Commit, Commits
<1>3. Become(w, IF outcome = "committed" THEN ok ELSE Retry(ko))
  BY DEF Commit
<1> QED
  BY <1>1, <1>2, <1>3, OneDeliveryMoves, ReplayFields

LEMMA ReceiverGoes ==
    ASSUME AuditInv, NEW w \in Worker,
           \/ Receive(w) \/ RunTask(w) \/ SaveAndAck(w) \/ GiveBack(w) \/ Crash(w)
           \/ ChannelLost(w)
    PROVE  Others(w) /\ Goes(worker[w], worker'[w])
<1> DEFINE d == worker[w]
           e == worker'[w]
<1>1. worker \in [Worker -> Delivery] /\ d \in Delivery
  BY InvFacts DEF AuditInv, TypeOK
<1>2. CASE Receive(w)
  <2> DEFINE f == [Idle EXCEPT !.held = TRUE]
  <2>1. /\ e = Enter(f, "pre") /\ Others(w) /\ d.pc = "idle" /\ queue > 0
        /\ queue' = queue - 1 /\ UNCHANGED <<row, audit, sent, faults>>
    BY <1>1, <1>2, OneDeliveryMoves DEF Receive
  <2>2. LET g == Enter(f, "pre")
        IN  /\ g.pc = "load" /\ g.hook = "pre" /\ g.held /\ ~ g.failed /\ ~ g.noResult
            /\ ~ g.shadow /\ g.attempt = NoAttempt /\ g.counted = 0 /\ g.resent = 0
    BY DEF Enter, Idle
  <2> HIDE DEF f
  <2>3. Received(d, e)
    BY <2>1, <2>2 DEF Received
  <2> QED
    BY <2>1, <2>3 DEF Goes
<1>3. CASE RunTask(w)
  <2>1. PICK erred \in BOOLEAN :
          Become(w, Enter([d EXCEPT !.failed = erred], IF erred THEN "error" ELSE "post"))
    BY <1>3 DEF RunTask
  <2> DEFINE f == [d EXCEPT !.failed = erred]
             hook == IF erred THEN "error" ELSE "post"
  <2>2. /\ f \in Delivery /\ f.failed = erred /\ f.held = d.held /\ Marks(d, f)
        /\ f.counted = d.counted /\ f.resent = d.resent
    BY <1>1 DEF Delivery, Marks
  <2> HIDE DEF f
  <2>3. LET g == Enter(f, hook)
        IN  /\ g.pc = "load" /\ g.hook = hook /\ g.held = f.held /\ Marks(f, g)
            /\ g.failed = f.failed /\ g.attempt = NoAttempt
            /\ g.counted = f.counted /\ g.resent = f.resent
    BY <2>2 DEF Enter, Delivery, Marks
  <2>4. e = Enter(f, hook) /\ Others(w)
    BY <1>1, <2>1, OneDeliveryMoves DEF f
  <2>5. d.pc = "run" /\ UNCHANGED <<row, audit, queue, sent, faults>>
    BY <1>3 DEF RunTask
  <2>6. Ran(d, e)
    BY <2>2, <2>3, <2>4, <2>5 DEF Ran, Marks
  <2> QED
    BY <2>4, <2>6 DEF Goes
<1>4. CASE SaveAndAck(w)
  BY <1>1, <1>4, OneDeliveryMoves DEF SaveAndAck, Goes, Saved
<1>5. CASE GiveBack(w) \/ Crash(w)
  <2>1. e = Idle /\ Others(w)
    BY <1>1, <1>5, OneDeliveryMoves DEF GiveBack, Crash
  <2>2. WasReturned(d, e)
    BY <1>5, <2>1 DEF GiveBack, Crash, WasReturned, Returned
  <2> QED
    BY <2>1, <2>2 DEF Goes
<1>6. CASE ChannelLost(w)
  <2>1. e = [d EXCEPT !.held = FALSE] /\ Others(w)
    BY <1>1, <1>6, OneDeliveryMoves DEF ChannelLost
  <2>2. LostChannel(d, e)
    BY <1>6, <2>1 DEF ChannelLost, LostChannel, Returned
  <2> QED
    BY <2>1, <2>2 DEF Goes
<1> QED
  BY <1>2, <1>3, <1>4, <1>5, <1>6

LEMMA SessionGoes ==
    ASSUME AuditInv, NEW w \in Worker,
           \/ LoadFails(w) \/ UnretriedError(w) \/ Load(w) \/ OnErrorLoad(w)
           \/ RecoverDispatch(w) \/ PostExecuteSkips(w) \/ Emit(w)
    PROVE  Others(w) /\ Goes(worker[w], worker'[w])
<1> DEFINE d == worker[w]
           e == worker'[w]
<1>1. /\ worker \in [Worker -> Delivery] /\ d \in Delivery
      /\ row \in Row /\ gate \in Gate /\ d.attempt \in OnErrorAttempt
  BY InvFacts DEF AuditInv, TypeOK, Delivery
<1>2. CASE LoadFails(w) \/ UnretriedError(w)
  <2>1. (e = Retry(d) \/ e = Raise(d)) /\ Others(w)
    BY <1>1, <1>2, OneDeliveryMoves DEF LoadFails, UnretriedError
  <2>2. SessionFailed(d, e)
    BY <1>1, <1>2, <2>1, ReplayFields DEF LoadFails, UnretriedError, SessionFailed
  <2> QED
    BY <2>1, <2>2 DEF Goes
<1>3. CASE Load(w)
  <2>1. e = [d EXCEPT !.pc = "write", !.loaded = row] /\ Others(w)
    BY <1>1, <1>3, OneDeliveryMoves DEF Load
  <2>2. Steady(d, e) /\ e.pc = "write" /\ e.loaded = row
    BY <1>1, <2>1 DEF Delivery, Steady, Within, Marks, Memory
  <2>3. Loaded(d, e)
    BY <1>3, <2>2 DEF Load, At, Loaded
  <2> QED
    BY <2>1, <2>3 DEF Goes
<1>4. CASE OnErrorLoad(w)
  <2> DEFINE dec == ResolveRetryDecision(row, d.attempt, gate)
             at(pc) == [d EXCEPT !.pc = pc, !.loaded = row, !.decision = dec]
  <2>1. dec \in Decision
    BY <1>1, ResolveRetryDecisionType
  <2>2. /\ d.pc = "load" /\ d.hook = "error" /\ Others(w)
        /\ e = IF ~ dec.recorded THEN at("write")
               ELSE IF dec.allowed THEN at("lookup") ELSE FinishUndispatched(d, dec)
    BY <1>1, <1>4, OneDeliveryMoves DEF OnErrorLoad, At
  <2>3. UNCHANGED <<row, audit, queue, sent, faults>>
    BY <1>4 DEF OnErrorLoad
  <2> HIDE DEF dec
  <2>4. ASSUME NEW pc
        PROVE  /\ Steady(d, at(pc))
               /\ at(pc).pc = pc /\ at(pc).loaded = row /\ at(pc).decision = dec
    BY <1>1 DEF Delivery, Steady, Within, Marks, Memory
  <2>5. LET f == FinishUndispatched(d, dec)
        IN  /\ Within(d, f) /\ Memory(d, f) /\ f.resent = d.resent
            /\ f.noResult = d.noResult /\ f.shadow = (d.shadow \/ dec.shadowed)
            /\ f.pc = "emit" /\ f.event = dec.status
    BY <1>1, <2>1 DEF FinishUndispatched, Finish, Delivery, Within, Memory, Decision
  <2> HIDE DEF at
  <2>6. Decided(d, e)
    <3>1. CASE ~ dec.recorded
      BY <2>2, <2>3, <2>4, <3>1 DEF Decided, Steady, Marks, dec
    <3>2. CASE dec.recorded /\ dec.allowed
      BY <2>2, <2>3, <2>4, <3>2 DEF Decided, Steady, Marks, dec
    <3>3. CASE dec.recorded /\ ~ dec.allowed
      BY <2>2, <2>3, <2>5, <3>3 DEF Decided, dec
    <3> QED
      BY <3>1, <3>2, <3>3
  <2> QED
    BY <2>2, <2>6 DEF Goes
<1>5. CASE RecoverDispatch(w)
  <2> DEFINE state == DispatchState(audit, ClaimNumber(d))
  <2>1. /\ d.pc = "lookup" /\ d.hook = "error" /\ Others(w)
        /\ e = IF state = "PENDING" THEN [d EXCEPT !.pc = "requeue"]
               ELSE IF state = "DISPATCHED" THEN [d EXCEPT !.pc = "mark"] ELSE Retry(d)
    BY <1>1, <1>5, OneDeliveryMoves DEF RecoverDispatch, At
  <2>2. state \in {"PENDING", "DISPATCHED"}
    <3>1. ClaimedRows(audit, ClaimNumber(d)) # {}
      BY <2>1, InvFacts DEF DeliverySound, ClaimKnown, Dispatching
    <3>2. audit \in Seq(Attempt)
      BY InvFacts
    <3> QED
      BY <3>1, <3>2, DispatchStateKnown
  <2>3. ASSUME NEW pc
        PROVE  LET f == [d EXCEPT !.pc = pc]
               IN  f.pc = pc /\ Steady(d, f) /\ f.loaded = d.loaded /\ f.decision = d.decision
    BY <1>1 DEF Delivery, Steady, Within, Marks, Memory
  <2>4. Recovered(d, e)
    BY <1>5, <2>1, <2>2, <2>3 DEF Recovered, RecoverDispatch
  <2> QED
    BY <2>1, <2>4 DEF Goes
<1>6. CASE PostExecuteSkips(w)
  <2>1. e = [d EXCEPT !.pc = "save"] /\ Others(w)
    BY <1>1, <1>6, OneDeliveryMoves DEF PostExecuteSkips
  <2>2. Steady(d, e) /\ e.pc = "save"
    BY <1>1, <2>1 DEF Delivery, Steady, Within, Marks, Memory
  <2>3. Skipped(d, e)
    BY <1>6, <2>2 DEF PostExecuteSkips, At, Skipped
  <2> QED
    BY <2>1, <2>3 DEF Goes
<1>7. CASE Emit(w)
  <2> DEFINE f == [d EXCEPT !.event = "PENDING"]
             g == CASE f.hook = "pre"   -> [f EXCEPT !.pc = "run"]
                    [] f.hook = "error" -> Enter(f, "post")
                    [] f.hook = "post"  -> [f EXCEPT !.pc = "save"]
  <2>1. e = g /\ Others(w) /\ d.pc = "emit" /\ UNCHANGED <<row, audit, queue, sent, faults>>
    BY <1>1, <1>7, OneDeliveryMoves DEF Emit
  <2>2. f \in Delivery /\ Steady(d, f) /\ f.hook \in {"pre", "error", "post"}
    BY <1>1 DEF Delivery, Status, Hook, Steady, Within, Marks, Memory
  <2>3. g.held = f.held /\ g.failed = f.failed /\ Marks(f, g)
    <3> HIDE DEF f
    <3> QED
      BY <2>2 DEF Enter, Delivery, Marks
  <2>4. /\ g.counted = f.counted /\ g.resent = f.resent
        /\ \/ f.hook = "pre" /\ g.pc = "run" /\ g.hook = "pre" /\ g.attempt = f.attempt
           \/ f.hook = "error" /\ g.pc = "load" /\ g.hook = "post" /\ g.attempt = NoAttempt
           \/ f.hook = "post" /\ g.pc = "save" /\ g.hook = "post" /\ g.attempt = f.attempt
    <3> HIDE DEF f
    <3> QED
      BY <2>2 DEF Enter, Delivery
  <2> HIDE DEF f, g
  <2>5. Emitted(d, e)
    BY <2>1, <2>2, <2>3, <2>4 DEF Emitted, Steady, Within, Marks, Memory
  <2> QED
    BY <2>1, <2>5 DEF Goes
<1> QED
  BY <1>2, <1>3, <1>4, <1>5, <1>6, <1>7

LEMMA DispatchGoes ==
    ASSUME AuditInv, NEW w \in Worker,
           RequeueSent(w) \/ RequeueRefused(w) \/ RequeueUnconfirmed(w)
    PROVE  Others(w) /\ Goes(worker[w], worker'[w])
<1> DEFINE d == worker[w]
           e == worker'[w]
           more == d.resent + 1
           mark == [d EXCEPT !.pc = "mark", !.resent = more]
           undispatched == [d EXCEPT !.pc = "undispatched"]
<1>1. worker \in [Worker -> Delivery] /\ d \in Delivery
  BY InvFacts DEF AuditInv, TypeOK
<1>2. /\ mark.pc = "mark" /\ mark.resent = more /\ Within(d, mark) /\ Marks(d, mark)
      /\ Memory(d, mark) /\ mark.loaded = d.loaded /\ mark.decision = d.decision
  <2> HIDE DEF more
  <2> QED
    BY <1>1 DEF Delivery, Within, Marks, Memory
<1>3. /\ undispatched.pc = "undispatched" /\ Steady(d, undispatched)
      /\ undispatched.loaded = d.loaded /\ undispatched.decision = d.decision
  BY <1>1 DEF Delivery, Steady, Within, Marks, Memory
<1>4. CASE RequeueSent(w)
  <2>1. Become(w, mark)
    BY <1>1, <1>4 DEF RequeueSent, Delivery
  <2>2. e = mark /\ Others(w)
    BY <1>1, <2>1, OneDeliveryMoves
  <2> HIDE DEF mark
  <2>3. WasSent(d, e)
    BY <1>2, <1>4, <2>2 DEF RequeueSent, WasSent
  <2> QED
    BY <2>2, <2>3 DEF Goes
<1>5. CASE RequeueUnconfirmed(w)
  <2>1. e = undispatched /\ Others(w)
    BY <1>1, <1>5, OneDeliveryMoves DEF RequeueUnconfirmed
  <2> HIDE DEF undispatched
  <2>2. WasSent(d, e)
    BY <1>3, <1>5, <2>1 DEF RequeueUnconfirmed, WasSent, Steady
  <2> QED
    BY <2>1, <2>2 DEF Goes
<1>6. CASE RequeueRefused(w)
  <2>1. e = undispatched /\ Others(w)
    BY <1>1, <1>6, OneDeliveryMoves DEF RequeueRefused
  <2> HIDE DEF undispatched
  <2>2. WasRefused(d, e)
    BY <1>3, <1>6, <2>1 DEF RequeueRefused, WasRefused
  <2> QED
    BY <2>1, <2>2 DEF Goes
<1> QED
  BY <1>4, <1>5, <1>6

LEMMA WrittenGoes ==
    ASSUME AuditInv, NEW w \in Worker, NEW outcome \in Outcome,
           PreExecute(w, outcome) \/ PostExecute(w, outcome)
    PROVE  Others(w) /\ Wrote(worker[w], worker'[w], outcome)
<1> DEFINE d == worker[w]
           e == worker'[w]
           status == IF d.hook = "pre" THEN "RUNNING"
                     ELSE IF d.failed THEN "FAILED" ELSE "COMPLETED"
           reason == IF d.hook = "pre" THEN "started"
                     ELSE IF d.failed THEN "failed" ELSE "completed"
           newRow == Flush(row, d.loaded, UpdateTaskStatus(d.loaded, status, reason))
<1>1. d \in Delivery
  BY InvFacts
<1>2. d.pc = "write" /\ d.hook \in {"pre", "post"}
  BY DEF PreExecute, PostExecute, At
<1>3. SetStatus(w, outcome, status, reason)
  BY DEF PreExecute, PostExecute, At
<1>4. status \in Status
  BY DEF Status
<1> HIDE DEF status, reason
<1>5. Commit(w, outcome, newRow, audit, Finish(d, status), d)
  BY <1>3 DEF SetStatus
<1> HIDE DEF newRow
<1>6. /\ Others(w) /\ Commits(outcome, newRow, audit)
      /\ IF outcome = "committed"
         THEN e = Finish(d, status)
         ELSE e.pc \in {"load", "stuck"} /\ Steady(d, e)
  BY <1>1, <1>5, CommitGoes
<1>7. Steady(d, e) /\ Leaves(outcome, e, {"emit"})
  BY <1>1, <1>4, <1>6, FinishSteady DEF Leaves
<1> QED
  BY <1>2, <1>6, <1>7 DEF Wrote, status, reason, newRow

LEMMA MarkedGoes ==
    ASSUME AuditInv, NEW w \in Worker, NEW outcome \in Outcome, MarkDispatched(w, outcome)
    PROVE  Others(w) /\ Marked(worker[w], worker'[w], outcome)
<1> DEFINE d == worker[w]
           e == worker'[w]
           n == ClaimNumber(d)
           f == [d EXCEPT !.noResult = TRUE]
           newAudit == MarkTaskAttemptDispatched(audit, n)
<1>1. d \in Delivery /\ DeliverySound(d, audit, gate) /\ d.pc = "mark"
  BY InvFacts DEF MarkDispatched
<1>2. ClaimedRows(audit, n) # {} /\ d.decision.status \in Status
  BY <1>1 DEF DeliverySound, ClaimKnown, Dispatching, Delivery, Decision
<1>3. Commit(w, outcome, row, newAudit, Finish(f, d.decision.status), d)
  BY <1>2 DEF MarkDispatched
<1>4. /\ f \in Delivery /\ Within(d, f) /\ Memory(d, f) /\ f.resent = d.resent
      /\ f.shadow = d.shadow /\ f.noResult = TRUE /\ d.noResult \in BOOLEAN
  BY <1>1 DEF Delivery, Within, Memory
<1> HIDE DEF f, newAudit
<1>5. /\ Others(w) /\ Commits(outcome, row, newAudit)
      /\ IF outcome = "committed"
         THEN e = Finish(f, d.decision.status)
         ELSE e.pc \in {"load", "stuck"} /\ Steady(d, e)
  BY <1>1, <1>3, CommitGoes
<1>6. CASE outcome = "committed"
  <2>1. Steady(f, e) /\ e.pc = "emit"
    BY <1>2, <1>4, <1>5, <1>6, FinishSteady
  <2> QED
    BY <1>1, <1>4, <1>5, <1>6, <2>1
    DEF Marked, Leaves, Steady, Within, Marks, Memory, newAudit
<1>7. CASE outcome # "committed"
  BY <1>1, <1>4, <1>5, <1>7 DEF Marked, Leaves, Steady, Marks, newAudit
<1> QED
  BY <1>6, <1>7

LEMMA GaveUpGoes ==
    ASSUME AuditInv, NEW w \in Worker, NEW outcome \in Outcome,
           RetryDispatchFailed(w, outcome)
    PROVE  Others(w) /\ GaveUp(worker[w], worker'[w], outcome)
<1> DEFINE d == worker[w]
           e == worker'[w]
           memory == [d.attempt EXCEPT !.status = "FAILED", !.reason = "dispatch_error"]
           f == [d EXCEPT !.attempt = memory]
           newRow == Flush(row, d.loaded,
                           UpdateTaskStatus(d.loaded, "FAILED", "dispatch_error"))
           newAudit == RecordTaskAttempt(audit, d.decision.number, "DISPATCH_FAILED")
<1>1. d \in Delivery /\ d.attempt \in OnErrorAttempt /\ d.pc = "undispatched"
  BY InvFacts DEF RetryDispatchFailed, Delivery
<1>2. Commit(w, outcome, newRow, newAudit, Finish(f, "FAILED"), f)
  BY <1>1 DEF RetryDispatchFailed, Delivery
<1>3. memory \in OnErrorAttempt /\ "FAILED" \in Status
  BY <1>1 DEF OnErrorAttempt, Status, Reason
<1> HIDE DEF memory
<1>4. /\ f \in Delivery /\ Within(d, f) /\ Marks(d, f) /\ f.resent = d.resent
      /\ f.counted = d.counted /\ f.attempt = memory
  BY <1>1, <1>3 DEF Delivery, Within, Marks
<1> HIDE DEF f, newRow, newAudit
<1>5. /\ Others(w) /\ Commits(outcome, newRow, newAudit)
      /\ IF outcome = "committed"
         THEN e = Finish(f, "FAILED")
         ELSE e.pc \in {"load", "stuck"} /\ Steady(f, e)
  BY <1>2, <1>4, CommitGoes
<1>6. Steady(f, e) /\ Leaves(outcome, e, {"emit"})
  BY <1>3, <1>4, <1>5, FinishSteady DEF Leaves
<1> QED
  BY <1>1, <1>4, <1>5, <1>6
  DEF GaveUp, Steady, Within, Marks, Memory, memory, newRow, newAudit

\* What a decision on the row t says, in its parts.
LEMMA DecisionParts ==
    ASSUME AuditInv, NEW w \in Worker, worker[w].pc = "write", worker[w].hook = "error"
    PROVE  LET d == worker[w]
               dec == d.decision
           IN  /\ dec \in Decision /\ ~ dec.recorded
               /\ dec = ResolveRetryDecision(d.loaded, d.attempt, gate)
               /\ dec.number = d.loaded.retries + 1
               /\ dec.should <=> d.loaded.exists /\ d.loaded.retries < MaxRetries
               /\ dec.allowed <=> dec.should /\ gate = "open"
               /\ dec.shadowed <=> dec.should /\ gate = "shadow"
               /\ dec.status = IF dec.allowed \/ dec.shadowed THEN "RETRYING" ELSE "FAILED"
<1> DEFINE d == worker[w]
<1>1. d \in Delivery /\ d.loaded \in Row /\ d.attempt \in OnErrorAttempt /\ gate \in Gate
  BY InvFacts DEF Delivery
<1>2. d.decision = ResolveRetryDecision(d.loaded, d.attempt, gate) /\ ~ d.decision.recorded
  BY InvFacts DEF DeliverySound, DecisionFresh
<1>3. LET r == ResolveRetryDecision(d.loaded, d.attempt, gate)
      IN  /\ r \in Decision
          /\ r.number = d.loaded.retries + 1
          /\ r.should <=> d.loaded.exists /\ d.loaded.retries < MaxRetries
          /\ r.allowed <=> r.should /\ gate = "open"
          /\ r.shadowed <=> r.should /\ gate = "shadow"
          /\ ~ r.recorded =>
               r.status = IF r.allowed \/ r.shadowed THEN "RETRYING" ELSE "FAILED"
  BY <1>1, ResolveRetryDecisionType
<1> QED
  BY <1>2, <1>3

LEMMA RecordedGoes ==
    ASSUME AuditInv, NEW w \in Worker, NEW outcome \in Outcome,
           RecordErrorStatus(w, outcome)
    PROVE  Others(w) /\ Recorded(worker[w], worker'[w], outcome)
<1> DEFINE d      == worker[w]
           e      == worker'[w]
           dec    == d.decision
           t      == UpdateTaskStatus(d.loaded, dec.status, dec.reason)
           newRow == Flush(row, d.loaded, t)
           newAudit == AuditDecision(audit, dec)
           memory   == Remember(d, t)
           counts  == dec.status = "RETRYING" /\ outcome # "rolled_back"
           counted == IF counts THEN d.counted + 1 ELSE d.counted
           f  == [d EXCEPT !.attempt = memory, !.counted = counted]
           ok == IF dec.allowed
                 THEN [f EXCEPT !.pc = "requeue", !.loaded = newRow]
                 ELSE FinishUndispatched(f, dec)
<1>1. /\ d \in Delivery /\ d.counted \in Nat /\ d.pc = "write" /\ d.hook = "error"
      /\ d.loaded \in Row /\ row \in Row /\ d.attempt \in OnErrorAttempt
      /\ d.shadow \in BOOLEAN
  BY InvFacts DEF RecordErrorStatus, At, Delivery
<1>2. /\ dec \in Decision /\ dec.status \in Status /\ dec.reason \in Reason
      /\ dec.shadowed \in BOOLEAN
      /\ dec.number = d.loaded.retries + 1
      /\ dec.should <=> d.loaded.exists /\ d.loaded.retries < MaxRetries
      /\ dec.allowed => dec.should
      /\ dec.status = "RETRYING" => d.loaded.retries < MaxRetries
  BY <1>1, DecisionParts DEF Decision
<1>3. Commit(w, outcome, newRow, newAudit, ok, f)
  BY <1>1 DEF RecordErrorStatus, Delivery
<1> HIDE DEF d, e, dec
<1>4. t \in Row /\ d.loaded.retries \in 0 .. MaxRetries /\ t.retries \in 0 .. MaxRetries
  <2>1. t \in Row
    BY <1>1, <1>2, UpdateTaskStatusType
  <2> QED
    BY <1>1, <2>1 DEF Row
<1> HIDE DEF t
<1>5. newRow \in Row
  BY <1>1, <1>4, FlushType
<1> HIDE DEF newRow
<1>6. memory \in OnErrorAttempt
  <2>1. /\ memory.retries = (IF d.loaded.exists THEN t.retries ELSE -1)
        /\ memory.number = (IF dec.allowed THEN dec.number ELSE d.attempt.number)
        /\ memory.status = dec.status /\ memory.reason = dec.reason
    BY DEF Remember, dec
  <2>2. /\ memory.retries \in -1 .. MaxRetries
        /\ memory.number \in 0 .. MaxRetries
    BY <1>1, <1>2, <1>4, <2>1, MaxRetriesAssumption DEF OnErrorAttempt
  <2> QED
    BY <1>1, <1>2, <2>1, <2>2 DEF OnErrorAttempt, Remember, dec
<1>7. counted \in Nat /\ counted = d.counted + IF counts THEN 1 ELSE 0
  BY <1>1
<1> HIDE DEF counts
<1>8. /\ f \in Delivery /\ f.attempt = memory /\ f.counted = counted /\ f.decision = dec
      /\ Within(d, f) /\ Marks(d, f) /\ f.resent = d.resent
  <2> HIDE DEF memory, counted
  <2> QED
    BY <1>1, <1>6, <1>7 DEF Delivery, Within, Marks, dec
<1> HIDE DEF memory, counted, f
<1>9. /\ Within(f, ok) /\ Memory(f, ok) /\ ok.resent = f.resent
      /\ ok.noResult = f.noResult
      /\ ok.shadow = (f.shadow \/ (~ dec.allowed /\ dec.shadowed))
      /\ IF dec.allowed
         THEN ok.pc = "requeue" /\ ok.loaded = newRow /\ ok.decision = dec
         ELSE ok.pc = "emit"
  <2>1. f.shadow \in BOOLEAN
    BY <1>8 DEF Delivery
  <2>2. CASE dec.allowed
    BY <1>8, <2>1, <2>2 DEF Delivery, Within, Memory
  <2>3. CASE ~ dec.allowed
    BY <1>2, <1>8, <2>1, <2>3
    DEF FinishUndispatched, Finish, Delivery, Within, Memory
  <2> QED
    BY <2>2, <2>3
<1> HIDE DEF ok, newAudit
<1>10. /\ Others(w) /\ Commits(outcome, newRow, newAudit)
       /\ IF outcome = "committed"
          THEN e = ok ELSE e.pc \in {"load", "stuck"} /\ Steady(f, e)
  BY <1>3, <1>8, CommitGoes DEF e
<1>11. /\ Within(d, e) /\ e.noResult = d.noResult /\ e.resent = d.resent
       /\ e.shadow = (d.shadow \/ (outcome = "committed" /\ ~ dec.allowed /\ dec.shadowed))
       /\ e.attempt = memory /\ e.counted = counted
       /\ IF dec.allowed
          THEN /\ Leaves(outcome, e, {"requeue"})
               /\ outcome = "committed" => e.loaded = newRow /\ e.decision = dec
          ELSE Leaves(outcome, e, {"emit"})
  <2>1. CASE outcome = "committed"
    BY <1>8, <1>9, <1>10, <2>1 DEF Leaves, Within, Memory, Marks
  <2>2. CASE outcome # "committed"
    BY <1>1, <1>8, <1>10, <2>2 DEF Leaves, Steady, Within, Memory, Marks
  <2> QED
    BY <2>1, <2>2
<1> QED
  BY <1>1, <1>7, <1>10, <1>11
  DEF Recorded, d, e, dec, t, newRow, newAudit, memory, counts

\* Every step of a delivery is one of those above.
LEMMA StepGoes ==
    ASSUME AuditInv, NEW w \in Worker,
           Receive(w) \/ Step(w) \/ Crash(w) \/ ChannelLost(w)
    PROVE  Others(w) /\ Goes(worker[w], worker'[w])
<1>1. CASE \/ Receive(w) \/ RunTask(w) \/ SaveAndAck(w) \/ GiveBack(w) \/ Crash(w)
           \/ ChannelLost(w)
  BY <1>1, ReceiverGoes
<1>2. CASE \/ LoadFails(w) \/ UnretriedError(w) \/ Load(w) \/ OnErrorLoad(w)
           \/ RecoverDispatch(w) \/ PostExecuteSkips(w) \/ Emit(w)
  BY <1>2, SessionGoes
<1>3. CASE RequeueSent(w) \/ RequeueRefused(w) \/ RequeueUnconfirmed(w)
  BY <1>3, DispatchGoes
<1>4. CASE \E outcome \in Outcome : PreExecute(w, outcome) \/ PostExecute(w, outcome)
  BY <1>4, WrittenGoes DEF Goes
<1>5. CASE \E outcome \in Outcome : RecordErrorStatus(w, outcome)
  BY <1>5, RecordedGoes DEF Goes
<1>6. CASE \E outcome \in Outcome : MarkDispatched(w, outcome)
  BY <1>6, MarkedGoes DEF Goes
<1>7. CASE \E outcome \in Outcome : RetryDispatchFailed(w, outcome)
  BY <1>7, GaveUpGoes DEF Goes
<1> QED
  BY <1>1, <1>2, <1>3, <1>4, <1>5, <1>6, <1>7 DEF Step, Work

LEMMA NextGoes ==
    ASSUME AuditInv, Next
    PROVE  \E w \in Worker :
              /\ Others(w) /\ Goes(worker[w], worker'[w])
              /\ worker[w] \in Delivery /\ worker'[w] \in Delivery
<1>1. PICK w \in Worker : Receive(w) \/ Step(w) \/ Crash(w) \/ ChannelLost(w)
  BY DEF Next
<1>2. Others(w) /\ Goes(worker[w], worker'[w])
  BY <1>1, StepGoes
<1>3. worker \in [Worker -> Delivery] /\ worker' \in [Worker -> Delivery]
  BY NextKeepsAudit DEF SoundStep, AuditInv, TypeOK
<1> QED
  BY <1>2, <1>3

\* No fault is undone.
LEMMA FaultsOnlyGrow ==
    ASSUME NEW d, NEW e, Goes(d, e), faults \in FaultCounts
    PROVE  \A f \in {"db", "send", "unconfirmed", "crash", "channel"} :
              /\ faults[f] \in Nat /\ faults'[f] \in Nat
              /\ faults'[f] >= faults[f]
<1> USE DEF FaultCounts
<1>1. CASE faults' = faults
  BY <1>1
<1>2. ASSUME NEW f \in {"db", "send", "unconfirmed", "crash", "channel"},
             faults' = [faults EXCEPT ![f] = @ + 1]
      PROVE  \A g \in {"db", "send", "unconfirmed", "crash", "channel"} :
                /\ faults[g] \in Nat /\ faults'[g] \in Nat
                /\ faults'[g] >= faults[g]
  BY <1>2
<1>3. \/ faults' = faults
      \/ \E f \in {"db", "send", "unconfirmed", "crash", "channel"} :
            faults' = [faults EXCEPT ![f] = @ + 1]
  BY DEF Goes, Received, Ran, Saved, WasReturned, LostChannel, SessionFailed, Loaded,
         Decided, Recovered, WasSent, WasRefused, Wrote, Recorded, Marked, GaveUp,
         Skipped, Emitted, Commits
<1> QED
  BY <1>1, <1>2, <1>3

\* Only the steps of _requeue send.
LEMMA OnlyRequeueSends ==
    ASSUME NEW d, NEW e, Goes(d, e)
    PROVE  sent' = sent \/ WasSent(d, e)
<1>1. ASSUME NEW outcome, \/ Wrote(d, e, outcome) \/ Recorded(d, e, outcome)
                          \/ Marked(d, e, outcome) \/ GaveUp(d, e, outcome)
      PROVE  sent' = sent
  BY <1>1 DEF Wrote, Recorded, Marked, GaveUp, Commits
<1>2. CASE \/ Received(d, e) \/ Ran(d, e) \/ Saved(d, e) \/ WasReturned(d, e)
           \/ LostChannel(d, e) \/ SessionFailed(d, e) \/ Loaded(d, e) \/ Decided(d, e)
           \/ Recovered(d, e) \/ WasRefused(d, e) \/ Skipped(d, e) \/ Emitted(d, e)
  BY <1>2 DEF Received, Ran, Saved, WasReturned, LostChannel, SessionFailed, Loaded,
              Decided, Recovered, WasRefused, Skipped, Emitted
<1> QED
  BY <1>1, <1>2 DEF Goes

\* Only three commits write the row.
LEMMA RowWriters ==
    ASSUME NEW d, NEW e, Goes(d, e)
    PROVE  \/ row' = row
           \/ \E outcome \in Outcome :
                 /\ outcome # "rolled_back"
                 /\ \/ Wrote(d, e, outcome) \/ Recorded(d, e, outcome)
                    \/ GaveUp(d, e, outcome)
<1>1. ASSUME NEW outcome \in Outcome,
             \/ Wrote(d, e, outcome) \/ Recorded(d, e, outcome) \/ GaveUp(d, e, outcome)
      PROVE  row' = row \/ outcome # "rolled_back"
  BY <1>1 DEF Wrote, Recorded, GaveUp, Commits
<1>2. ASSUME NEW outcome \in Outcome, Marked(d, e, outcome)
      PROVE  row' = row
  BY <1>2 DEF Marked, Commits
<1>3. CASE \/ Received(d, e) \/ Ran(d, e) \/ Saved(d, e) \/ WasReturned(d, e)
           \/ LostChannel(d, e) \/ SessionFailed(d, e) \/ Loaded(d, e) \/ Decided(d, e)
           \/ Recovered(d, e) \/ WasSent(d, e) \/ WasRefused(d, e) \/ Skipped(d, e)
           \/ Emitted(d, e)
  BY <1>3 DEF Received, Ran, Saved, WasReturned, LostChannel, SessionFailed, Loaded,
              Decided, Recovered, WasSent, WasRefused, Skipped, Emitted
<1> QED
  BY <1>1, <1>2, <1>3 DEF Goes

(***************************************************************************)
(* Lost updates of retry_count                                             *)
(***************************************************************************)

\* A log that only grows keeps the decisions it has, and makes none of another row.
LEMMA DecisionsKept ==
    ASSUME NEW log \in Seq(Attempt), NEW new \in Seq(Attempt), OnlyGrows(log, new),
           NEW mode
    PROVE  \A i \in DOMAIN log : /\ i \in DOMAIN new
                                 /\ new[i].number = log[i].number
                                 /\ Decides(new[i], mode) <=> Decides(log[i], mode)
<1> SUFFICES ASSUME NEW i \in DOMAIN log
             PROVE  /\ i \in DOMAIN new
                    /\ new[i].number = log[i].number
                    /\ Decides(new[i], mode) <=> Decides(log[i], mode)
  OBVIOUS
<1>1. i \in DOMAIN new /\ new[i].number = log[i].number /\ log[i] \in Attempt
  BY OnlyGrowsKeepsRows
<1>2. \/ new[i] = log[i]
      \/ log[i].result = "PENDING" /\ new[i] = [log[i] EXCEPT !.result = "DISPATCHED"]
  BY DEF OnlyGrows
<1>3. Decides(new[i], mode) <=> Decides(log[i], mode)
  BY <1>1, <1>2 DEF Decides, Claimed, Attempt
<1> QED
  BY <1>1, <1>3

\* The decision rows that a step adds to the log.
NewDecisions(log, new, mode) ==
    {i \in DOMAIN new : i \notin DOMAIN log /\ Decides(new[i], mode)}

\* A step that decides nothing leaves the count alone; one that decides a retry writes
\* its number as the count.
DecidesAndCounts ==
    LET decided == NewDecisions(audit, audit', gate)
    IN  IF decided = {} THEN row'.retries = row.retries
                        ELSE \A i \in decided : audit'[i].number = row'.retries

\* A row appended to the log is the only one that can be a new decision.
LEMMA AppendedDecision ==
    ASSUME NEW log \in Seq(Attempt), NEW n \in Number, NEW result \in DispatchResult,
           NEW mode
    PROVE  LET new == RecordTaskAttempt(log, n, result)
               decided == IF mode = "shadow" THEN result = "SHADOWED"
                                             ELSE result \in {"PENDING", "DISPATCHED"}
           IN  /\ ~ decided => NewDecisions(log, new, mode) = {}
               /\ decided => /\ NewDecisions(log, new, mode) = {Len(log) + 1}
                             /\ new[Len(log) + 1].number = n
<1> DEFINE a   == [number |-> n, result |-> result]
           new == Append(log, a)
<1>1. /\ DOMAIN new = DOMAIN log \cup {Len(log) + 1}
      /\ Len(log) + 1 \notin DOMAIN log
      /\ new[Len(log) + 1] = a
  OBVIOUS
<1>2. new = RecordTaskAttempt(log, n, result)
  BY DEF RecordTaskAttempt
<1> HIDE DEF new
<1>3. /\ a.number = n
      /\ Decides(a, mode) <=> IF mode = "shadow" THEN result = "SHADOWED"
                                                 ELSE result \in {"PENDING", "DISPATCHED"}
  BY DEF Decides, Claimed
<1> HIDE DEF a
<1> QED
  BY <1>1, <1>2, <1>3 DEF NewDecisions

\* _record_initial_error_status decides and counts in one transaction.
LEMMA RecordedDecides ==
    ASSUME AuditInv, NEW w \in Worker, NEW outcome \in Outcome,
           Recorded(worker[w], worker'[w], outcome)
    PROVE  DecidesAndCounts
<1> DEFINE d   == worker[w]
           dec == d.decision
           newRow == Flush(row, d.loaded, UpdateTaskStatus(d.loaded, dec.status, dec.reason))
<1>1. /\ d.pc = "write" /\ d.hook = "error"
      /\ row' = IF outcome = "rolled_back" THEN row ELSE newRow
      /\ audit' = IF outcome = "rolled_back" THEN audit ELSE AuditDecision(audit, dec)
  BY DEF Recorded, Commits
<1>2. /\ d \in Delivery /\ d.loaded \in Row /\ row \in Row /\ audit \in Seq(Attempt)
      /\ d.loaded.retries \in Nat
  BY InvFacts, MaxRetriesAssumption DEF Delivery, Row
<1>3. /\ dec.status \in Status /\ dec.reason \in Reason
      /\ dec.number = d.loaded.retries + 1
      /\ dec.should <=> d.loaded.exists /\ d.loaded.retries < MaxRetries
      /\ dec.allowed <=> dec.should /\ gate = "open"
      /\ dec.shadowed <=> dec.should /\ gate = "shadow"
      /\ dec.status = IF dec.allowed \/ dec.shadowed THEN "RETRYING" ELSE "FAILED"
  BY <1>1, DecisionParts DEF Decision
<1>4. newRow.retries = IF dec.status = "RETRYING" THEN dec.number ELSE row.retries
  BY <1>2, <1>3, FlushFields
<1>5. dec.should => dec.number \in Number
  BY <1>2, <1>3, MaxRetriesAssumption DEF Number
<1> HIDE DEF newRow, dec
<1> USE DEF DecidesAndCounts
<1>6. CASE audit' = audit
  <2>1. NewDecisions(audit, audit', gate) = {}
    BY <1>6 DEF NewDecisions
  <2>2. row'.retries = row.retries
    <3>1. ASSUME dec.should, outcome # "rolled_back" PROVE FALSE
      <4>1. \E log \in Seq(Attempt), result \in DispatchResult :
               /\ OnlyGrows(audit, log)
               /\ audit' = RecordTaskAttempt(log, dec.number, result)
        BY <1>1, <1>2, <3>1, ReconcilePendingKeeps, OnlyGrowsReflexive
        DEF AuditDecision, DispatchResult
      <4> QED
        BY <1>2, <1>6, <4>1 DEF OnlyGrows, RecordTaskAttempt
    <3> QED
      BY <1>1, <1>3, <1>4, <3>1
  <2> QED
    BY <2>1, <2>2
<1>7. CASE outcome # "rolled_back" /\ dec.allowed
  <2> DEFINE log == ReconcilePending(audit)
             result == "PENDING"
             new == RecordTaskAttempt(log, dec.number, result)
  <2>1. log \in Seq(Attempt) /\ DOMAIN log = DOMAIN audit
    BY <1>2, ReconcilePendingKeeps DEF ReconcilePending, MarkTaskAttemptDispatched
  <2>2. audit' = new
    BY <1>1, <1>7 DEF AuditDecision
  <2>3. /\ gate # "shadow" /\ dec.number \in Number
        /\ result \in DispatchResult /\ result \in {"PENDING", "DISPATCHED"}
    BY <1>3, <1>5, <1>7 DEF DispatchResult
  <2> HIDE DEF log, result
  <2>4. /\ NewDecisions(log, new, gate) = {Len(log) + 1}
        /\ new[Len(log) + 1].number = dec.number
    BY <2>1, <2>3, AppendedDecision
  <2> HIDE DEF new
  <2>5. NewDecisions(audit, audit', gate) = {Len(log) + 1}
    BY <2>1, <2>2, <2>4 DEF NewDecisions
  <2> QED
    BY <1>1, <1>3, <1>4, <1>7, <2>2, <2>4, <2>5
<1>8. CASE outcome # "rolled_back" /\ dec.should /\ ~ dec.allowed
  <2> DEFINE result == IF dec.shadowed THEN "SHADOWED" ELSE "BLOCKED"
             new == RecordTaskAttempt(audit, dec.number, result)
  <2>1. audit' = new
    BY <1>1, <1>8 DEF AuditDecision
  <2>2. dec.number \in Number /\ result \in DispatchResult
    BY <1>5, <1>8 DEF DispatchResult
  <2>3. CASE dec.shadowed
    <3>1. /\ NewDecisions(audit, new, gate) = {Len(audit) + 1}
          /\ new[Len(audit) + 1].number = dec.number
      <4>1. gate = "shadow" /\ result = "SHADOWED"
        BY <1>3, <2>3
      <4> HIDE DEF result
      <4> QED
        BY <1>2, <2>2, <4>1, AppendedDecision
    <3> HIDE DEF new
    <3> QED
      BY <1>1, <1>3, <1>4, <1>8, <2>1, <2>3, <3>1
  <2>4. CASE ~ dec.shadowed
    <3>1. NewDecisions(audit, new, gate) = {}
      BY <1>2, <2>2, <2>4, AppendedDecision
    <3> HIDE DEF new
    <3> QED
      BY <1>1, <1>3, <1>4, <1>8, <2>1, <2>4, <3>1
  <2> QED
    BY <2>3, <2>4
<1> QED
  BY <1>1, <1>3, <1>6, <1>7, <1>8 DEF AuditDecision

\* So does every step: the other commits decide nothing and leave the count alone.
LEMMA NextDecides == AuditInv /\ [Next]_vars => DecidesAndCounts
<1> SUFFICES ASSUME AuditInv, [Next]_vars PROVE DecidesAndCounts
  OBVIOUS
<1> DEFINE Undecided == NewDecisions(audit, audit', gate) = {} /\ row'.retries = row.retries
<1>1. audit' = audit => NewDecisions(audit, audit', gate) = {}
  BY DEF NewDecisions
<1>2. CASE UNCHANGED vars
  BY <1>1, <1>2 DEF vars, DecidesAndCounts
<1>3. CASE Next
  <2>1. PICK w \in Worker : Goes(worker[w], worker'[w])
    BY <1>3, NextGoes
  <2> DEFINE d == worker[w]
             e == worker'[w]
  <2>2. /\ d \in Delivery /\ d.loaded \in Row /\ row \in Row /\ audit \in Seq(Attempt)
        /\ DeliverySound(d, audit, gate)
    BY InvFacts DEF Delivery
  <2>3. ASSUME NEW outcome \in Outcome, Wrote(d, e, outcome)
        PROVE  Undecided
    <3>1. /\ audit' = audit
          /\ \/ row' = row
             \/ \E status \in Status \ {"RETRYING"}, reason \in Reason :
                   row' = Flush(row, d.loaded, UpdateTaskStatus(d.loaded, status, reason))
      BY <2>3 DEF Wrote, Commits, Status, Reason
    <3>2. row'.retries = row.retries
      BY <2>2, <3>1, FlushFields
    <3> QED
      BY <1>1, <3>1, <3>2
  <2>4. ASSUME NEW outcome \in Outcome, Marked(d, e, outcome)
        PROVE  Undecided
    <3>1. row' = row /\ DOMAIN audit' = DOMAIN audit
      BY <2>4 DEF Marked, Commits, MarkTaskAttemptDispatched
    <3> QED
      BY <3>1 DEF NewDecisions
  <2>5. ASSUME NEW outcome \in Outcome, GaveUp(d, e, outcome)
        PROVE  Undecided
    <3>1. /\ row' \in {row, Flush(row, d.loaded,
                                  UpdateTaskStatus(d.loaded, "FAILED", "dispatch_error"))}
          /\ audit' \in {audit, RecordTaskAttempt(audit, d.decision.number,
                                                  "DISPATCH_FAILED")}
      BY <2>5 DEF GaveUp, Commits
    <3>2. row'.retries = row.retries
      <4>1. "FAILED" \in Status /\ "dispatch_error" \in Reason
        BY DEF Status, Reason
      <4> QED
        BY <2>2, <3>1, <4>1, FlushFields
    <3>3. d.decision.number \in Number /\ "DISPATCH_FAILED" \in DispatchResult
      BY <2>2, <2>5 DEF GaveUp, DeliverySound, DispatchAllowed, Dispatching, DispatchResult
    <3>4. NewDecisions(audit, RecordTaskAttempt(audit, d.decision.number, "DISPATCH_FAILED"),
                       gate) = {}
      BY <2>2, <3>3, AppendedDecision
    <3> QED
      BY <1>1, <3>1, <3>2, <3>4
  <2>6. ASSUME NEW outcome \in Outcome, Recorded(d, e, outcome)
        PROVE  DecidesAndCounts
    BY <2>6, RecordedDecides
  <2>7. CASE \/ Received(d, e) \/ Ran(d, e) \/ Saved(d, e) \/ WasReturned(d, e)
             \/ LostChannel(d, e) \/ SessionFailed(d, e) \/ Loaded(d, e) \/ Decided(d, e)
             \/ Recovered(d, e) \/ WasSent(d, e) \/ WasRefused(d, e) \/ Skipped(d, e)
             \/ Emitted(d, e)
    <3>1. row' = row /\ audit' = audit
      BY <2>7 DEF Received, Ran, Saved, WasReturned, LostChannel, SessionFailed, Loaded,
                  Decided, Recovered, WasSent, WasRefused, Skipped, Emitted
    <3> QED
      BY <1>1, <3>1 DEF DecidesAndCounts
  <2> QED
    BY <2>1, <2>3, <2>4, <2>5, <2>6, <2>7 DEF Goes, DecidesAndCounts
<1> QED
  BY <1>2, <1>3

\* The write of a count that is not above the old one decides again a retry that the
\* audit table has: each number up to the old count is decided (EveryRetryAudited).
LEMMA LostUpdateStep == AuditInv /\ LostUpdateAudited /\ [Next]_vars => LostUpdateAudited'
<1> SUFFICES ASSUME AuditInv, LostUpdateAudited, [Next]_vars, ~ DecidedTwice(audit', gate')
             PROVE  NoDecisionAbove(row'.retries, audit', gate')
  BY DEF LostUpdateAudited
<1>1. /\ gate' = gate /\ OnlyGrows(audit, audit')
      /\ audit \in Seq(Attempt) /\ audit' \in Seq(Attempt)
      /\ AuditedUpTo(row.retries, audit, gate) /\ row.retries \in Nat
  BY NextKeepsAudit, MaxRetriesAssumption DEF SoundStep, AuditInv, TypeOK, EveryRetryAudited, Row
<1>2. \A i \in DOMAIN audit : /\ i \in DOMAIN audit'
                              /\ audit'[i].number = audit[i].number
                              /\ Decides(audit'[i], gate) <=> Decides(audit[i], gate)
  BY <1>1, DecisionsKept
<1>3. ~ DecidedTwice(audit, gate)
  BY <1>1, <1>2 DEF DecidedTwice
<1>4. \A i \in DOMAIN audit : Decides(audit[i], gate) => audit[i].number <= row.retries
  BY <1>3 DEF LostUpdateAudited, NoDecisionAbove
<1> DEFINE decided == NewDecisions(audit, audit', gate)
<1>5. row'.retries >= row.retries
  <2>1. CASE decided = {}
    BY <1>1, <2>1, NextDecides DEF DecidesAndCounts
  <2>2. ASSUME NEW j \in decided PROVE row'.retries >= row.retries
    <3>1. /\ j \in DOMAIN audit' /\ j \notin DOMAIN audit /\ Decides(audit'[j], gate)
          /\ audit'[j].number = row'.retries
      BY <2>2, NextDecides DEF DecidesAndCounts, NewDecisions
    <3>2. row'.retries \in Nat /\ row'.retries >= 1
      <4>1. audit'[j] \in Attempt
        BY <1>1, <3>1
      <4> QED
        BY <3>1, <4>1, MaxRetriesAssumption DEF Attempt, Number
    <3> SUFFICES ASSUME row'.retries < row.retries PROVE FALSE
      BY <1>1, <3>2
    <3>3. PICK i \in DOMAIN audit :
             audit[i].number = row'.retries /\ Decides(audit[i], gate)
      BY <1>1, <3>2 DEF AuditedUpTo
    <3> QED
      BY <1>1, <1>2, <3>1, <3>3 DEF DecidedTwice
  <2> QED
    BY <2>1, <2>2
<1>6. ASSUME NEW i \in DOMAIN audit', Decides(audit'[i], gate)
      PROVE  audit'[i].number <= row'.retries
  <2>1. audit'[i].number \in Nat /\ row'.retries \in Nat
    <3>1. audit'[i] \in Attempt
      BY <1>1
    <3>2. row' \in Row
      BY NextKeepsAudit DEF SoundStep, AuditInv, TypeOK
    <3> QED
      BY <3>1, <3>2, MaxRetriesAssumption DEF Attempt, Number, Row
  <2>2. CASE i \in DOMAIN audit
    BY <1>1, <1>2, <1>4, <1>5, <1>6, <2>1, <2>2
  <2>3. CASE i \notin DOMAIN audit
    <3>1. i \in decided
      BY <1>6, <2>3 DEF NewDecisions
    <3>2. audit'[i].number = row'.retries
      BY <3>1, NextDecides DEF DecidesAndCounts
    <3> QED
      BY <2>1, <3>2
  <2> QED
    BY <2>2, <2>3
<1> QED
  BY <1>1, <1>6 DEF NoDecisionAbove

\* Rows are not locked when they are loaded, so a delivery may write retry_count from a
\* snapshot that another has overtaken.  However many deliveries overlap and whatever
\* fails, the update so lost is on record: the audit table has one retry decided twice.
THEOREM LostUpdatesAudited == Spec => []LostUpdateAudited
<1>1. Init => LostUpdateAudited
  BY DEF Init, Fresh, LostUpdateAudited, NoDecisionAbove
<1> QED
  BY <1>1, LostUpdateStep, AuditInvariant, PTL DEF Spec
=============================================================================
