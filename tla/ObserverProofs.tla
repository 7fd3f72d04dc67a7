--------------------------- MODULE ObserverProofs ---------------------------
(***************************************************************************)
(* What the observers of the deliveries are told, for every number of      *)
(* deliveries, retries and failures: how far the in-progress gauge drifts, *)
(* that no realtime event runs ahead of the database, and that every start *)
(* and outcome of the row is announced.                                    *)
(***************************************************************************)
EXTENDS Observers, NominalProofs, SendProofs

(***************************************************************************)
(* What the committing steps of on_error leave behind                      *)
(***************************************************************************)

\* _record_initial_error_status: the delivery goes on to its send or leaves for the emit,
\* and in either case remembers the status it wrote, RETRYING or FAILED.
LEMMA RecordErrorStatusParts ==
    ASSUME AuditInv, NEW w \in Worker, NEW outcome \in Outcome,
           RecordErrorStatus(w, outcome)
    PROVE  LET d   == worker[w]
               dec == d.decision
               t   == UpdateTaskStatus(d.loaded, dec.status, dec.reason)
               newRow == Flush(row, d.loaded, t)
           IN  \E ok, ko \in Delivery :
                  /\ Commit(w, outcome, newRow, AuditDecision(audit, dec), ok, ko)
                  /\ dec.status = IF dec.allowed \/ dec.shadowed THEN "RETRYING"
                                                                 ELSE "FAILED"
                  /\ ko.attempt.status = dec.status /\ ok.attempt = ko.attempt
                  /\ IF dec.allowed
                     THEN ok.pc = "requeue" /\ ok.loaded = newRow /\ ok.decision = dec
                     ELSE ok.pc = "emit" /\ ok.loaded = NoRow /\ ok.event = dec.status
<1> DEFINE d      == worker[w]
           dec    == d.decision
           t      == UpdateTaskStatus(d.loaded, dec.status, dec.reason)
           newRow == Flush(row, d.loaded, t)
           newAudit == AuditDecision(audit, dec)
           memory   == Remember(d, t)
           counted == IF dec.status = "RETRYING" /\ outcome # "rolled_back"
                      THEN d.counted + 1 ELSE d.counted
           e  == [d EXCEPT !.attempt = memory, !.counted = counted]
           ok == IF dec.allowed
                 THEN [e EXCEPT !.pc = "requeue", !.loaded = newRow]
                 ELSE FinishUndispatched(e, dec)
<1>1. /\ d \in Delivery /\ gate \in Gate /\ row \in Row
      /\ d.loaded \in Row /\ d.attempt \in OnErrorAttempt /\ d.counted \in Nat
      /\ dec \in Decision /\ dec.status \in Status /\ dec.reason \in Reason
  BY InvFacts DEF Delivery, Decision
<1>2. dec = ResolveRetryDecision(d.loaded, d.attempt, gate) /\ ~ dec.recorded
  BY InvFacts DEF RecordErrorStatus, At, DeliverySound, DecisionFresh
<1>3. /\ dec.number = d.loaded.retries + 1
      /\ dec.should <=> d.loaded.exists /\ d.loaded.retries < MaxRetries
      /\ dec.allowed <=> dec.should /\ gate = "open"
      /\ dec.shadowed <=> dec.should /\ gate = "shadow"
      /\ dec.status = IF dec.allowed \/ dec.shadowed THEN "RETRYING" ELSE "FAILED"
  <2>1. LET r == ResolveRetryDecision(d.loaded, d.attempt, gate)
        IN  /\ r.number = d.loaded.retries + 1
            /\ r.should <=> d.loaded.exists /\ d.loaded.retries < MaxRetries
            /\ r.allowed <=> r.should /\ gate = "open"
            /\ r.shadowed <=> r.should /\ gate = "shadow"
            /\ ~ r.recorded =>
                 r.status = IF r.allowed \/ r.shadowed THEN "RETRYING" ELSE "FAILED"
    BY <1>1, ResolveRetryDecisionType
  <2> QED
    BY <1>2, <2>1
<1>4. Commit(w, outcome, newRow, newAudit, ok, e)
  BY <1>1 DEF RecordErrorStatus, Delivery
<1> HIDE DEF d, dec
<1>5. /\ t \in Row
      /\ t.retries = IF d.loaded.exists /\ dec.status = "RETRYING"
                     THEN d.loaded.retries + 1 ELSE d.loaded.retries
  BY <1>1, <1>3, UpdateTaskStatusType
<1> HIDE DEF t
<1>6. newRow \in Row
  BY <1>1, <1>5, FlushType
<1> HIDE DEF newRow
<1>7. memory \in OnErrorAttempt /\ memory.status = dec.status
  <2>1. /\ memory.retries = (IF d.loaded.exists THEN t.retries ELSE -1)
        /\ memory.number = (IF dec.allowed THEN dec.number ELSE d.attempt.number)
        /\ memory.status = dec.status /\ memory.reason = dec.reason
    BY DEF Remember, dec
  <2>2. /\ memory.retries \in -1 .. MaxRetries
        /\ memory.number \in 0 .. MaxRetries
    BY <1>1, <1>3, <1>5, <2>1, MaxRetriesAssumption DEF OnErrorAttempt, Row
  <2> QED
    BY <1>1, <2>1, <2>2 DEF OnErrorAttempt, Remember, dec
<1>8. counted \in Nat
  BY <1>1
<1>9. /\ e \in Delivery /\ e.attempt = memory /\ e.decision = dec
  <2> HIDE DEF memory, counted
  <2> QED
    BY <1>1, <1>7, <1>8 DEF Delivery, dec
<1> HIDE DEF memory, counted, e
<1>10. /\ ok \in Delivery /\ ok.attempt = e.attempt
       /\ IF dec.allowed
          THEN ok.pc = "requeue" /\ ok.loaded = newRow /\ ok.decision = dec
          ELSE ok.pc = "emit" /\ ok.loaded = NoRow /\ ok.event = dec.status
  <2>1. CASE dec.allowed
    BY <1>6, <1>9, <2>1 DEF Delivery, PC
  <2>2. CASE ~ dec.allowed
    <3>1. /\ ok \in Delivery /\ ok.pc = "emit" /\ ok.loaded = NoRow
          /\ ok.attempt = e.attempt
      BY <1>1, <1>9, <2>2, FinishUndispatchedType
    <3>2. ok.event = dec.status
      BY <1>9, <2>2 DEF FinishUndispatched, Finish, Delivery
    <3> QED
      BY <2>2, <3>1, <3>2
  <2> QED
    BY <2>1, <2>2
<1> HIDE DEF ok, newAudit
<1>11. \E ok_1, ko_1 \in Delivery :
          /\ Commit(w, outcome, newRow, newAudit, ok_1, ko_1)
          /\ ko_1.attempt.status = dec.status /\ ok_1.attempt = ko_1.attempt
          /\ IF dec.allowed
             THEN ok_1.pc = "requeue" /\ ok_1.loaded = newRow /\ ok_1.decision = dec
             ELSE ok_1.pc = "emit" /\ ok_1.loaded = NoRow /\ ok_1.event = dec.status
  BY <1>4, <1>7, <1>9, <1>10
<1> QED
  BY <1>3, <1>11 DEF d, dec, t, newRow, newAudit

\* _record_retry_dispatch_failure: the delivery leaves for the emit of FAILED.
LEMMA RetryDispatchFailedParts ==
    ASSUME AuditInv, NEW w \in Worker, NEW outcome \in Outcome,
           RetryDispatchFailed(w, outcome)
    PROVE  LET d == worker[w]
               t == UpdateTaskStatus(d.loaded, "FAILED", "dispatch_error")
           IN  \E newAudit, ok, ko :
                  /\ Commit(w, outcome, Flush(row, d.loaded, t), newAudit, ok, ko)
                  /\ ok \in Delivery /\ ko \in Delivery
                  /\ ko.attempt.status = "FAILED" /\ ok.attempt = ko.attempt
                  /\ ok.pc = "emit" /\ ok.loaded = NoRow /\ ok.event = "FAILED"
<1> DEFINE d == worker[w]
           t == UpdateTaskStatus(d.loaded, "FAILED", "dispatch_error")
           newAudit == RecordTaskAttempt(audit, d.decision.number, "DISPATCH_FAILED")
           memory == [d.attempt EXCEPT !.status = "FAILED", !.reason = "dispatch_error"]
           e  == [d EXCEPT !.attempt = memory]
           ok == Finish(e, "FAILED")
<1>1. d \in Delivery /\ d.attempt \in OnErrorAttempt
  BY InvFacts DEF Delivery
<1>2. Commit(w, outcome, Flush(row, d.loaded, t), newAudit, ok, e)
  BY <1>1 DEF RetryDispatchFailed, Delivery
<1>3. memory \in OnErrorAttempt /\ memory.status = "FAILED" /\ "FAILED" \in Status
  BY <1>1 DEF OnErrorAttempt, Status, Reason
<1> HIDE DEF memory
<1>4. e \in Delivery /\ e.attempt = memory
  BY <1>1, <1>3 DEF Delivery
<1> HIDE DEF e
<1>5. /\ ok \in Delivery /\ ok.pc = "emit" /\ ok.loaded = NoRow /\ ok.attempt = e.attempt
  BY <1>3, <1>4, FinishType
<1>6. ok.event = "FAILED"
  BY <1>4 DEF Finish, Delivery
<1> HIDE DEF d, t, newAudit, ok
<1> QED
  BY <1>2, <1>3, <1>4, <1>5, <1>6 DEF d, t

(***************************************************************************)
(* The gauge                                                               *)
(***************************************************************************)

\* The inductive invariant behind GaugeDrift: with AuditInv, which types the records.
GaugeInv ==
    /\ AuditInv
    /\ IsFiniteSet(Running)
    /\ gauge \in Int /\ handled \in Nat /\ abandoned \in Nat
    /\ GaugeDrift

\* A delivery that the metrics middleware counts as in progress.
Executing(d) == d.pc \notin {"idle", "save", "stuck"}

\* A step changes what is running by the delivery that takes it only.
LEMMA RunningStep ==
    ASSUME worker \in [Worker -> Delivery], NEW w \in Worker, NEW e, Become(w, e),
           IsFiniteSet(Running)
    PROVE  /\ IsFiniteSet(Running')
           /\ Cardinality(Running) \in Nat
           /\ Cardinality(Running') =
                 Cardinality(Running)
                    + (IF Executing(e) THEN 1 ELSE 0)
                    - (IF Executing(worker[w]) THEN 1 ELSE 0)
<1>1. Running' = IF Executing(e) THEN Running \cup {w} ELSE Running \ {w}
  <2>1. ASSUME NEW v \in Worker
        PROVE  worker'[v] = IF v = w THEN e ELSE worker[v]
    BY DEF Become
  <2> QED
    BY <2>1 DEF Running, Executing
<1>2. w \in Running <=> Executing(worker[w])
  BY DEF Running, Executing
<1>3. Cardinality(Running) \in Nat
  BY FS_CardinalityType
<1>4. CASE Executing(e)
  BY <1>1, <1>2, <1>3, <1>4, FS_AddElement
<1>5. CASE ~ Executing(e)
  BY <1>1, <1>2, <1>3, <1>5, FS_RemoveElement
<1> QED
  BY <1>4, <1>5

\* Where the steps of a delivery lead, as the gauge sees it.
LEMMA WorkMoves ==
    ASSUME AuditInv, NEW w \in Worker, Work(w), ~ PostExecuteSkips(w)
    PROVE  \E e :
              /\ Become(w, e)
              /\ \/ Executing(worker[w]) /\ (Executing(e) \/ e.pc = "stuck")
                 \/ ~ Executing(worker[w]) /\ e.pc = "idle"
<1>1. worker[w] \in Delivery
  BY InvFacts
<1>2. ASSUME NEW d \in Delivery
      PROVE  /\ Retry(d).pc \in {"load", "stuck"}
             /\ Raise(d).pc = "stuck"
             /\ \A status : Finish(d, status).pc = "emit"
             /\ \A hook : Enter(d, hook).pc = "load"
  BY RetryType, RaiseType DEF Finish, Enter, Delivery
<1>3. ASSUME NEW outcome, NEW newRow, NEW newAudit, NEW ok, NEW ko \in Delivery,
             Commit(w, outcome, newRow, newAudit, ok, ko),
             ok.pc \in {"emit", "requeue"}, Executing(worker[w])
      PROVE  \E e : /\ Become(w, e)
                    /\ Executing(e) \/ e.pc = "stuck"
  <2> DEFINE e == IF outcome = "committed" THEN ok ELSE Retry(ko)
  <2>1. Become(w, e)
    BY <1>3 DEF Commit
  <2>2. Executing(e) \/ e.pc = "stuck"
    BY <1>2, <1>3 DEF Executing
  <2> QED
    BY <2>1, <2>2
<1>4. CASE LoadFails(w) \/ UnretriedError(w) \/ Load(w)
  <2>1. Executing(worker[w])
    BY <1>4 DEF LoadFails, UnretriedError, Load, At, Executing
  <2>2. \/ Become(w, Retry(worker[w])) \/ Become(w, Raise(worker[w]))
        \/ Become(w, [worker[w] EXCEPT !.pc = "write", !.loaded = row])
    BY <1>4, Zenon DEF LoadFails, UnretriedError, Load
  <2>3. [worker[w] EXCEPT !.pc = "write", !.loaded = row].pc = "write"
    BY <1>1 DEF Delivery
  <2> QED
    BY <1>1, <1>2, <2>1, <2>2, <2>3 DEF Executing
<1>5. CASE OnErrorLoad(w)
  <2> DEFINE d   == worker[w]
             dec == ResolveRetryDecision(row, d.attempt, gate)
             at(pc) == [d EXCEPT !.pc = pc, !.loaded = row, !.decision = dec]
             e == IF ~ dec.recorded THEN at("write")
                  ELSE IF dec.allowed THEN at("lookup")
                  ELSE FinishUndispatched(d, dec)
  <2>1. Become(w, e) /\ Executing(worker[w])
    BY <1>5 DEF OnErrorLoad, At, Executing
  <2>2. \A pc : at(pc).pc = pc
    BY <1>1 DEF Delivery
  <2>3. FinishUndispatched(d, dec).pc = "emit"
    BY <1>1 DEF FinishUndispatched, Finish, Delivery
  <2> HIDE DEF dec, at
  <2>4. e.pc \in {"write", "lookup", "emit"}
    BY <2>2, <2>3
  <2> HIDE DEF e
  <2> QED
    BY <2>1, <2>4 DEF Executing
<1>6. CASE RecoverDispatch(w)
  BY <1>1, <1>2, <1>6 DEF RecoverDispatch, At, Executing, Delivery
<1>7. CASE RequeueSent(w) \/ RequeueRefused(w) \/ RequeueUnconfirmed(w)
  <2>1. Executing(worker[w])
    BY <1>7 DEF RequeueSent, RequeueRefused, RequeueUnconfirmed, Executing
  <2>2. \/ Become(w, [worker[w] EXCEPT !.pc = "mark", !.resent = @ + 1])
        \/ Become(w, [worker[w] EXCEPT !.pc = "undispatched"])
    BY <1>7, Zenon DEF RequeueSent, RequeueRefused, RequeueUnconfirmed
  <2>3. /\ [worker[w] EXCEPT !.pc = "mark", !.resent = @ + 1].pc = "mark"
        /\ [worker[w] EXCEPT !.pc = "undispatched"].pc = "undispatched"
    BY <1>1 DEF Delivery
  <2> QED
    BY <2>1, <2>2, <2>3 DEF Executing
<1>8. CASE RunTask(w)
  <2>1. PICK erred \in BOOLEAN :
          Become(w, Enter([worker[w] EXCEPT !.failed = erred],
                          IF erred THEN "error" ELSE "post"))
    BY <1>8 DEF RunTask
  <2>2. [worker[w] EXCEPT !.failed = erred] \in Delivery
    BY <1>1 DEF Delivery
  <2> QED
    BY <1>2, <1>8, <2>1, <2>2 DEF RunTask, Executing
<1>9. CASE SaveAndAck(w) \/ GiveBack(w)
  BY <1>9 DEF SaveAndAck, GiveBack, Executing, Idle
<1>10. CASE \E outcome \in Outcome :
               \/ PreExecute(w, outcome)
               \/ RecordErrorStatus(w, outcome)
               \/ MarkDispatched(w, outcome)
               \/ RetryDispatchFailed(w, outcome)
               \/ PostExecute(w, outcome)
  <2>1. PICK outcome \in Outcome :
               \/ PreExecute(w, outcome)
               \/ RecordErrorStatus(w, outcome)
               \/ MarkDispatched(w, outcome)
               \/ RetryDispatchFailed(w, outcome)
               \/ PostExecute(w, outcome)
    BY <1>10
  <2>2. Executing(worker[w])
    BY <2>1 DEF PreExecute, RecordErrorStatus, MarkDispatched, RetryDispatchFailed,
                PostExecute, At, Executing
  <2>3. CASE PreExecute(w, outcome) \/ PostExecute(w, outcome)
    BY <1>1, <1>2, <1>3, <2>2, <2>3 DEF PreExecute, PostExecute, SetStatus
  <2>4. CASE RecordErrorStatus(w, outcome)
    BY <1>3, <2>2, <2>4, RecordErrorStatusParts
  <2>5. CASE MarkDispatched(w, outcome)
    <3> DEFINE e == [worker[w] EXCEPT !.noResult = TRUE]
    <3>1. e \in Delivery
      BY <1>1 DEF Delivery
    <3>2. Finish(e, worker[w].decision.status).pc = "emit"
      BY <1>2, <3>1
    <3> QED
      BY <1>1, <1>2, <1>3, <2>2, <2>5, <3>2 DEF MarkDispatched, Executing
  <2>6. CASE RetryDispatchFailed(w, outcome)
    BY <1>3, <2>2, <2>6, RetryDispatchFailedParts
  <2> QED
    BY <2>1, <2>2, <2>3, <2>4, <2>5, <2>6
<1> QED
  BY <1>4, <1>5, <1>6, <1>7, <1>8, <1>9, <1>10 DEF Work

\* A message that is received, an emit and the end of a delivery that was retried.
LEMMA MeasuredMoves ==
    ASSUME AuditInv, NEW w \in Worker
    PROVE  /\ Receive(w) =>
                \E e : Become(w, e) /\ ~ Executing(worker[w]) /\ Executing(e)
           /\ Emit(w) =>
                \E e : /\ Become(w, e) /\ Executing(worker[w])
                       /\ e.pc # "stuck"
                       /\ Executing(e) <=> worker[w].hook # "post"
           /\ PostExecuteSkips(w) =>
                \E e : Become(w, e) /\ Executing(worker[w]) /\ ~ Executing(e)
           /\ ChannelLost(w) =>
                \E e : Become(w, e) /\ e.pc = worker[w].pc
<1>1. worker[w] \in Delivery
  BY InvFacts
<1>2. ASSUME Receive(w)
      PROVE  \E e : Become(w, e) /\ ~ Executing(worker[w]) /\ Executing(e)
  <2>1. Enter([Idle EXCEPT !.held = TRUE], "pre").pc = "load"
    BY DEF Enter, Idle
  <2> QED
    BY <1>2, <2>1 DEF Receive, Executing
<1>3. ASSUME Emit(w)
      PROVE  \E e : /\ Become(w, e) /\ Executing(worker[w]) /\ e.pc # "stuck"
                    /\ Executing(e) <=> worker[w].hook # "post"
  <2> DEFINE d == [worker[w] EXCEPT !.event = "PENDING"]
             e == CASE d.hook = "pre"   -> [d EXCEPT !.pc = "run"]
                    [] d.hook = "error" -> Enter(d, "post")
                    [] d.hook = "post"  -> [d EXCEPT !.pc = "save"]
  <2>1. Become(w, e) /\ Executing(worker[w])
    BY <1>3 DEF Emit, Executing
  <2>2. d \in Delivery /\ d.hook = worker[w].hook /\ d.hook \in {"pre", "error", "post"}
    BY <1>1 DEF Delivery, Status, Hook
  <2>3. /\ d.hook = "pre" => e.pc = "run"
        /\ d.hook = "error" => e.pc = "load"
        /\ d.hook = "post" => e.pc = "save"
    <3> HIDE DEF d
    <3> QED
      BY <2>2 DEF Enter, Delivery
  <2> HIDE DEF e
  <2> QED
    BY <2>1, <2>2, <2>3 DEF Executing
<1>4. ASSUME PostExecuteSkips(w)
      PROVE  \E e : Become(w, e) /\ Executing(worker[w]) /\ ~ Executing(e)
  BY <1>1, <1>4 DEF PostExecuteSkips, At, Executing, Delivery
<1>5. ASSUME ChannelLost(w)
      PROVE  \E e : Become(w, e) /\ e.pc = worker[w].pc
  <2>1. Become(w, [worker[w] EXCEPT !.held = FALSE])
    BY <1>5 DEF ChannelLost
  <2> QED
    BY <1>1, <2>1 DEF Delivery
<1> QED
  BY <1>2, <1>3, <1>4, <1>5

\* The metrics of a step of w.
MetricsStep(w) ==
    MetricsPreExecute(w) \/ MetricsOnError(w) \/ MetricsPostExecute(w) \/ Unmeasured(w)

\* Each of them is a step of the deliveries.
LEMMA MetricsStepIsStep ==
    ASSUME NEW w \in Worker, MetricsStep(w) PROVE Next
BY DEF MetricsStep, MetricsPreExecute, MetricsOnError, MetricsPostExecute, Unmeasured,
       Next, Step, Work

\* The drift of the gauge is what the step adds to it and what it adds to the running
\* deliveries, the abandoned and the handled.
LEMMA MetricsStepKeepsGauge ==
    ASSUME GaugeInv, NEW w \in Worker, MetricsStep(w)
    PROVE  GaugeInv'
<1>1. AuditInv'
  BY MetricsStepIsStep, NextKeepsAudit DEF GaugeInv, SoundStep
<1>2. /\ AuditInv /\ worker \in [Worker -> Delivery] /\ IsFiniteSet(Running)
      /\ gauge \in Int /\ handled \in Nat /\ abandoned \in Nat
      /\ gauge = Cardinality(Running) + abandoned - handled
  BY DEF GaugeInv, GaugeDrift, AuditInv, TypeOK
<1>3. ASSUME NEW e, Become(w, e)
      PROVE  /\ IsFiniteSet(Running')
             /\ Cardinality(Running) \in Nat
             /\ Cardinality(Running') =
                   Cardinality(Running)
                      + (IF Executing(e) THEN 1 ELSE 0)
                      - (IF Executing(worker[w]) THEN 1 ELSE 0)
             /\ worker'[w] = e
  BY <1>2, <1>3, RunningStep DEF Become
<1>4. CASE MetricsPreExecute(w)
  <2>1. PICK e : Become(w, e) /\ ~ Executing(worker[w]) /\ Executing(e)
    BY <1>2, <1>4, MeasuredMoves DEF MetricsPreExecute
  <2>2. gauge' = gauge + 1 /\ handled' = handled /\ abandoned' = abandoned
    BY <1>4 DEF MetricsPreExecute
  <2> QED
    BY <1>1, <1>2, <1>3, <2>1, <2>2 DEF GaugeInv, GaugeDrift
<1>5. CASE MetricsOnError(w)
  <2>1. PICK e : Become(w, e) /\ Executing(worker[w]) /\ Executing(e)
    BY <1>2, <1>5, MeasuredMoves DEF MetricsOnError
  <2>2. gauge' = gauge - 1 /\ handled' = handled + 1 /\ abandoned' = abandoned
    BY <1>5 DEF MetricsOnError
  <2> QED
    BY <1>1, <1>2, <1>3, <2>1, <2>2 DEF GaugeInv, GaugeDrift
<1>6. CASE MetricsPostExecute(w)
  <2>1. PICK e : Become(w, e) /\ Executing(worker[w]) /\ ~ Executing(e)
    <3>1. PostExecuteSkips(w) \/ (worker[w].hook = "post" /\ Emit(w))
      BY <1>6, Zenon DEF MetricsPostExecute
    <3>2. CASE PostExecuteSkips(w)
      BY <1>2, <3>2, MeasuredMoves, Zenon
    <3>3. CASE worker[w].hook = "post" /\ Emit(w)
      BY <1>2, <3>3, MeasuredMoves, Zenon
    <3> QED
      BY <3>1, <3>2, <3>3
  <2>2. gauge' = gauge - 1 /\ handled' = handled /\ abandoned' = abandoned
    BY <1>6 DEF MetricsPostExecute
  <2> QED
    BY <1>1, <1>2, <1>3, <2>1, <2>2 DEF GaugeInv, GaugeDrift
<1>7. CASE Unmeasured(w)
  <2>1. gauge' = gauge /\ handled' = handled
    BY <1>7 DEF Unmeasured
  <2>2. PICK e :
          /\ Become(w, e)
          /\ \/ Executing(worker[w]) /\ (Executing(e) \/ e.pc = "stuck")
             \/ ~ Executing(worker[w]) /\ e.pc = "idle"
             \/ e.pc = worker[w].pc
    <3>1. CASE Work(w) /\ ~ PostExecuteSkips(w)
      BY <1>2, <3>1, WorkMoves
    <3>2. CASE worker[w].hook = "pre" /\ Emit(w)
      BY <1>2, <3>2, MeasuredMoves
    <3>3. CASE ChannelLost(w)
      BY <1>2, <3>3, MeasuredMoves
    <3> QED
      BY <1>7, <3>1, <3>2, <3>3 DEF Unmeasured
  <2>3. abandoned' = IF worker[w].pc # "stuck" /\ e.pc = "stuck"
                     THEN abandoned + 1 ELSE abandoned
    BY <1>3, <1>7, <2>2 DEF Unmeasured
  <2>4. /\ Executing(worker[w]) => worker[w].pc # "stuck"
        /\ Executing(e) => e.pc # "stuck"
        /\ e.pc = "stuck" \/ e.pc = "idle" => ~ Executing(e)
        /\ e.pc = worker[w].pc => (Executing(e) <=> Executing(worker[w]))
    BY DEF Executing
  <2>5. Cardinality(Running') + abandoned' = Cardinality(Running) + abandoned
    <3>1. CASE Executing(worker[w]) /\ e.pc = "stuck"
      BY <1>2, <1>3, <2>2, <2>3, <2>4, <3>1
    <3>2. CASE Executing(worker[w]) /\ Executing(e)
      BY <1>2, <1>3, <2>2, <2>3, <2>4, <3>2
    <3>3. CASE ~ Executing(worker[w]) /\ e.pc = "idle"
      BY <1>2, <1>3, <2>2, <2>3, <2>4, <3>3
    <3>4. CASE e.pc = worker[w].pc
      BY <1>2, <1>3, <2>2, <2>3, <2>4, <3>4
    <3> QED
      BY <2>2, <3>1, <3>2, <3>3, <3>4
  <2>6. abandoned' \in Nat
    BY <1>2, <2>3
  <2> QED
    BY <1>1, <1>2, <1>3, <2>1, <2>2, <2>5, <2>6 DEF GaugeInv, GaugeDrift
<1> QED
  BY <1>4, <1>5, <1>6, <1>7 DEF MetricsStep

\* Nothing runs at the start.
LEMMA InitGauge == MetricsInit => GaugeInv
<1> SUFFICES ASSUME MetricsInit PROVE GaugeInv
  OBVIOUS
<1>1. AuditInv /\ gauge = 0 /\ handled = 0 /\ abandoned = 0
  BY InitAudit DEF MetricsInit
<1>2. Running = {}
  BY DEF MetricsInit, Init, Fresh, Running, Idle
<1>3. IsFiniteSet(Running) /\ Cardinality(Running) = 0
  BY <1>2, FS_EmptySet
<1> QED
  BY <1>1, <1>3 DEF GaugeInv, GaugeDrift

LEMMA NextKeepsGauge == GaugeInv /\ [MetricsNext]_metricsVars => GaugeInv'
<1> SUFFICES ASSUME GaugeInv, [MetricsNext]_metricsVars PROVE GaugeInv'
  OBVIOUS
<1>1. CASE MetricsNext
  BY <1>1, MetricsStepKeepsGauge DEF MetricsNext, MetricsStep
<1>2. CASE UNCHANGED metricsVars
  <2>1. UNCHANGED vars /\ UNCHANGED <<gauge, handled, abandoned>>
    BY <1>2 DEF metricsVars, metrics
  <2>2. AuditInv' /\ worker' = worker
    BY <2>1, NextKeepsAudit DEF GaugeInv, SoundStep, vars
  <2> QED
    BY <2>1, <2>2 DEF GaugeInv, GaugeDrift, Running
<1> QED
  BY <1>1, <1>2

\* metrics_mw.py: tasks_in_progress is off by exactly the failed bodies that on_error
\* handled, downwards, and the deliveries that another middleware's exception ended,
\* upwards; for any number of deliveries and failures.
THEOREM GaugeDrifts == MetricsSpec => []GaugeDrift
<1>1. GaugeInv => GaugeDrift
  BY DEF GaugeInv
<1> QED
  BY <1>1, InitGauge, NextKeepsGauge, PTL DEF MetricsSpec

(***************************************************************************)
(* The realtime events                                                     *)
(***************************************************************************)

\* The status is the one every row begins in or among those the row went through.
Reached(status, statuses) == status = "PENDING" \/ status \in statuses

\* What a delivery will announce was committed: the event it holds, the decision it
\* dispatches by and, of a row that it did load, the status it may find unchanged.
AnnouncesCommitted(d, statuses) ==
    /\ Reached(d.loaded.status, statuses)
    /\ d.pc = "write" \/ Dispatching(d) => d.loaded.exists
    /\ Dispatching(d) => d.decision.status \in statuses
    /\ d.pc = "emit" => d.event \in statuses
    /\ d.attempt.retries # -1 => d.attempt.status \in {"RETRYING", "FAILED"}

EventInv ==
    /\ AuditInv
    /\ events \in Seq(Status) /\ transitions \in Seq(Status)
    /\ row.exists => /\ Reached(row.status, ToSet(transitions))
                     /\ \A w \in Worker :
                           AnnouncesCommitted(worker[w], ToSet(transitions))
                     /\ EventReportsCommitted

\* A status written to an existing row was reached when the write is committed: it was
\* the one loaded, or it is the one the row has now.
LEMMA StatusWritten ==
    ASSUME row \in Row, NEW loaded \in Row, loaded.exists,
           NEW status \in Status \ {"PENDING"}, NEW reason,
           NEW T, NEW U, T \subseteq U,
           Reached(row.status, T), Reached(loaded.status, T),
           row' = Flush(row, loaded, UpdateTaskStatus(loaded, status, reason)),
           row'.status # row.status => row'.status \in U
    PROVE  status \in U
<1> DEFINE t == UpdateTaskStatus(loaded, status, reason)
<1>1. t.status = status
  BY DEF UpdateTaskStatus, Row
<1> HIDE DEF t
<1>2. row'.status = IF status = loaded.status THEN row.status ELSE status
  BY <1>1 DEF Flush, t
<1> QED
  BY <1>2 DEF Reached

\* Flushing never makes a row appear or vanish.
LEMMA FlushExists ==
    ASSUME NEW r, NEW loaded, NEW dirty
    PROVE  Flush(r, loaded, dirty).exists = r.exists
BY DEF Flush

\* What every silent step of w shows, when U holds the statuses the row went through.
Announced(w, U) ==
    /\ row'.exists
    /\ \E e \in Delivery : Become(w, e) /\ AnnouncesCommitted(e, U)

\* Leaving a hook early, or running it again, announces nothing.
LEMMA RetryAnnounces ==
    ASSUME NEW d \in Delivery, NEW U,
           d.attempt.retries # -1 => d.attempt.status \in {"RETRYING", "FAILED"}
    PROVE  /\ Retry(d) \in Delivery /\ AnnouncesCommitted(Retry(d), U)
           /\ Raise(d) \in Delivery /\ AnnouncesCommitted(Raise(d), U)
<1>1. NoRow.status = "PENDING"
  BY DEF NoRow, NewRow
<1>2. /\ Retry(d) \in Delivery /\ Retry(d).pc \in {"load", "stuck"}
      /\ Retry(d).loaded = NoRow /\ Retry(d).attempt = d.attempt
      /\ Raise(d) \in Delivery /\ Raise(d).pc = "stuck"
      /\ Raise(d).loaded = NoRow /\ Raise(d).attempt = d.attempt
  BY RetryType, RaiseType
<1> QED
  BY <1>1, <1>2 DEF AnnouncesCommitted, Reached, Dispatching

\* Entering a hook forgets what was remembered.
LEMMA EnterAnnounces ==
    ASSUME NEW d \in Delivery, NEW hook \in Hook, NEW U, Reached(d.loaded.status, U)
    PROVE  Enter(d, hook) \in Delivery /\ AnnouncesCommitted(Enter(d, hook), U)
<1>1. /\ Enter(d, hook) \in Delivery /\ Enter(d, hook).pc = "load"
      /\ Enter(d, hook).loaded = d.loaded /\ Enter(d, hook).attempt = NoAttempt
  BY EnterType
<1>2. NoAttempt.retries = -1
  BY DEF NoAttempt
<1> QED
  BY <1>1, <1>2 DEF AnnouncesCommitted, Dispatching

LEMMA IdleAnnounces ==
    ASSUME NEW U PROVE Idle \in Delivery /\ AnnouncesCommitted(Idle, U)
<1>1. Idle.pc = "idle" /\ Idle.loaded.status = "PENDING" /\ Idle.attempt.retries = -1
  BY DEF Idle, NoRow, NewRow, NoAttempt
<1> QED
  BY <1>1, NeutralRecords DEF AnnouncesCommitted, Dispatching, Reached

\* More statuses reached, no less announced.
LEMMA AnnouncesMore ==
    ASSUME NEW d, NEW T, NEW U, T \subseteq U, AnnouncesCommitted(d, T)
    PROVE  AnnouncesCommitted(d, U)
BY DEF AnnouncesCommitted, Reached

\* A commit of newRow: when it succeeds the delivery goes on as ok.
LEMMA CommitAnnounces ==
    ASSUME AuditInv, row.exists, NEW w \in Worker, NEW outcome \in Outcome,
           NEW newRow, newRow.exists, NEW newAudit,
           NEW ok \in Delivery, NEW ko \in Delivery, NEW U,
           ko.attempt.retries # -1 => ko.attempt.status \in {"RETRYING", "FAILED"},
           row' = newRow => AnnouncesCommitted(ok, U),
           Commit(w, outcome, newRow, newAudit, ok, ko)
    PROVE  Announced(w, U)
<1>1. CASE outcome = "committed"
  <2>1. Become(w, ok) /\ row' = newRow
    BY <1>1 DEF Commit
  <2> QED
    BY <2>1 DEF Announced
<1>2. CASE outcome # "committed"
  <2>1. Become(w, Retry(ko)) /\ (row' = row \/ row' = newRow)
    BY <1>2 DEF Commit
  <2> QED
    BY <2>1, RetryAnnounces DEF Announced
<1> QED
  BY <1>1, <1>2

\* The receiver's steps and the lost deliveries.
LEMMA ReceiverAnnounces ==
    ASSUME AuditInv, row.exists, NEW w \in Worker, NEW T, NEW U, T \subseteq U,
           AnnouncesCommitted(worker[w], T),
           \/ Receive(w) \/ RunTask(w) \/ SaveAndAck(w) \/ Crash(w)
           \/ ChannelLost(w) \/ GiveBack(w)
    PROVE  Announced(w, U)
<1>1. worker[w] \in Delivery /\ row' = row /\ AnnouncesCommitted(worker[w], U)
  BY InvFacts, AnnouncesMore
     DEF Receive, RunTask, SaveAndAck, Crash, ChannelLost, GiveBack
<1>2. CASE Receive(w)
  <2> DEFINE d == [Idle EXCEPT !.held = TRUE]
  <2>1. d \in Delivery /\ d.loaded = NoRow
    BY NeutralRecords, Zenon DEF Delivery, Idle
  <2>2. Reached(d.loaded.status, U) /\ "pre" \in Hook
    BY <2>1 DEF Reached, NoRow, NewRow, Hook
  <2> QED
    BY <1>1, <1>2, <2>1, <2>2, EnterAnnounces DEF Announced, Receive
<1>3. CASE RunTask(w)
  <2>1. PICK erred \in BOOLEAN :
          Become(w, Enter([worker[w] EXCEPT !.failed = erred],
                          IF erred THEN "error" ELSE "post"))
    BY <1>3 DEF RunTask
  <2> DEFINE d    == [worker[w] EXCEPT !.failed = erred]
             hook == IF erred THEN "error" ELSE "post"
  <2>2. d \in Delivery /\ d.loaded = worker[w].loaded /\ hook \in Hook
    BY <1>1 DEF Delivery, Hook
  <2>3. Become(w, Enter(d, hook))
    BY <2>1
  <2> HIDE DEF d, hook
  <2>4. Reached(d.loaded.status, U)
    BY <1>1, <2>2 DEF AnnouncesCommitted
  <2> QED
    BY <1>1, <2>2, <2>3, <2>4, EnterAnnounces DEF Announced
<1>4. CASE SaveAndAck(w) \/ Crash(w) \/ GiveBack(w)
  BY <1>1, <1>4, IdleAnnounces DEF Announced, SaveAndAck, Crash, GiveBack
<1>5. CASE ChannelLost(w)
  <2> DEFINE e == [worker[w] EXCEPT !.held = FALSE]
  <2>1. /\ e \in Delivery /\ e.pc = worker[w].pc /\ e.loaded = worker[w].loaded
        /\ e.decision = worker[w].decision /\ e.event = worker[w].event
        /\ e.attempt = worker[w].attempt
    BY <1>1 DEF Delivery
  <2>2. Become(w, e)
    BY <1>5 DEF ChannelLost
  <2> HIDE DEF e
  <2> QED
    BY <1>1, <2>1, <2>2 DEF Announced, AnnouncesCommitted, Dispatching
<1> QED
  BY <1>2, <1>3, <1>4, <1>5

\* What a step of w must respect: the statuses reached before it, T, and after it, U.
Reaches(w, T, U) ==
    /\ row.exists /\ Reached(row.status, T) /\ AnnouncesCommitted(worker[w], T)
    /\ T \subseteq U
    /\ row'.status # row.status => row'.status \in U

\* pre_execute and post_execute write to the row they loaded.
LEMMA SetStatusAnnounces ==
    ASSUME AuditInv, NEW w \in Worker, NEW outcome \in Outcome, NEW T, NEW U,
           Reaches(w, T, U), worker[w].pc = "write",
           NEW status \in Status \ {"PENDING"}, NEW reason,
           SetStatus(w, outcome, status, reason)
    PROVE  Announced(w, U)
<1> DEFINE d      == worker[w]
           t      == UpdateTaskStatus(d.loaded, status, reason)
           newRow == Flush(row, d.loaded, t)
           ok     == Finish(d, status)
<1>1. d \in Delivery /\ d.loaded \in Row /\ row \in Row /\ d.loaded.exists
  BY InvFacts DEF Delivery, Reaches, AnnouncesCommitted
<1>2. newRow.exists
  BY FlushExists DEF Reaches
<1>3. Commit(w, outcome, newRow, audit, ok, d)
  BY DEF SetStatus
<1>4. ASSUME row' = newRow PROVE AnnouncesCommitted(ok, U)
  <2>1. status \in U
    BY <1>1, <1>4, StatusWritten DEF Reaches, AnnouncesCommitted
  <2>2. /\ ok.pc = "emit" /\ ok.event = status /\ ok.loaded = NoRow
        /\ ok.attempt = d.attempt
    BY <1>1 DEF Finish, Delivery
  <2>3. NoRow.status = "PENDING"
    BY DEF NoRow, NewRow
  <2> HIDE DEF ok
  <2> QED
    BY <2>1, <2>2, <2>3 DEF Reaches, AnnouncesCommitted, Reached, Dispatching
<1>5. ok \in Delivery
  BY <1>1, FinishType
<1>6. d.attempt.retries # -1 => d.attempt.status \in {"RETRYING", "FAILED"}
  BY DEF Reaches, AnnouncesCommitted
<1> HIDE DEF d, t, newRow, ok
<1> QED
  BY <1>1, <1>2, <1>3, <1>4, <1>5, <1>6, CommitAnnounces DEF Reaches

\* pre_execute, post_execute and the failing reads.
LEMMA HooksAnnounce ==
    ASSUME AuditInv, NEW w \in Worker, NEW outcome \in Outcome, NEW T, NEW U,
           Reaches(w, T, U),
           \/ LoadFails(w) \/ UnretriedError(w) \/ Load(w) \/ PreExecute(w, outcome)
           \/ PostExecuteSkips(w) \/ PostExecute(w, outcome)
    PROVE  Announced(w, U)
<1>1. /\ worker[w] \in Delivery /\ row \in Row /\ row.exists
      /\ Reached(row.status, U) /\ AnnouncesCommitted(worker[w], U)
  BY InvFacts, AnnouncesMore DEF Reaches, Reached
<1>2. CASE LoadFails(w) \/ UnretriedError(w)
  <2>1. row' = row /\ (Become(w, Retry(worker[w])) \/ Become(w, Raise(worker[w])))
    BY <1>2 DEF LoadFails, UnretriedError
  <2> QED
    BY <1>1, <2>1, RetryAnnounces DEF Announced, AnnouncesCommitted
<1>3. CASE Load(w)
  <2> DEFINE e == [worker[w] EXCEPT !.pc = "write", !.loaded = row]
  <2>1. /\ e \in Delivery /\ e.pc = "write" /\ e.loaded = row
        /\ e.attempt = worker[w].attempt
    BY <1>1 DEF Delivery, PC
  <2>2. Become(w, e) /\ row' = row
    BY <1>3 DEF Load
  <2> HIDE DEF e
  <2> QED
    BY <1>1, <2>1, <2>2 DEF Announced, AnnouncesCommitted, Dispatching
<1>4. CASE PostExecuteSkips(w)
  <2> DEFINE e == [worker[w] EXCEPT !.pc = "save"]
  <2>1. /\ e \in Delivery /\ e.pc = "save" /\ e.loaded = worker[w].loaded
        /\ e.attempt = worker[w].attempt
    BY <1>1 DEF Delivery, PC
  <2>2. Become(w, e) /\ row' = row
    BY <1>4 DEF PostExecuteSkips
  <2> HIDE DEF e
  <2> QED
    BY <1>1, <2>1, <2>2 DEF Announced, AnnouncesCommitted, Dispatching
<1>5. CASE PreExecute(w, outcome) \/ PostExecute(w, outcome)
  BY <1>5, SetStatusAnnounces DEF PreExecute, PostExecute, At, Status
<1> QED
  BY <1>2, <1>3, <1>4, <1>5

\* A replay that finds its decision recorded announces what it finds.
LEMMA OnErrorLoadAnnounces ==
    ASSUME AuditInv, NEW w \in Worker, NEW T, NEW U, Reaches(w, T, U), OnErrorLoad(w)
    PROVE  Announced(w, U)
<1> DEFINE d   == worker[w]
           dec == ResolveRetryDecision(row, d.attempt, gate)
           at(pc) == [d EXCEPT !.pc = pc, !.loaded = row, !.decision = dec]
           e   == IF ~ dec.recorded THEN at("write")
                  ELSE IF dec.allowed THEN at("lookup")
                  ELSE FinishUndispatched(d, dec)
<1>1. /\ d \in Delivery /\ d.attempt \in OnErrorAttempt /\ row \in Row /\ gate \in Gate
      /\ row.exists /\ row' = row /\ Reached(row.status, U) /\ AnnouncesCommitted(d, U)
  BY InvFacts, AnnouncesMore DEF OnErrorLoad, Delivery, Reaches, Reached
<1>2. /\ dec \in Decision
      /\ dec.recorded <=> RetryAlreadyRecorded(row, d.attempt)
  BY <1>1, ResolveRetryDecisionType
<1>3. dec.recorded => dec.status = d.attempt.status
  BY DEF ResolveRetryDecision
<1>4. Become(w, e)
  BY DEF OnErrorLoad
<1> HIDE DEF d, dec
<1>5. dec.recorded => dec.status \in U
  <2>1. ASSUME dec.recorded
        PROVE  d.attempt.retries # -1 /\ row.status = d.attempt.status
    BY <1>1, <1>2, <2>1, MaxRetriesAssumption DEF RetryAlreadyRecorded, Row
  <2> QED
    BY <1>1, <1>3, <2>1 DEF AnnouncesCommitted, Reached
<1>6. ASSUME NEW pc \in PC
      PROVE  /\ at(pc) \in Delivery /\ at(pc).pc = pc /\ at(pc).loaded = row
             /\ at(pc).decision = dec /\ at(pc).attempt = d.attempt
  BY <1>1, <1>2 DEF Delivery
<1> HIDE DEF at
<1>7. CASE ~ dec.recorded
  <2>1. "write" \in PC
    BY DEF PC
  <2> QED
    BY <1>1, <1>4, <1>6, <1>7, <2>1 DEF Announced, AnnouncesCommitted, Dispatching
<1>8. CASE dec.recorded /\ dec.allowed
  <2>1. "lookup" \in PC
    BY DEF PC
  <2> QED
    BY <1>1, <1>4, <1>5, <1>6, <1>8, <2>1 DEF Announced, AnnouncesCommitted, Dispatching
<1>9. CASE dec.recorded /\ ~ dec.allowed
  <2> DEFINE f == FinishUndispatched(d, dec)
  <2>1. f \in Delivery /\ f.pc = "emit" /\ f.loaded = NoRow /\ f.attempt = d.attempt
    BY <1>1, <1>2, FinishUndispatchedType
  <2>2. f.event = dec.status
    BY <1>1 DEF FinishUndispatched, Finish, Delivery
  <2>3. NoRow.status = "PENDING" /\ e = f
    BY <1>9 DEF NoRow, NewRow
  <2> HIDE DEF e, f
  <2> QED
    BY <1>1, <1>4, <1>5, <1>9, <2>1, <2>2, <2>3
       DEF Announced, AnnouncesCommitted, Reached, Dispatching
<1> QED
  BY <1>7, <1>8, <1>9

\* The recovery and the send leave the row and the decision alone.
LEMMA DispatchAnnounces ==
    ASSUME AuditInv, NEW w \in Worker, NEW T, NEW U, Reaches(w, T, U),
           \/ RecoverDispatch(w) \/ RequeueSent(w) \/ RequeueRefused(w)
           \/ RequeueUnconfirmed(w)
    PROVE  Announced(w, U)
<1> DEFINE d == worker[w]
<1>1. /\ d \in Delivery /\ row' = row /\ row.exists /\ AnnouncesCommitted(d, U)
      /\ Dispatching(d)
  BY InvFacts, AnnouncesMore
     DEF RecoverDispatch, RequeueSent, RequeueRefused, RequeueUnconfirmed, At, Dispatching,
         Reaches
<1>2. \/ Become(w, Retry(d))
      \/ \E pc \in {"requeue", "mark", "undispatched"} : Become(w, [d EXCEPT !.pc = pc])
      \/ Become(w, [d EXCEPT !.pc = "mark", !.resent = @ + 1])
  <2>1. CASE RecoverDispatch(w)
    BY <2>1 DEF RecoverDispatch
  <2>2. CASE RequeueSent(w)
    <3>1. Become(w, [d EXCEPT !.pc = "mark", !.resent = @ + 1])
      BY <2>2, Zenon DEF RequeueSent
    <3> QED
      BY <3>1
  <2>3. CASE RequeueRefused(w) \/ RequeueUnconfirmed(w)
    <3>1. Become(w, [d EXCEPT !.pc = "undispatched"])
      BY <2>3, Zenon DEF RequeueRefused, RequeueUnconfirmed
    <3> QED
      BY <3>1
  <2> QED
    BY <2>1, <2>2, <2>3
<1>3. CASE Become(w, Retry(d))
  BY <1>1, <1>3, RetryAnnounces DEF Announced, AnnouncesCommitted
<1>4. ASSUME NEW e \in Delivery, Become(w, e), e.pc \in {"requeue", "mark", "undispatched"},
             e.loaded = d.loaded, e.decision = d.decision, e.attempt = d.attempt
      PROVE  Announced(w, U)
  BY <1>1, <1>4 DEF Announced, AnnouncesCommitted, Dispatching
<1>5. CASE \E pc \in {"requeue", "mark", "undispatched"} : Become(w, [d EXCEPT !.pc = pc])
  <2>1. PICK pc \in {"requeue", "mark", "undispatched"} : Become(w, [d EXCEPT !.pc = pc])
    BY <1>5
  <2> DEFINE e == [d EXCEPT !.pc = pc]
  <2>2. /\ e \in Delivery /\ e.pc = pc /\ e.loaded = d.loaded
        /\ e.decision = d.decision /\ e.attempt = d.attempt
    BY <1>1 DEF Delivery, PC
  <2> QED
    BY <1>4, <2>1, <2>2
<1>6. CASE Become(w, [d EXCEPT !.pc = "mark", !.resent = @ + 1])
  <2> DEFINE e == [d EXCEPT !.pc = "mark", !.resent = @ + 1]
  <2>1. /\ e \in Delivery /\ e.pc = "mark" /\ e.loaded = d.loaded
        /\ e.decision = d.decision /\ e.attempt = d.attempt
    <3>1. d.resent + 1 \in Nat /\ "mark" \in PC
      BY <1>1 DEF Delivery, PC
    <3> QED
      BY <1>1, <3>1 DEF Delivery
  <2> QED
    BY <1>4, <1>6, <2>1
<1> QED
  BY <1>2, <1>3, <1>5, <1>6

\* Recording an error: RETRYING is reached before the send, FAILED before the emit.
LEMMA RecordErrorStatusAnnounces ==
    ASSUME AuditInv, NEW w \in Worker, NEW outcome \in Outcome, NEW T, NEW U,
           Reaches(w, T, U), RecordErrorStatus(w, outcome)
    PROVE  Announced(w, U)
<1> DEFINE d      == worker[w]
           dec    == d.decision
           t      == UpdateTaskStatus(d.loaded, dec.status, dec.reason)
           newRow == Flush(row, d.loaded, t)
           newAudit == AuditDecision(audit, dec)
<1>1. /\ d \in Delivery /\ d.loaded \in Row /\ row \in Row /\ row.exists
      /\ d.loaded.exists
  BY InvFacts DEF Delivery, Reaches, AnnouncesCommitted, RecordErrorStatus, At
<1>2. PICK ok \in Delivery, ko \in Delivery :
         /\ Commit(w, outcome, newRow, newAudit, ok, ko)
         /\ dec.status = IF dec.allowed \/ dec.shadowed THEN "RETRYING" ELSE "FAILED"
         /\ ko.attempt.status = dec.status /\ ok.attempt = ko.attempt
         /\ IF dec.allowed
            THEN ok.pc = "requeue" /\ ok.loaded = newRow /\ ok.decision = dec
            ELSE ok.pc = "emit" /\ ok.loaded = NoRow /\ ok.event = dec.status
  BY RecordErrorStatusParts
<1>3. dec.status \in Status \ {"PENDING"} /\ dec.status \in {"RETRYING", "FAILED"}
  BY <1>2 DEF Status
<1>4. newRow.exists /\ NoRow.status = "PENDING"
  BY <1>1, FlushExists DEF NoRow, NewRow
<1>5. ASSUME row' = newRow PROVE AnnouncesCommitted(ok, U)
  <2>1. dec.status \in U
    BY <1>1, <1>3, <1>5, StatusWritten DEF Reaches, AnnouncesCommitted
  <2>2. Reached(newRow.status, U)
    <3>1. Reached(row'.status, U)
      BY DEF Reaches, Reached
    <3> QED
      BY <1>5, <3>1
  <2> HIDE DEF newRow, newAudit, dec
  <2> QED
    BY <1>2, <1>3, <1>4, <2>1, <2>2 DEF AnnouncesCommitted, Reached, Dispatching
<1> HIDE DEF newRow, newAudit, dec
<1> QED
  BY <1>1, <1>2, <1>3, <1>4, <1>5, CommitAnnounces

\* The end of a dispatch announces the decision, or the failure it recorded.
LEMMA DispatchEndAnnounces ==
    ASSUME AuditInv, NEW w \in Worker, NEW outcome \in Outcome, NEW T, NEW U,
           Reaches(w, T, U),
           MarkDispatched(w, outcome) \/ RetryDispatchFailed(w, outcome)
    PROVE  Announced(w, U)
<1> DEFINE d == worker[w]
<1>1. /\ d \in Delivery /\ row \in Row /\ row.exists /\ d.loaded \in Row
      /\ d.loaded.exists /\ d.decision.status \in Status
      /\ AnnouncesCommitted(d, U) /\ Dispatching(d)
      /\ NoRow.status = "PENDING"
  BY InvFacts, AnnouncesMore
     DEF MarkDispatched, RetryDispatchFailed, Dispatching, Delivery, Decision, Reaches,
         AnnouncesCommitted, NoRow, NewRow
<1>2. CASE MarkDispatched(w, outcome)
  <2> DEFINE newAudit == MarkTaskAttemptDispatched(audit, ClaimNumber(d))
             e  == [d EXCEPT !.noResult = TRUE]
             ok == Finish(e, d.decision.status)
  <2>1. \/ row' = row /\ Become(w, Retry(d))
        \/ Commit(w, outcome, row, newAudit, ok, d)
    BY <1>2 DEF MarkDispatched
  <2>2. e \in Delivery /\ e.attempt = d.attempt
    BY <1>1 DEF Delivery
  <2>3. ok \in Delivery /\ ok.pc = "emit" /\ ok.loaded = NoRow /\ ok.attempt = d.attempt
    BY <1>1, <2>2, FinishType
  <2>4. ok.event = d.decision.status
    BY <2>2 DEF Finish, Delivery
  <2> HIDE DEF newAudit, ok
  <2>5. AnnouncesCommitted(ok, U)
    BY <1>1, <2>3, <2>4 DEF AnnouncesCommitted, Reached, Dispatching
  <2>6. d.attempt.retries # -1 => d.attempt.status \in {"RETRYING", "FAILED"}
    BY <1>1 DEF AnnouncesCommitted
  <2>7. CASE row' = row /\ Become(w, Retry(d))
    BY <1>1, <2>6, <2>7, RetryAnnounces DEF Announced
  <2>8. CASE Commit(w, outcome, row, newAudit, ok, d)
    BY <1>1, <2>3, <2>5, <2>6, <2>8, CommitAnnounces
  <2> QED
    BY <2>1, <2>7, <2>8
<1>3. CASE RetryDispatchFailed(w, outcome)
  <2> DEFINE t      == UpdateTaskStatus(d.loaded, "FAILED", "dispatch_error")
             newRow == Flush(row, d.loaded, t)
  <2>1. PICK newAudit, ok, ko :
           /\ Commit(w, outcome, newRow, newAudit, ok, ko)
           /\ ok \in Delivery /\ ko \in Delivery
           /\ ko.attempt.status = "FAILED" /\ ok.attempt = ko.attempt
           /\ ok.pc = "emit" /\ ok.loaded = NoRow /\ ok.event = "FAILED"
    BY <1>3, RetryDispatchFailedParts
  <2>2. newRow.exists
    BY <1>1, FlushExists
  <2>3. ASSUME row' = newRow PROVE AnnouncesCommitted(ok, U)
    <3>1. "FAILED" \in Status \ {"PENDING"}
      BY DEF Status
    <3>2. "FAILED" \in U
      BY <1>1, <2>3, <3>1, StatusWritten DEF Reaches, AnnouncesCommitted
    <3> QED
      BY <1>1, <2>1, <3>2 DEF AnnouncesCommitted, Reached, Dispatching
  <2> HIDE DEF newRow
  <2> QED
    BY <1>1, <2>1, <2>2, <2>3, CommitAnnounces
<1> QED
  BY <1>2, <1>3

\* Every silent step.
LEMMA SilentAnnounces ==
    ASSUME AuditInv, NEW w \in Worker, NEW T, NEW U, Reaches(w, T, U),
           Receive(w) \/ Work(w) \/ Crash(w) \/ ChannelLost(w)
    PROVE  Announced(w, U)
<1>1. CASE Receive(w) \/ RunTask(w) \/ SaveAndAck(w) \/ Crash(w)
             \/ ChannelLost(w) \/ GiveBack(w)
  BY <1>1, ReceiverAnnounces DEF Reaches
<1>2. CASE LoadFails(w) \/ UnretriedError(w) \/ Load(w) \/ PostExecuteSkips(w)
  <2>1. "committed" \in Outcome
    BY DEF Outcome
  <2> QED
    BY <1>2, <2>1, HooksAnnounce
<1>3. CASE OnErrorLoad(w)
  BY <1>3, OnErrorLoadAnnounces
<1>4. CASE RecoverDispatch(w) \/ RequeueSent(w) \/ RequeueRefused(w)
             \/ RequeueUnconfirmed(w)
  BY <1>4, DispatchAnnounces
<1>5. CASE \E outcome \in Outcome :
              \/ PreExecute(w, outcome)
              \/ RecordErrorStatus(w, outcome)
              \/ MarkDispatched(w, outcome)
              \/ RetryDispatchFailed(w, outcome)
              \/ PostExecute(w, outcome)
  BY <1>5, HooksAnnounce, RecordErrorStatusAnnounces, DispatchEndAnnounces
<1> QED
  BY <1>1, <1>2, <1>3, <1>4, <1>5 DEF Work

\* No step of a delivery creates a row: a missing one stays missing.
LEMMA RowNeverAppears ==
    ASSUME AuditInv, NEW w \in Worker,
           Receive(w) \/ Work(w) \/ Crash(w) \/ ChannelLost(w)
    PROVE  row'.exists = row.exists
<1>1. ASSUME NEW outcome, NEW newRow, NEW newAudit, NEW ok, NEW ko,
             Commit(w, outcome, newRow, newAudit, ok, ko), newRow.exists = row.exists
      PROVE  row'.exists = row.exists
  BY <1>1 DEF Commit
<1>2. CASE \E outcome \in Outcome :
              \/ PreExecute(w, outcome)
              \/ RecordErrorStatus(w, outcome)
              \/ MarkDispatched(w, outcome)
              \/ RetryDispatchFailed(w, outcome)
              \/ PostExecute(w, outcome)
  <2>1. PICK outcome \in Outcome :
              \/ PreExecute(w, outcome)
              \/ RecordErrorStatus(w, outcome)
              \/ MarkDispatched(w, outcome)
              \/ RetryDispatchFailed(w, outcome)
              \/ PostExecute(w, outcome)
    BY <1>2
  <2>2. CASE PreExecute(w, outcome) \/ PostExecute(w, outcome)
    BY <1>1, <2>2, FlushExists DEF PreExecute, PostExecute, SetStatus
  <2>3. CASE RecordErrorStatus(w, outcome)
    BY <1>1, <2>3, FlushExists DEF RecordErrorStatus
  <2>4. CASE MarkDispatched(w, outcome)
    BY <1>1, <2>4 DEF MarkDispatched
  <2>5. CASE RetryDispatchFailed(w, outcome)
    BY <1>1, <2>5, FlushExists DEF RetryDispatchFailed
  <2> QED
    BY <2>1, <2>2, <2>3, <2>4, <2>5
<1>3. CASE ~ \E outcome \in Outcome :
              \/ PreExecute(w, outcome)
              \/ RecordErrorStatus(w, outcome)
              \/ MarkDispatched(w, outcome)
              \/ RetryDispatchFailed(w, outcome)
              \/ PostExecute(w, outcome)
  <2>1. row' = row
    BY <1>3, Zenon
       DEF Receive, Work, Crash, ChannelLost, LoadFails, UnretriedError, Load, OnErrorLoad,
           RecoverDispatch, RequeueSent, RequeueRefused, RequeueUnconfirmed,
           PostExecuteSkips, RunTask, SaveAndAck, GiveBack
  <2> QED
    BY <2>1
<1> QED
  BY <1>2, <1>3

\* An emit announces what the delivery held, and leaves it with nothing to announce.
LEMMA EmitAnnounces ==
    ASSUME AuditInv, row.exists, NEW w \in Worker, NEW T,
           AnnouncesCommitted(worker[w], T), Emit(w)
    PROVE  /\ Announced(w, T)
           /\ worker[w].event \in T
           /\ \E e : Become(w, e) /\ e.pc # "emit"
<1> DEFINE d == [worker[w] EXCEPT !.event = "PENDING"]
           e == CASE d.hook = "pre"   -> [d EXCEPT !.pc = "run"]
                  [] d.hook = "error" -> Enter(d, "post")
                  [] d.hook = "post"  -> [d EXCEPT !.pc = "save"]
<1>1. Become(w, e) /\ row' = row /\ worker[w].pc = "emit"
  BY DEF Emit
<1>2. /\ d \in Delivery /\ d.loaded = worker[w].loaded /\ d.attempt = worker[w].attempt
      /\ d.hook \in {"pre", "error", "post"}
  BY InvFacts DEF Delivery, Status, Hook
<1> HIDE DEF d
<1>3. CASE d.hook = "error"
  <2>1. "post" \in Hook /\ Reached(d.loaded.status, T)
    BY <1>2 DEF Hook, AnnouncesCommitted
  <2>2. Enter(d, "post").pc = "load"
    BY <1>2, <2>1, EnterType
  <2>3. e = Enter(d, "post")
    BY <1>3
  <2> QED
    BY <1>1, <1>2, <2>1, <2>2, <2>3, EnterAnnounces DEF Announced, AnnouncesCommitted
<1>4. CASE d.hook # "error"
  <2>1. e = [d EXCEPT !.pc = "run"] \/ e = [d EXCEPT !.pc = "save"]
    BY <1>2, <1>4
  <2> HIDE DEF e
  <2>2. /\ e \in Delivery /\ e.pc \in {"run", "save"} /\ e.loaded = worker[w].loaded
        /\ e.attempt = worker[w].attempt
    BY <1>2, <2>1 DEF Delivery, PC
  <2> QED
    BY <1>1, <2>2 DEF Announced, AnnouncesCommitted, Dispatching
<1> QED
  BY <1>3, <1>4

\* What is appended to a sequence is added to its elements.
LEMMA AppendToSet ==
    ASSUME NEW S, NEW seq \in Seq(S), NEW x \in S
    PROVE  /\ Append(seq, x) \in Seq(S)
           /\ ToSet(Append(seq, x)) = ToSet(seq) \cup {x}
<1> DEFINE new == Append(seq, x)
<1>1. /\ new \in Seq(S) /\ DOMAIN seq = 1 .. Len(seq) /\ Len(seq) \in Nat
      /\ DOMAIN new = 1 .. (Len(seq) + 1)
      /\ new[Len(seq) + 1] = x /\ \A i \in 1 .. Len(seq) : new[i] = seq[i]
  OBVIOUS
<1> HIDE DEF new
<1>2. \A i : i \in DOMAIN new <=> i \in DOMAIN seq \/ i = Len(seq) + 1
  BY <1>1
<1>3. ToSet(new) = ToSet(seq) \cup {x}
  BY <1>1, <1>2 DEF ToSet
<1> QED
  BY <1>1, <1>3 DEF new

\* The frame of the event invariant: one delivery moves.
LEMMA EventFrame ==
    ASSUME EventInv, AuditInv', NEW w \in Worker, row.exists,
           events' \in Seq(Status), transitions' \in Seq(Status),
           ToSet(transitions) \subseteq ToSet(transitions'),
           Reached(row'.status, ToSet(transitions')),
           Announced(w, ToSet(transitions')),
           ToSet(events') \subseteq ToSet(transitions')
    PROVE  EventInv'
<1> DEFINE T == ToSet(transitions)
           U == ToSet(transitions')
<1>1. PICK e \in Delivery : Become(w, e) /\ AnnouncesCommitted(e, U)
  BY DEF Announced
<1>2. ASSUME NEW v \in Worker
      PROVE  AnnouncesCommitted(worker'[v], U)
  <2>1. worker'[v] = IF v = w THEN e ELSE worker[v]
    BY <1>1 DEF Become, EventInv, AuditInv, TypeOK
  <2>2. AnnouncesCommitted(worker[v], U)
    BY AnnouncesMore DEF EventInv
  <2> QED
    BY <1>1, <2>1, <2>2
<1> QED
  BY <1>2 DEF EventInv, EventReportsCommitted

\* The emits and the silent steps are the steps of the deliveries.
LEMMA EmittingIsStep ==
    ASSUME NEW w \in Worker, Emitting(w) PROVE Next
BY DEF Emitting, EmitStatusEvent, SilentStep, Next, Step

LEMMA EmittingKeepsEvents ==
    ASSUME EventInv, NEW w \in Worker, Emitting(w)
    PROVE  EventInv'
<1> DEFINE T == ToSet(transitions)
           U == ToSet(transitions')
<1>1. /\ AuditInv /\ AuditInv' /\ row \in Row /\ row' \in Row /\ worker[w] \in Delivery
      /\ events \in Seq(Status) /\ transitions \in Seq(Status)
  BY EmittingIsStep, NextKeepsAudit, InvFacts
     DEF EventInv, SoundStep, AuditInv, TypeOK
<1>2. worker[w].event \in Status /\ row'.status \in Status
  BY <1>1 DEF Delivery, Row
<1>3. CASE EmitStatusEvent(w)
  <2>1. /\ events' = Append(events, worker[w].event)
        /\ transitions' = transitions /\ row' = row
    BY <1>3 DEF EmitStatusEvent, Emit
  <2>2. events' \in Seq(Status) /\ ToSet(events') = ToSet(events) \cup {worker[w].event}
    BY <1>1, <1>2, <2>1, AppendToSet
  <2>3. CASE row.exists
    <3>1. Announced(w, T) /\ worker[w].event \in T
      BY <1>1, <1>3, <2>3, EmitAnnounces DEF EventInv, EmitStatusEvent
    <3>2. ToSet(events') \subseteq U /\ Reached(row'.status, U)
      BY <2>1, <2>2, <2>3, <3>1 DEF EventInv, EventReportsCommitted
    <3>3. transitions' \in Seq(Status) /\ T \subseteq U /\ Announced(w, U)
      BY <1>1, <2>1, <3>1
    <3> HIDE DEF T, U
    <3> QED
      BY <1>1, <2>2, <2>3, <3>2, <3>3, EventFrame DEF T, U
  <2>4. CASE ~ row.exists
    BY <1>1, <2>1, <2>2, <2>4 DEF EventInv
  <2> QED
    BY <2>3, <2>4
<1>4. CASE SilentStep(w)
  <2>1. /\ events' = events
        /\ transitions' = IF row'.status = row.status THEN transitions
                          ELSE Append(transitions, row'.status)
    BY <1>4 DEF SilentStep
  <2>2. /\ transitions' \in Seq(Status)
        /\ U = IF row'.status = row.status THEN T ELSE T \cup {row'.status}
    <3>1. CASE row'.status = row.status
      BY <1>1, <2>1, <3>1
    <3>2. CASE row'.status # row.status
      <4> DEFINE status == row'.status
      <4>1. status \in Status /\ transitions' = Append(transitions, status)
        BY <1>2, <2>1, <3>2
      <4> HIDE DEF status
      <4>2. /\ transitions' \in Seq(Status)
            /\ ToSet(transitions') = ToSet(transitions) \cup {status}
        BY <1>1, <4>1, AppendToSet
      <4> QED
        BY <3>2, <4>2 DEF status
    <3> QED
      BY <3>1, <3>2
  <2>3. CASE row.exists
    <3>1. Reaches(w, T, U)
      BY <2>2, <2>3 DEF EventInv, Reaches
    <3>2. Announced(w, U)
      BY <1>1, <1>4, <3>1, SilentAnnounces DEF SilentStep
    <3>3. Reached(row'.status, U) /\ T \subseteq U
      BY <2>2, <2>3 DEF EventInv, Reached
    <3>4. ToSet(events') \subseteq U
      BY <2>1, <2>3, <3>3 DEF EventInv, EventReportsCommitted
    <3> QED
      BY <1>1, <2>1, <2>2, <2>3, <3>2, <3>3, <3>4, EventFrame
  <2>4. CASE ~ row.exists
    <3>1. ~ row'.exists
      BY <1>1, <1>4, <2>4, RowNeverAppears DEF SilentStep
    <3> QED
      BY <1>1, <2>1, <2>2, <3>1 DEF EventInv
  <2> QED
    BY <2>3, <2>4
<1> QED
  BY <1>3, <1>4 DEF Emitting

LEMMA InitEvents == EventInit => EventInv
<1> SUFFICES ASSUME EventInit PROVE EventInv
  OBVIOUS
<1>1. AuditInv /\ events = << >> /\ transitions = << >>
  BY InitAudit DEF EventInit
<1>2. row.status = "PENDING" /\ \A w \in Worker : worker[w] = Idle
  BY DEF EventInit, Init, Fresh, NewRow, NoRow
<1>3. events \in Seq(Status) /\ transitions \in Seq(Status) /\ ToSet(events) = {}
  BY <1>1 DEF ToSet
<1> QED
  BY <1>1, <1>2, <1>3, IdleAnnounces DEF EventInv, EventReportsCommitted, Reached

LEMMA NextKeepsEvents == EventInv /\ [EventNext]_eventVars => EventInv'
<1> SUFFICES ASSUME EventInv, [EventNext]_eventVars PROVE EventInv'
  OBVIOUS
<1>1. CASE EventNext
  BY <1>1, EmittingKeepsEvents DEF EventNext, Emitting
<1>2. CASE UNCHANGED eventVars
  <2>1. UNCHANGED vars /\ events' = events /\ transitions' = transitions
    BY <1>2 DEF eventVars
  <2>2. AuditInv' /\ worker' = worker /\ row' = row
    BY <2>1, NextKeepsAudit DEF EventInv, SoundStep, vars
  <2> QED
    BY <2>1, <2>2 DEF EventInv, EventReportsCommitted
<1> QED
  BY <1>1, <1>2

\* state_tracking.py and realtime/emitter.py: a realtime event about an existing row
\* reports a status that was committed before, through every failure, replay, redelivery
\* and crash, for any number of deliveries.
THEOREM EventsFollowCommits == EventSpec => []EventReportsCommitted
<1>1. EventInv => EventReportsCommitted
  BY DEF EventInv, EventReportsCommitted
<1> QED
  BY <1>1, InitEvents, NextKeepsEvents, PTL DEF EventSpec

(***************************************************************************)
(* No transition stays silent                                              *)
(***************************************************************************)

\* The deliveries that are about to announce this status.
Announcers(status) == {w \in Worker : worker[w].pc = "emit" /\ worker[w].event = status}

\* Each start or outcome the row went through was announced, is about to be, or was
\* reported to its delivery as a database failure.
TransitionsAccounted ==
    \A status \in {"RUNNING", "COMPLETED", "FAILED"} :
        /\ IsFiniteSet(Announcers(status))
        /\ Occurrences(events, status) + Cardinality(Announcers(status)) + faults.db
              >= Occurrences(transitions, status)

\* An element more is one occurrence more of itself.
LEMMA AppendOccurrences ==
    ASSUME NEW seq \in Seq(Status), NEW x \in Status, NEW status
    PROVE  /\ Occurrences(seq, status) \in Nat
           /\ Occurrences(Append(seq, x), status) =
                 Occurrences(seq, status) + (IF x = status THEN 1 ELSE 0)
<1> DEFINE at  == {i \in DOMAIN seq : seq[i] = status}
           new == Append(seq, x)
           n   == Len(seq) + 1
<1>1. /\ DOMAIN seq = 1 .. Len(seq) /\ Len(seq) \in Nat
      /\ DOMAIN new = 1 .. n /\ n \notin DOMAIN seq
      /\ new[n] = x /\ \A i \in 1 .. Len(seq) : new[i] = seq[i]
  OBVIOUS
<1>2. IsFiniteSet(at) /\ Cardinality(at) \in Nat
  <2>1. IsFiniteSet(1 .. Len(seq)) /\ at \in SUBSET (1 .. Len(seq))
    BY <1>1, FS_Interval
  <2> QED
    BY <2>1, FS_Subset, FS_CardinalityType
<1> HIDE DEF new
<1>3. {i \in DOMAIN new : new[i] = status} = at \cup (IF x = status THEN {n} ELSE {})
  <2>1. \A i : i \in DOMAIN new <=> i \in DOMAIN seq \/ i = n
    BY <1>1
  <2> HIDE DEF n
  <2> QED
    BY <1>1, <2>1
<1>4. n \notin at
  BY <1>1
<1>5. Occurrences(seq, status) = Cardinality(at)
  BY DEF Occurrences
<1>6. Occurrences(new, status) = Cardinality(at \cup (IF x = status THEN {n} ELSE {}))
  BY <1>3, Zenon DEF Occurrences
<1> HIDE DEF at, n
<1>7. Cardinality(at \cup {n}) = Cardinality(at) + 1 /\ at \cup {} = at
  BY <1>2, <1>4, FS_AddElement
<1>8. Occurrences(new, status) = Cardinality(at) + (IF x = status THEN 1 ELSE 0)
  <2>1. CASE x = status
    BY <1>2, <1>6, <1>7, <2>1
  <2>2. CASE x # status
    BY <1>2, <1>6, <1>7, <2>2
  <2> QED
    BY <2>1, <2>2
<1> QED
  BY <1>2, <1>5, <1>8 DEF new

Announces(d, status) == d.pc = "emit" /\ d.event = status

\* A step changes what is about to be announced by the delivery that takes it only.
LEMMA AnnouncersStep ==
    ASSUME worker \in [Worker -> Delivery], NEW w \in Worker, NEW e, Become(w, e),
           NEW status, IsFiniteSet(Announcers(status))
    PROVE  /\ IsFiniteSet(Announcers(status)')
           /\ Cardinality(Announcers(status)) \in Nat
           /\ Cardinality(Announcers(status)') =
                 Cardinality(Announcers(status))
                    + (IF Announces(e, status) THEN 1 ELSE 0)
                    - (IF Announces(worker[w], status) THEN 1 ELSE 0)
<1> DEFINE before == Announcers(status)
           after  == Announcers(status)'
<1>1. after = IF Announces(e, status) THEN before \cup {w} ELSE before \ {w}
  <2>1. ASSUME NEW v \in Worker
        PROVE  worker'[v] = IF v = w THEN e ELSE worker[v]
    BY DEF Become
  <2> QED
    BY <2>1 DEF Announcers, Announces
<1>2. w \in before <=> Announces(worker[w], status)
  BY DEF Announcers, Announces
<1>3. IsFiniteSet(before) /\ Cardinality(before) \in Nat
  BY FS_CardinalityType
<1> HIDE DEF before, after
<1>4. CASE Announces(e, status)
  <2>1. IsFiniteSet(after) /\ Cardinality(after) =
          IF w \in before THEN Cardinality(before) ELSE Cardinality(before) + 1
    BY <1>1, <1>3, <1>4, FS_AddElement
  <2> QED
    BY <1>2, <1>3, <1>4, <2>1 DEF before, after
<1>5. CASE ~ Announces(e, status)
  <2>1. IsFiniteSet(after) /\ Cardinality(after) =
          IF w \in before THEN Cardinality(before) - 1 ELSE Cardinality(before)
    BY <1>1, <1>3, <1>5, FS_RemoveElement
  <2> QED
    BY <1>2, <1>3, <1>5, <2>1 DEF before, after
<1> QED
  BY <1>4, <1>5

\* What every step that announces nothing shows: what was about to be announced still
\* is, and the status the row goes to is about to be, or its delivery was told of a
\* failure.  (RETRYING is announced only after the send.)
Told(w, e) ==
    /\ \A status : Announces(worker[w], status) => Announces(e, status)
    /\ faults'.db \in {faults.db, faults.db + 1}
    /\ row'.status # row.status =>
          /\ worker[w].pc # "emit"
          /\ \/ row'.status = "RETRYING"
             \/ Announces(e, row'.status)
             \/ faults'.db = faults.db + 1

\* A commit that writes the status ok announces.
LEMMA CommitTold ==
    ASSUME AuditInv, NEW w \in Worker, worker[w].pc # "emit", NEW outcome \in Outcome,
           NEW newRow, NEW newAudit, NEW ok, NEW ko,
           newRow.status # row.status =>
              newRow.status = "RETRYING" \/ Announces(ok, newRow.status),
           Commit(w, outcome, newRow, newAudit, ok, ko)
    PROVE  \E e : Become(w, e) /\ Told(w, e)
<1>1. faults \in FaultCounts /\ \A status : ~ Announces(worker[w], status)
  BY InvFacts DEF Announces
<1>2. CASE outcome = "committed"
  <2>1. Become(w, ok) /\ row' = newRow /\ faults' = faults
    BY <1>2 DEF Commit
  <2> QED
    BY <1>1, <2>1 DEF Told
<1>3. CASE outcome # "committed"
  <2>1. Become(w, Retry(ko)) /\ faults' = [faults EXCEPT !.db = @ + 1]
    BY <1>3 DEF Commit
  <2>2. faults'.db = faults.db + 1
    BY <1>1, <2>1 DEF FaultCounts
  <2> QED
    BY <1>1, <2>1, <2>2 DEF Told
<1> QED
  BY <1>2, <1>3

\* A flushed status is the row's own or the one that was set.
LEMMA FlushedStatus ==
    ASSUME NEW r, NEW loaded \in Row, NEW status, NEW reason
    PROVE  Flush(r, loaded, UpdateTaskStatus(loaded, status, reason)).status
              \in {r.status, status}
<1> DEFINE t == UpdateTaskStatus(loaded, status, reason)
<1>1. t.status \in {loaded.status, status}
  BY DEF UpdateTaskStatus, Row
<1> HIDE DEF t
<1>2. Flush(r, loaded, t).status \in {r.status, status}
  BY <1>1 DEF Flush
<1> QED
  BY <1>2 DEF t

\* The five committing steps.
LEMMA CommittingTold ==
    ASSUME AuditInv, NEW w \in Worker, NEW outcome \in Outcome,
           \/ PreExecute(w, outcome)
           \/ RecordErrorStatus(w, outcome)
           \/ MarkDispatched(w, outcome)
           \/ RetryDispatchFailed(w, outcome)
           \/ PostExecute(w, outcome)
    PROVE  \E e : Become(w, e) /\ Told(w, e)
<1> DEFINE d == worker[w]
<1>1. /\ d \in Delivery /\ d.loaded \in Row /\ faults \in FaultCounts
      /\ d.pc # "emit" /\ \A status : ~ Announces(d, status)
  BY InvFacts DEF Delivery, PreExecute, RecordErrorStatus, MarkDispatched,
                  RetryDispatchFailed, PostExecute, At, Announces
<1>2. ASSUME NEW status, NEW reason, SetStatus(w, outcome, status, reason)
      PROVE  \E e : Become(w, e) /\ Told(w, e)
  <2> DEFINE newRow == Flush(row, d.loaded, UpdateTaskStatus(d.loaded, status, reason))
  <2>1. newRow.status \in {row.status, status}
    BY <1>1, FlushedStatus
  <2>2. Announces(Finish(d, status), status)
    BY <1>1 DEF Announces, Finish, Delivery
  <2>3. Commit(w, outcome, newRow, audit, Finish(d, status), d)
    BY <1>2 DEF SetStatus
  <2> HIDE DEF newRow
  <2> QED
    BY <1>1, <2>1, <2>2, <2>3, CommitTold
<1>3. CASE PreExecute(w, outcome) \/ PostExecute(w, outcome)
  BY <1>2, <1>3 DEF PreExecute, PostExecute
<1>4. CASE RecordErrorStatus(w, outcome)
  <2> DEFINE dec    == d.decision
             newRow == Flush(row, d.loaded,
                             UpdateTaskStatus(d.loaded, dec.status, dec.reason))
             newAudit == AuditDecision(audit, dec)
  <2>1. PICK ok, ko :
           /\ Commit(w, outcome, newRow, newAudit, ok, ko)
           /\ dec.status = IF dec.allowed \/ dec.shadowed THEN "RETRYING" ELSE "FAILED"
           /\ ~ dec.allowed => ok.pc = "emit" /\ ok.event = dec.status
    BY <1>4, RecordErrorStatusParts
  <2>2. newRow.status \in {row.status, dec.status}
    BY <1>1, FlushedStatus
  <2> HIDE DEF newRow, newAudit, dec
  <2>3. newRow.status # row.status =>
           newRow.status = "RETRYING" \/ Announces(ok, newRow.status)
    BY <2>1, <2>2 DEF Announces
  <2> QED
    BY <1>1, <2>1, <2>3, CommitTold
<1>5. CASE MarkDispatched(w, outcome)
  <2> DEFINE newAudit == MarkTaskAttemptDispatched(audit, ClaimNumber(d))
             ok == Finish([d EXCEPT !.noResult = TRUE], d.decision.status)
  <2>1. \/ Become(w, Retry(d)) /\ row' = row /\ faults' = faults
        \/ Commit(w, outcome, row, newAudit, ok, d)
    BY <1>5 DEF MarkDispatched
  <2> HIDE DEF newAudit, ok
  <2>2. CASE Become(w, Retry(d)) /\ row' = row /\ faults' = faults
    BY <1>1, <2>2 DEF Told
  <2> QED
    BY <1>1, <2>1, <2>2, CommitTold
<1>6. CASE RetryDispatchFailed(w, outcome)
  <2> DEFINE newRow == Flush(row, d.loaded,
                             UpdateTaskStatus(d.loaded, "FAILED", "dispatch_error"))
  <2>1. PICK newAudit, ok, ko :
           /\ Commit(w, outcome, newRow, newAudit, ok, ko)
           /\ ok.pc = "emit" /\ ok.event = "FAILED"
    BY <1>6, RetryDispatchFailedParts
  <2>2. newRow.status \in {row.status, "FAILED"}
    BY <1>1, FlushedStatus
  <2> HIDE DEF newRow
  <2>3. newRow.status # row.status => Announces(ok, newRow.status)
    BY <2>1, <2>2 DEF Announces
  <2> QED
    BY <1>1, <2>1, <2>3, CommitTold
<1> QED
  BY <1>3, <1>4, <1>5, <1>6

\* The steps of a running process change nothing in the row without telling.
LEMMA WorkTold ==
    ASSUME AuditInv, NEW w \in Worker, Receive(w) \/ Work(w) \/ ChannelLost(w)
    PROVE  \E e : Become(w, e) /\ Told(w, e)
<1>1. worker[w] \in Delivery /\ faults \in FaultCounts
  BY InvFacts
<1>2. ASSUME NEW e, Become(w, e), row' = row, worker[w].pc # "emit",
             faults'.db \in {faults.db, faults.db + 1}
      PROVE  \E f : Become(w, f) /\ Told(w, f)
  BY <1>2 DEF Told, Announces
<1>3. CASE LoadFails(w) \/ UnretriedError(w)
  <2>1. faults'.db = faults.db + 1
    BY <1>1, <1>3 DEF LoadFails, UnretriedError, FaultCounts
  <2>2. Become(w, Retry(worker[w])) \/ Become(w, Raise(worker[w]))
    BY <1>3, Zenon DEF LoadFails, UnretriedError
  <2>3. row' = row /\ worker[w].pc # "emit"
    BY <1>3 DEF LoadFails, UnretriedError
  <2> QED
    BY <1>2, <2>1, <2>2, <2>3
<1>4. CASE RequeueRefused(w) \/ RequeueUnconfirmed(w)
  <2>1. faults'.db = faults.db
    BY <1>1, <1>4 DEF RequeueRefused, RequeueUnconfirmed, FaultCounts
  <2>2. Become(w, [worker[w] EXCEPT !.pc = "undispatched"])
    BY <1>4, Zenon DEF RequeueRefused, RequeueUnconfirmed
  <2>3. row' = row /\ worker[w].pc # "emit"
    BY <1>4 DEF RequeueRefused, RequeueUnconfirmed
  <2> QED
    BY <1>2, <2>1, <2>2, <2>3
<1>5. CASE Receive(w) \/ SaveAndAck(w) \/ GiveBack(w)
  <2>1. faults' = faults /\ row' = row /\ worker[w].pc # "emit" /\ \E e : Become(w, e)
    BY <1>5 DEF Receive, SaveAndAck, GiveBack
  <2> QED
    BY <1>2, <2>1
<1>6. CASE Load(w) \/ OnErrorLoad(w) \/ RecoverDispatch(w) \/ RequeueSent(w)
             \/ PostExecuteSkips(w) \/ RunTask(w)
  <2>1. faults' = faults /\ row' = row /\ worker[w].pc # "emit"
    BY <1>6 DEF Load, OnErrorLoad, RecoverDispatch, RequeueSent, PostExecuteSkips,
                RunTask, At
  <2>2. \E e : Become(w, e)
    BY <1>6, Zenon DEF Load, OnErrorLoad, RecoverDispatch, RequeueSent, PostExecuteSkips,
                       RunTask
  <2> QED
    BY <1>2, <2>1, <2>2
<1>7. CASE ChannelLost(w)
  <2> DEFINE e == [worker[w] EXCEPT !.held = FALSE]
  <2>1. Become(w, e) /\ row' = row
    BY <1>7 DEF ChannelLost
  <2>2. faults'.db = faults.db
    BY <1>1, <1>7 DEF ChannelLost, FaultCounts
  <2>3. e.pc = worker[w].pc /\ e.event = worker[w].event
    BY <1>1 DEF Delivery
  <2> QED
    BY <2>1, <2>2, <2>3 DEF Told, Announces
<1>8. CASE \E outcome \in Outcome :
              \/ PreExecute(w, outcome)
              \/ RecordErrorStatus(w, outcome)
              \/ MarkDispatched(w, outcome)
              \/ RetryDispatchFailed(w, outcome)
              \/ PostExecute(w, outcome)
  BY <1>8, CommittingTold
<1> QED
  BY <1>3, <1>4, <1>5, <1>6, <1>7, <1>8 DEF Work

\* An emit leaves the delivery with nothing to announce.
LEMMA EmitLeaves ==
    ASSUME AuditInv, NEW w \in Worker, Emit(w)
    PROVE  \E e : Become(w, e) /\ e.pc # "emit"
<1> DEFINE d == [worker[w] EXCEPT !.event = "PENDING"]
           e == CASE d.hook = "pre"   -> [d EXCEPT !.pc = "run"]
                  [] d.hook = "error" -> Enter(d, "post")
                  [] d.hook = "post"  -> [d EXCEPT !.pc = "save"]
<1>1. Become(w, e)
  BY DEF Emit
<1>2. d \in Delivery /\ d.hook \in {"pre", "error", "post"}
  BY InvFacts DEF Delivery, Status, Hook
<1> HIDE DEF d
<1>3. e.pc \in {"run", "load", "save"}
  BY <1>2 DEF Enter, Delivery
<1> HIDE DEF e
<1> QED
  BY <1>1, <1>3

\* The metrics follow the steps of the deliveries.
LEMMA MeasuredIsWork ==
    ASSUME NEW w, Measured(w)
    PROVE  Work(w) \/ Receive(w) \/ Emit(w) \/ ChannelLost(w)
<1>1. PostExecuteSkips(w) => Work(w)
  BY Zenon DEF Work
<1> QED
  BY <1>1, Zenon DEF Measured, MetricsPreExecute, MetricsOnError, MetricsPostExecute,
                     Unmeasured

\* A step that the metrics of a running process see is not a crash.
LEMMA MeasuredNoCrash ==
    ASSUME AuditInv, NEW w \in Worker, Measured(w)
    PROVE  ~ Crash(w)
<1>1. faults \in FaultCounts
  BY InvFacts
<1>2. ASSUME NEW outcome, NEW newRow, NEW newAudit, NEW ok, NEW ko,
             Commit(w, outcome, newRow, newAudit, ok, ko)
      PROVE  faults'.crash = faults.crash
  <2>1. CASE faults' = faults
    BY <2>1
  <2>2. CASE faults' = [faults EXCEPT !.db = @ + 1]
    BY <1>1, <2>2 DEF FaultCounts
  <2> QED
    BY <1>2, <2>1, <2>2, Zenon DEF Commit
<1>3. ASSUME NEW outcome,
             \/ PreExecute(w, outcome)
             \/ RecordErrorStatus(w, outcome)
             \/ MarkDispatched(w, outcome)
             \/ RetryDispatchFailed(w, outcome)
             \/ PostExecute(w, outcome)
      PROVE  faults'.crash = faults.crash
  <2>1. CASE PreExecute(w, outcome) \/ PostExecute(w, outcome)
    BY <1>2, <2>1 DEF PreExecute, PostExecute, SetStatus
  <2>2. CASE RecordErrorStatus(w, outcome)
    BY <1>2, <2>2 DEF RecordErrorStatus
  <2>3. CASE MarkDispatched(w, outcome)
    BY <1>2, <2>3 DEF MarkDispatched
  <2>4. CASE RetryDispatchFailed(w, outcome)
    BY <1>2, <2>4 DEF RetryDispatchFailed
  <2> QED
    BY <1>3, <2>1, <2>2, <2>3, <2>4
<1>4. ASSUME Work(w) \/ Receive(w) \/ Emit(w) \/ ChannelLost(w)
      PROVE  faults'.crash = faults.crash
  <2>1. CASE \/ LoadFails(w) \/ UnretriedError(w) \/ RequeueRefused(w)
             \/ RequeueUnconfirmed(w) \/ ChannelLost(w)
    BY <1>1, <2>1 DEF LoadFails, UnretriedError, RequeueRefused, RequeueUnconfirmed,
                      ChannelLost, FaultCounts
  <2>2. CASE \/ Receive(w) \/ SaveAndAck(w) \/ GiveBack(w) \/ Load(w) \/ OnErrorLoad(w)
             \/ RecoverDispatch(w) \/ RequeueSent(w) \/ PostExecuteSkips(w) \/ RunTask(w)
             \/ Emit(w)
    BY <2>2 DEF Receive, SaveAndAck, GiveBack, Load, OnErrorLoad, RecoverDispatch,
                RequeueSent, PostExecuteSkips, RunTask, Emit
  <2> QED
    BY <1>3, <1>4, <2>1, <2>2 DEF Work
<1>5. faults'.crash = faults.crash
  BY <1>4, MeasuredIsWork
<1>6. Crash(w) => faults'.crash = faults.crash + 1 /\ faults.crash \in Nat
  BY <1>1 DEF Crash, FaultCounts
<1> QED
  BY <1>5, <1>6

\* The accounts of announced and pending transitions.
AccountInv ==
    /\ AuditInv
    /\ events \in Seq(Status) /\ transitions \in Seq(Status)
    /\ TransitionsAccounted

LEMMA ObserversKeepAccounts ==
    ASSUME AccountInv, NEW w \in Worker, Emitting(w), Measured(w)
    PROVE  AccountInv'
<1>1. /\ AuditInv /\ AuditInv' /\ worker \in [Worker -> Delivery]
      /\ worker[w].event \in Status /\ row'.status \in Status
      /\ events \in Seq(Status) /\ transitions \in Seq(Status)
      /\ faults.db \in Nat
  BY EmittingIsStep, NextKeepsAudit
     DEF AccountInv, SoundStep, AuditInv, TypeOK, Delivery, Row, FaultCounts
<1>2. ASSUME NEW status, NEW seq \in Seq(Status)
      PROVE  Occurrences(seq, status) \in Nat
  BY <1>2, AppendOccurrences DEF Status
<1>3. CASE EmitStatusEvent(w)
  <2>1. /\ events' = Append(events, worker[w].event) /\ transitions' = transitions
        /\ faults' = faults /\ worker[w].pc = "emit"
    BY <1>3 DEF EmitStatusEvent, Emit
  <2>2. PICK e : Become(w, e) /\ e.pc # "emit"
    BY <1>1, <1>3, EmitLeaves DEF EmitStatusEvent
  <2>3. events' \in Seq(Status)
    BY <1>1, <2>1
  <2>4. ASSUME NEW status \in {"RUNNING", "COMPLETED", "FAILED"}
        PROVE  /\ IsFiniteSet(Announcers(status)')
               /\ Occurrences(events', status) + Cardinality(Announcers(status)') + faults'.db
                     >= Occurrences(transitions', status)
    <3>1. /\ IsFiniteSet(Announcers(status))
          /\ Occurrences(events, status) + Cardinality(Announcers(status)) + faults.db
                >= Occurrences(transitions, status)
      BY DEF AccountInv, TransitionsAccounted
    <3>2. /\ IsFiniteSet(Announcers(status)')
          /\ Cardinality(Announcers(status)) \in Nat
          /\ Cardinality(Announcers(status)') =
                Cardinality(Announcers(status)) - (IF worker[w].event = status THEN 1 ELSE 0)
      <4>1. ~ Announces(e, status) /\ (Announces(worker[w], status) <=> worker[w].event = status)
        BY <2>1, <2>2 DEF Announces
      <4> QED
        BY <1>1, <2>2, <3>1, <4>1, AnnouncersStep
    <3>3. Occurrences(events', status) =
             Occurrences(events, status) + (IF worker[w].event = status THEN 1 ELSE 0)
      BY <1>1, <2>1, AppendOccurrences
    <3>4. Occurrences(events, status) \in Nat /\ Occurrences(transitions, status) \in Nat
      BY <1>1, <1>2
    <3> QED
      BY <1>1, <2>1, <3>1, <3>2, <3>3, <3>4
  <2> QED
    BY <1>1, <2>1, <2>3, <2>4 DEF AccountInv, TransitionsAccounted
<1>4. CASE SilentStep(w)
  <2>1. /\ events' = events
        /\ transitions' = IF row'.status = row.status THEN transitions
                          ELSE Append(transitions, row'.status)
    BY <1>4 DEF SilentStep
  <2>2. PICK e : Become(w, e) /\ Told(w, e)
    BY <1>1, <1>4, MeasuredNoCrash, WorkTold DEF SilentStep
  <2>3. transitions' \in Seq(Status)
    BY <1>1, <2>1
  <2>4. ASSUME NEW status \in {"RUNNING", "COMPLETED", "FAILED"}
        PROVE  /\ IsFiniteSet(Announcers(status)')
               /\ Occurrences(events', status) + Cardinality(Announcers(status)') + faults'.db
                     >= Occurrences(transitions', status)
    <3> DEFINE change == row'.status # row.status /\ row'.status = status
    <3>1. /\ IsFiniteSet(Announcers(status))
          /\ Occurrences(events, status) + Cardinality(Announcers(status)) + faults.db
                >= Occurrences(transitions, status)
      BY DEF AccountInv, TransitionsAccounted
    <3>2. /\ IsFiniteSet(Announcers(status)')
          /\ Cardinality(Announcers(status)) \in Nat
          /\ Cardinality(Announcers(status)') =
                Cardinality(Announcers(status))
                   + (IF Announces(e, status) THEN 1 ELSE 0)
                   - (IF Announces(worker[w], status) THEN 1 ELSE 0)
      BY <1>1, <2>2, <3>1, AnnouncersStep
    <3>3. Occurrences(transitions', status) =
             Occurrences(transitions, status) + (IF change THEN 1 ELSE 0)
      <4>1. CASE row'.status = row.status
        BY <1>1, <1>2, <2>1, <4>1
      <4>2. CASE row'.status # row.status
        BY <1>1, <2>1, <4>2, AppendOccurrences
      <4> QED
        BY <4>1, <4>2
    <3>4. Occurrences(events, status) \in Nat /\ Occurrences(transitions, status) \in Nat
      BY <1>1, <1>2
    <3>5. /\ Announces(worker[w], status) => Announces(e, status)
          /\ faults'.db \in {faults.db, faults.db + 1}
          /\ change => /\ ~ Announces(worker[w], status)
                       /\ Announces(e, status) \/ faults'.db = faults.db + 1
      BY <2>2 DEF Told, Announces
    <3> HIDE DEF change
    <3> DEFINE o  == Occurrences(events, status)
               t  == Occurrences(transitions, status)
               a  == Cardinality(Announcers(status))
    <3> DEFINE b  == Cardinality(Announcers(status)')
               u  == Occurrences(transitions', status)
    <3>6. /\ faults'.db \in Nat /\ b \in Nat /\ Occurrences(events', status) = o
          /\ o \in Nat /\ t \in Nat /\ a \in Nat /\ o + a + faults.db >= t
      <4>1. b \in Nat
        BY <3>2, FS_CardinalityType
      <4>2. faults.db \in Nat /\ faults'.db \in Nat
        BY <1>1, <3>5
      <4>3. Occurrences(events', status) = o
        BY <2>1
      <4> QED
        BY <3>1, <3>2, <3>4, <4>1, <4>2, <4>3
    <3>7. \/ u = t + 1 /\ b + faults'.db >= a + faults.db + 1
          \/ u = t /\ b + faults'.db >= a + faults.db
      <4>1. CASE change
        <5>1. b = a + (IF Announces(e, status) THEN 1 ELSE 0) /\ u = t + 1
          BY <3>2, <3>3, <3>5, <3>6, <4>1
        <5>2. /\ a \in Nat /\ b \in Nat /\ faults.db \in Nat
              /\ faults'.db \in {faults.db, faults.db + 1}
          BY <1>1, <3>5, <3>6
        <5> HIDE DEF a, b, t, u
        <5>3. CASE Announces(e, status)
          BY <5>1, <5>2, <5>3
        <5>4. CASE faults'.db = faults.db + 1
          BY <5>1, <5>2, <5>4
        <5> QED
          BY <3>5, <4>1, <5>3, <5>4
      <4>2. CASE ~ change
        <5>1. b >= a /\ u = t
          BY <3>2, <3>3, <3>5, <3>6, <4>2
        <5>2. /\ a \in Nat /\ b \in Nat /\ faults.db \in Nat
              /\ faults'.db \in {faults.db, faults.db + 1}
          BY <1>1, <3>5, <3>6
        <5> HIDE DEF a, b, t, u
        <5> QED
          BY <5>1, <5>2
      <4> QED
        BY <4>1, <4>2
    <3>8. IsFiniteSet(Announcers(status)')
      BY <3>2
    <3> HIDE DEF o, t, a, b, u
    <3>9. o + b + faults'.db >= u
      <4> DEFINE f == faults.db
                 g == faults'.db
      <4>1. /\ f \in Nat /\ g \in Nat /\ b \in Nat /\ o \in Nat /\ t \in Nat /\ a \in Nat
            /\ o + a + f >= t
            /\ \/ u = t + 1 /\ b + g >= a + f + 1
               \/ u = t /\ b + g >= a + f
        BY <1>1, <3>6, <3>7
      <4> HIDE DEF f, g
      <4>2. o + b + g >= u
        BY <4>1
      <4> QED
        BY <4>2 DEF g
    <3> QED
      BY <3>6, <3>8, <3>9 DEF b, u
  <2> QED
    BY <1>1, <2>1, <2>3, <2>4 DEF AccountInv, TransitionsAccounted
<1> QED
  BY <1>3, <1>4 DEF Emitting

\* Nothing is announced or pending at the start.
LEMMA InitAccounts == ObserversInit => AccountInv
<1> SUFFICES ASSUME ObserversInit PROVE AccountInv
  OBVIOUS
<1>1. AuditInv /\ events = << >> /\ transitions = << >>
  BY InitAudit DEF ObserversInit, EventInit
<1>2. \A w \in Worker : worker[w] = Idle
  BY DEF ObserversInit, EventInit, Init, Fresh
<1>3. faults.db \in Nat
  BY <1>1 DEF AuditInv, TypeOK, FaultCounts
<1>4. events \in Seq(Status) /\ transitions \in Seq(Status)
  BY <1>1
<1>5. ASSUME NEW status
      PROVE  /\ Announcers(status) = {}
             /\ Occurrences(events, status) = 0
             /\ Occurrences(transitions, status) = 0
  <2>1. Announcers(status) = {}
    BY <1>2 DEF Announcers, Idle
  <2>2. {i \in DOMAIN << >> : << >>[i] = status} = {}
    OBVIOUS
  <2>3. Occurrences(<< >>, status) = 0
    BY <2>2, FS_EmptySet DEF Occurrences
  <2> QED
    BY <1>1, <2>1, <2>3
<1>6. IsFiniteSet({}) /\ Cardinality({}) = 0
  BY FS_EmptySet
<1>7. TransitionsAccounted
  <2> SUFFICES ASSUME NEW status \in {"RUNNING", "COMPLETED", "FAILED"}
               PROVE  /\ IsFiniteSet(Announcers(status))
                      /\ Occurrences(events, status) + Cardinality(Announcers(status))
                            + faults.db
                            >= Occurrences(transitions, status)
    BY DEF TransitionsAccounted
  <2>1. 0 + 0 + faults.db >= 0
    BY <1>3
  <2> QED
    BY <1>5, <1>6, <2>1
<1> QED
  BY <1>1, <1>4, <1>7 DEF AccountInv

\* The observers of a step of w, and of none.
observerVars == <<vars, events, transitions, metrics>>

LEMMA NextKeepsAccounts == AccountInv /\ [ObserversNext]_observerVars => AccountInv'
<1> SUFFICES ASSUME AccountInv, [ObserversNext]_observerVars PROVE AccountInv'
  OBVIOUS
<1>1. CASE ObserversNext
  BY <1>1, ObserversKeepAccounts DEF ObserversNext
<1>2. CASE UNCHANGED observerVars
  <2>1. UNCHANGED vars /\ events' = events /\ transitions' = transitions
    BY <1>2 DEF observerVars
  <2>2. AuditInv' /\ worker' = worker /\ faults' = faults
    BY <2>1, NextKeepsAudit DEF AccountInv, SoundStep, vars
  <2> QED
    BY <2>1, <2>2 DEF AccountInv, TransitionsAccounted, Announcers
<1> QED
  BY <1>1, <1>2

\* When all is over, nothing is left to announce.
LEMMA SettledAccounts == AccountInv => NoSilentTransition
<1> SUFFICES ASSUME AccountInv, Settled, NEW status \in {"RUNNING", "COMPLETED", "FAILED"}
             PROVE  Occurrences(events, status) + faults.db
                       >= Occurrences(transitions, status)
  BY DEF NoSilentTransition
<1>1. Announcers(status) = {} /\ Cardinality({}) = 0
  BY FS_EmptySet DEF Settled, Announcers
<1>2. /\ Occurrences(events, status) + Cardinality(Announcers(status)) + faults.db
            >= Occurrences(transitions, status)
      /\ events \in Seq(Status) /\ faults.db \in Nat
  BY DEF AccountInv, TransitionsAccounted, AuditInv, TypeOK, FaultCounts
<1>3. Occurrences(events, status) \in Nat
  BY <1>2, AppendOccurrences DEF Status
<1> QED
  BY <1>1, <1>2, <1>3

\* The observers composed: each sees its own steps.
LEMMA ObserversAreBoth ==
    [ObserversNext]_observerVars => [EventNext]_eventVars /\ [MetricsNext]_metricsVars
BY DEF ObserversNext, EventNext, MetricsNext, Emitting, Measured, observerVars, eventVars,
       metricsVars, metrics

\* Every start and outcome that the row went through is announced once all deliveries
\* are over, but for one of each status per database failure: an event is never lost to
\* an interleaving, a retry, a redelivery or a refused send.
THEOREM TransitionsAreAnnounced == ObserversSpec => []NoSilentTransition
<1>1. ObserversSpec => []AccountInv
  BY InitAccounts, NextKeepsAccounts, PTL DEF ObserversSpec, observerVars
<1> QED
  BY <1>1, SettledAccounts, PTL

(***************************************************************************)
(* The last outcome announced is the one the row has                       *)
(***************************************************************************)

\* The inductive invariant behind LastOutcomeEvent: the delivery that has the task is the
\* only one to announce an outcome, and it announces the one that the row has.
OutcomeInv ==
    Calm /\ row.exists =>
        /\ \A w \in Worker : Leads(worker[w]) /\ worker[w].pc = "emit" =>
                              worker[w].event = row.status
        /\ row.status \in TerminalStatus =>
              \/ LastAnnounced(events, row.status)
              \/ \E w \in Worker : Leads(worker[w]) /\ worker[w].pc = "emit"

\* An observer of the deliveries changes nothing about them.
LEMMA EventsOnlyObserve == EventSpec => Spec
<1>1. EventInit => Init
  BY DEF EventInit
<1>2. [EventNext]_eventVars => [Next]_vars
  BY EmittingIsStep DEF EventNext, Emitting, eventVars
<1> QED
  BY <1>1, <1>2, PTL DEF EventSpec, Spec

LEMMA AppendAnnounced ==
    ASSUME NEW seq \in Seq(Status), NEW x \in Status
    PROVE  LET new == Append(seq, x)
           IN  /\ LastAnnounced(new, x)
               /\ x = "RETRYING" =>
                     \A status : LastAnnounced(seq, status) => LastAnnounced(new, status)
<1> DEFINE new == Append(seq, x)
           n == Len(seq) + 1
<1>1. /\ DOMAIN seq = 1 .. Len(seq) /\ Len(seq) \in Nat /\ DOMAIN new = 1 .. n
      /\ new[n] = x /\ \A i \in DOMAIN seq : new[i] = seq[i]
  OBVIOUS
<1> HIDE DEF new
<1>2. LastAnnounced(new, x)
  BY <1>1 DEF LastAnnounced
<1>3. ASSUME x = "RETRYING", NEW status, LastAnnounced(seq, status)
      PROVE  LastAnnounced(new, status)
  <2>1. PICK i \in DOMAIN seq :
           seq[i] = status /\ \A j \in DOMAIN seq : j > i => seq[j] = "RETRYING"
    BY <1>3 DEF LastAnnounced
  <2>2. \A j \in DOMAIN new : j \in DOMAIN seq \/ j = n
    BY <1>1
  <2>3. \A j \in DOMAIN new : j > i => new[j] = "RETRYING"
    BY <1>1, <1>3, <2>1, <2>2
  <2> QED
    BY <1>1, <2>1, <2>3 DEF LastAnnounced
<1> QED
  BY <1>2, <1>3 DEF new

\* An event: an outcome when its delivery has the task, a late RETRYING when it sent it on.
LEMMA EmitKeepsOutcome ==
    ASSUME AuditInv, CalmInv, OutcomeInv, Calm, row.exists, events \in Seq(Status),
           NEW w \in Worker, EmitStatusEvent(w)
    PROVE  OutcomeInv'
<1> DEFINE d == worker[w]
<1>1. /\ d \in Delivery /\ Untroubled(d) /\ d.resent \in Nat /\ d.event \in Status
      /\ worker \in [Worker -> Delivery]
  BY CalmFacts DEF Delivery, AuditInv, TypeOK
<1>2. /\ d.pc = "emit" /\ row' = row /\ faults' = faults
      /\ events' = Append(events, d.event)
  BY EmitFields DEF EmitStatusEvent
<1>3. PICK e \in Delivery : Become(w, e) /\ e.pc # "emit"
  BY <1>1, EmitFields DEF EmitStatusEvent, Delivery, Hook
<1>4. \A v \in Worker : worker'[v] = IF v = w THEN e ELSE worker[v]
  BY <1>1, <1>3 DEF Become
<1>5. \A v \in Worker : Leads(worker'[v]) /\ worker'[v].pc = "emit" =>
                         worker'[v].event = row'.status
  BY <1>2, <1>3, <1>4 DEF OutcomeInv
<1>6. ASSUME row.status \in TerminalStatus
      PROVE  \/ LastAnnounced(events', row.status)
             \/ \E v \in Worker : Leads(worker'[v]) /\ worker'[v].pc = "emit"
  <2>1. CASE Leads(d)
    <3>1. d.event = row.status
      BY <1>2, <2>1 DEF OutcomeInv
    <3> QED
      BY <1>1, <1>2, <3>1, AppendAnnounced
  <2>2. CASE ~ Leads(d)
    <3>1. d.event = "RETRYING"
      BY <1>1, <1>2, <2>2 DEF Untroubled, Leads
    <3>2. CASE LastAnnounced(events, row.status)
      BY <1>1, <1>2, <3>1, <3>2, AppendAnnounced
    <3>3. CASE \E v \in Worker : Leads(worker[v]) /\ worker[v].pc = "emit"
      BY <1>4, <2>2, <3>3
    <3> QED
      BY <1>6, <3>2, <3>3 DEF OutcomeInv
  <2> QED
    BY <2>1, <2>2
<1> QED
  BY <1>2, <1>5, <1>6 DEF OutcomeInv

\* Any other step: what it writes to the row, its delivery is about to announce.
LEMMA SilentKeepsOutcome ==
    ASSUME AuditInv, CalmInv, OutcomeInv, Calm, Calm', row.exists,
           NEW w \in Worker, SilentStep(w)
    PROVE  OutcomeInv'
<1> DEFINE d == worker[w]
<1>1. worker \in [Worker -> Delivery] /\ events' = events
  BY DEF SilentStep, AuditInv, TypeOK
<1>2. Receive(w) \/ Work(w)
  BY NoFailure DEF SilentStep
<1>3. d.pc # "emit"
  BY <1>2, NotEmitting
<1>4. PICK e \in Delivery :
         /\ Become(w, e)
         /\ \/ row' = row /\ ~ (e.pc = "emit" /\ e.resent = 0)
            \/ /\ Leads(d) /\ row.status # "COMPLETED"
               /\ \/ e.pc = "requeue" /\ row'.status = "RETRYING"
                  \/ /\ e.pc = "emit" /\ e.resent = 0 /\ e.event = row'.status
                     /\ row'.status = "COMPLETED" <=> e.hook = "post" /\ ~ e.failed
  BY <1>2, CalmMoves
<1>5. \A v \in Worker : worker'[v] = IF v = w THEN e ELSE worker[v]
  BY <1>1, <1>4 DEF Become
<1>6. CASE row' = row /\ ~ (e.pc = "emit" /\ e.resent = 0)
  <2>1. \A v \in Worker : Leads(worker'[v]) /\ worker'[v].pc = "emit" =>
                           v # w /\ worker'[v] = worker[v]
    BY <1>5, <1>6 DEF Leads
  <2>2. \A v \in Worker : Leads(worker[v]) /\ worker[v].pc = "emit" =>
                           worker'[v] = worker[v]
    BY <1>3, <1>5
  <2> QED
    BY <1>1, <1>6, <2>1, <2>2 DEF OutcomeInv
<1>7. CASE /\ Leads(d)
           /\ \/ e.pc = "requeue" /\ row'.status = "RETRYING"
              \/ e.pc = "emit" /\ e.resent = 0 /\ e.event = row'.status
  <2>1. \A v \in Worker : v # w => ~ Leads(worker'[v])
    BY <1>5, <1>7 DEF CalmInv, OneLead
  <2>2. Leads(worker'[w]) /\ worker'[w].pc = "emit" => worker'[w].event = row'.status
    BY <1>5, <1>7
  <2>3. row'.status \in TerminalStatus => Leads(worker'[w]) /\ worker'[w].pc = "emit"
    BY <1>5, <1>7 DEF TerminalStatus, Leads
  <2> QED
    BY <2>1, <2>2, <2>3 DEF OutcomeInv
<1> QED
  BY <1>4, <1>6, <1>7

LEMMA NextKeepsOutcome ==
    ASSUME EventInv, NominalInv, OutcomeInv, [EventNext]_eventVars
    PROVE  OutcomeInv'
<1>1. CASE UNCHANGED eventVars
  BY <1>1 DEF eventVars, vars, OutcomeInv, Calm
<1>2. ASSUME NEW w \in Worker, Emitting(w)
      PROVE  OutcomeInv'
  <2>1. CASE Calm' /\ row'.exists
    <3>1. AuditInv /\ events \in Seq(Status) /\ Next
      BY <1>2, EmittingIsStep DEF EventInv
    <3>2. Calm
      BY <2>1, <3>1, CalmBefore
    <3>3. row.exists
      BY <1>2, <2>1, <3>1, RowNeverAppears DEF Emitting, EmitStatusEvent, SilentStep, Emit
    <3> QED
      BY <1>2, <2>1, <3>1, <3>2, <3>3, EmitKeepsOutcome, SilentKeepsOutcome
      DEF NominalInv, Emitting
  <2>2. CASE ~ (Calm' /\ row'.exists)
    BY <2>2 DEF OutcomeInv
  <2> QED
    BY <2>1, <2>2
<1> QED
  BY <1>1, <1>2 DEF EventNext, Emitting

\* While nothing fails but sends that the broker refuses, the last event of a settled task
\* other than a late RETRYING is its final status, although the events of overlapping
\* deliveries of one task come in any order.
THEOREM OutcomeIsAnnounced == EventSpec => []LastOutcomeEvent
<1>1. EventInit => OutcomeInv
  BY DEF EventInit, Init, Fresh, OutcomeInv, Leads, Idle, NewRow, NoRow, TerminalStatus
<1>2. EventInv /\ NominalInv /\ OutcomeInv /\ [EventNext]_eventVars => OutcomeInv'
  BY NextKeepsOutcome
<1>3. EventSpec => []EventInv
  BY InitEvents, NextKeepsEvents, PTL DEF EventSpec
<1>4. EventSpec => []NominalInv
  BY EventsOnlyObserve, NominalInvariant, PTL
<1>5. OutcomeInv => LastOutcomeEvent
  BY DEF OutcomeInv, LastOutcomeEvent, Settled
<1> QED
  BY <1>1, <1>2, <1>3, <1>4, <1>5, PTL DEF EventSpec

(***************************************************************************)
(* The counters and the records                                            *)
(***************************************************************************)

\* The runs that ended in an error and were counted as a failure once so far.
CountedOnce == {w \in Running : worker[w].hook = "post" /\ worker[w].failed}

\* The run that completed its task and was not counted so far.
Completing ==
    {w \in Worker : worker[w].pc = "emit" /\ worker[w].hook = "post" /\ ~ worker[w].failed}

\* What was started is in the queue no more, and is running, completed, or a failure that
\* on_error and post_execute counted.
RunsAccounted ==
    /\ IsFiniteSet(Running) /\ IsFiniteSet(CountedOnce) /\ IsFiniteSet(SendsMade)
    /\ started \in Nat /\ completed \in Nat /\ failed \in Nat
    /\ started + queue = 1 + TotalSent
    /\ failed + 2 * completed + 2 * Cardinality(Running)
          = 2 * started + Cardinality(CountedOnce)

\* The run that completed the row is counted when it is announced, and no other.
CompletionAccounted ==
    row.exists =>
        completed = IF row.status = "COMPLETED" /\ Completing = {} THEN 1 ELSE 0

\* The inductive invariant behind MetricsMatchRecords, with AuditInv and CalmInv.
CountersInv == Calm => RunsAccounted /\ CompletionAccounted

LEMMA MetricsOnlyObserve == MetricsSpec => Spec
<1>1. MetricsInit => Init
  BY DEF MetricsInit
<1>2. [MetricsNext]_metricsVars => [Next]_vars
  BY MetricsStepIsStep DEF MetricsNext, MetricsStep, metricsVars
<1> QED
  BY <1>1, <1>2, PTL DEF MetricsSpec, Spec

\* A run whose error was counted once so far.
Erred(d) == Executing(d) /\ d.hook = "post" /\ d.failed

LEMMA CountedOnceStep ==
    ASSUME worker \in [Worker -> Delivery], NEW w \in Worker, NEW e, Become(w, e),
           IsFiniteSet(CountedOnce)
    PROVE  /\ IsFiniteSet(CountedOnce')
           /\ Cardinality(CountedOnce) \in Nat
           /\ Cardinality(CountedOnce') =
                 Cardinality(CountedOnce)
                    + (IF Erred(e) THEN 1 ELSE 0)
                    - (IF Erred(worker[w]) THEN 1 ELSE 0)
<1>1. CountedOnce' = IF Erred(e) THEN CountedOnce \cup {w} ELSE CountedOnce \ {w}
  <2>1. ASSUME NEW v \in Worker
        PROVE  worker'[v] = IF v = w THEN e ELSE worker[v]
    BY DEF Become
  <2> QED
    BY <2>1 DEF CountedOnce, Running, Executing, Erred
<1>2. w \in CountedOnce <=> Erred(worker[w])
  BY DEF CountedOnce, Running, Executing, Erred
<1>3. Cardinality(CountedOnce) \in Nat
  BY FS_CardinalityType
<1>4. CASE Erred(e)
  BY <1>1, <1>2, <1>3, <1>4, FS_AddElement
<1>5. CASE ~ Erred(e)
  BY <1>1, <1>2, <1>3, <1>5, FS_RemoveElement
<1> QED
  BY <1>4, <1>5

\* But for the body and the end of a delivery, a step stays in its hook and keeps its
\* result.
LEMMA WorkKeepsResult ==
    ASSUME AuditInv, CalmInv, Calm', NEW w \in Worker, Work(w)
    PROVE  \/ RunTask(w) \/ SaveAndAck(w)
           \/ \E e : /\ Become(w, e)
                     /\ e.hook = worker[w].hook /\ e.failed = worker[w].failed
<1> DEFINE d == worker[w]
           Kept == \E e : Become(w, e) /\ e.hook = d.hook /\ e.failed = d.failed
<1>1. d \in Delivery /\ Untroubled(d) /\ d.pc # "stuck"
  BY CalmFacts DEF Untroubled
<1>2. ASSUME NEW outcome \in Outcome, PreExecute(w, outcome) \/ PostExecute(w, outcome)
      PROVE  Kept
  BY <1>2, SetStatusFields
<1>3. ASSUME NEW outcome \in Outcome, RecordErrorStatus(w, outcome)
      PROVE  Kept
  <2>1. d.hook = "error" /\ d.failed = TRUE
    <3>1. d.hook = "error"
      BY <1>3 DEF RecordErrorStatus, At
    <3> QED
      BY <1>1, <3>1 DEF Untroubled, Delivery
  <2>2. PICK e \in Delivery : Become(w, e) /\ e.hook = "error" /\ e.failed
    BY <1>3, RecordErrorStatusFields
  <2>3. e.failed = TRUE
    BY <2>2 DEF Delivery
  <2> QED
    BY <2>1, <2>2, <2>3
<1>4. ASSUME NEW outcome \in Outcome, RetryDispatchFailed(w, outcome)
      PROVE  Kept
  <2>1. Dispatching(d)
    BY <1>4, RetryDispatchFailedFields
  <2>2. d.hook = "error" /\ d.failed = TRUE
    BY <1>1, <2>1 DEF Untroubled, Delivery
  <2>3. PICK e \in Delivery : Become(w, e) /\ e.hook = "error" /\ e.failed
    BY <1>4, RetryDispatchFailedFields
  <2>4. e.failed = TRUE
    BY <2>3 DEF Delivery
  <2> QED
    BY <2>2, <2>3, <2>4
<1>5. ASSUME NEW outcome \in Outcome, MarkDispatched(w, outcome)
      PROVE  Kept
  <2> DEFINE f == [d EXCEPT !.noResult = TRUE]
  <2>1. d.pc = "mark"
    BY <1>5 DEF MarkDispatched
  <2>2. ClaimedRows(audit, ClaimNumber(d)) # {} /\ d.decision.status \in Status
    BY <1>1, <2>1, OwnNumber DEF Dispatching, Delivery, Decision
  <2>3. Commit(w, outcome, row, MarkTaskAttemptDispatched(audit, ClaimNumber(d)),
               Finish(f, d.decision.status), d)
    BY <1>5, <2>2 DEF MarkDispatched
  <2>4. Become(w, Finish(f, d.decision.status))
    BY <2>3, CalmCommit
  <2>5. f \in Delivery /\ f.hook = d.hook /\ f.failed = d.failed
    BY <1>1 DEF Delivery
  <2> HIDE DEF f
  <2>6. /\ Finish(f, d.decision.status).hook = d.hook
        /\ Finish(f, d.decision.status).failed = d.failed
    BY <2>2, <2>5, FinishFields
  <2> QED
    BY <2>4, <2>6
<1>6. CASE OnErrorLoad(w) \/ RecoverDispatch(w)
  BY <1>6, OnErrorLoadFields
<1>7. CASE Load(w) \/ PostExecuteSkips(w) \/ RequeueSent(w) \/ RequeueRefused(w)
  <2> DEFINE more == d.resent + 1
  <2>1. \/ Become(w, [d EXCEPT !.pc = "write", !.loaded = row])
        \/ Become(w, [d EXCEPT !.pc = "save"])
        \/ Become(w, [d EXCEPT !.pc = "mark", !.resent = more])
        \/ Become(w, [d EXCEPT !.pc = "undispatched"])
    BY <1>1, <1>7 DEF Load, PostExecuteSkips, RequeueSent, RequeueRefused, Delivery
  <2> HIDE DEF more
  <2>2. PICK e : /\ Become(w, e)
                 /\ \/ e = [d EXCEPT !.pc = "write", !.loaded = row]
                    \/ e = [d EXCEPT !.pc = "save"]
                    \/ e = [d EXCEPT !.pc = "mark", !.resent = more]
                    \/ e = [d EXCEPT !.pc = "undispatched"]
    BY <2>1, Zenon
  <2>3. e.hook = d.hook /\ e.failed = d.failed
    BY <1>1, <2>2 DEF Delivery
  <2> QED
    BY <2>2, <2>3
<1>8. ~ (LoadFails(w) \/ UnretriedError(w) \/ RequeueUnconfirmed(w) \/ GiveBack(w))
  BY <1>1, NoFailure DEF GiveBack
<1> QED
  BY <1>2, <1>3, <1>4, <1>5, <1>6, <1>7, <1>8 DEF Work

\* A step that is not measured starts, ends and fails no run.
LEMMA WorkRuns ==
    ASSUME AuditInv, CalmInv, CalmInv', Calm', NEW w \in Worker, Work(w),
           ~ PostExecuteSkips(w)
    PROVE  \E e : /\ Become(w, e)
                  /\ Executing(e) <=> Executing(worker[w])
                  /\ Erred(e) <=> Erred(worker[w])
<1> DEFINE d == worker[w]
<1>1. worker \in [Worker -> Delivery] /\ d \in Delivery /\ Untroubled(d)
  BY CalmFacts DEF AuditInv, TypeOK
<1>2. PICK e :
         /\ Become(w, e)
         /\ \/ Executing(d) /\ (Executing(e) \/ e.pc = "stuck")
            \/ ~ Executing(d) /\ e.pc = "idle"
  BY WorkMoves
<1>3. worker'[w] = e
  BY <1>1, <1>2 DEF Become
<1>4. e.pc # "stuck"
  BY <1>3 DEF CalmInv, Untroubled
<1>5. Executing(e) <=> Executing(d)
  BY <1>2, <1>4 DEF Executing
<1>6. CASE RunTask(w)
  <2>1. PICK erred \in BOOLEAN :
          Become(w, Enter([d EXCEPT !.failed = erred], IF erred THEN "error" ELSE "post"))
    BY <1>6 DEF RunTask
  <2> DEFINE f == [d EXCEPT !.failed = erred]
             hook == IF erred THEN "error" ELSE "post"
  <2>2. f \in Delivery /\ f.failed = erred /\ hook \in Hook /\ Become(w, Enter(f, hook))
    BY <1>1, <2>1 DEF Delivery, Hook
  <2>3. hook = "post" => erred = FALSE
    OBVIOUS
  <2> HIDE DEF f, hook
  <2>4. e = Enter(f, hook)
    BY <1>1, <1>3, <2>2 DEF Become
  <2>5. ~ Erred(e)
    BY <2>2, <2>3, <2>4, EnterFields DEF Erred
  <2>6. ~ Erred(d)
    BY <1>1, <1>6 DEF RunTask, Untroubled, Erred
  <2> QED
    BY <1>2, <1>5, <2>5, <2>6
<1>7. CASE SaveAndAck(w)
  <2>1. ~ Executing(d)
    BY <1>7 DEF SaveAndAck, Executing
  <2> QED
    BY <1>2, <1>5, <2>1 DEF Erred
<1>8. CASE \E x : /\ Become(w, x)
                  /\ x.hook = d.hook /\ x.failed = d.failed
  <2>1. e.hook = d.hook /\ e.failed = d.failed
    BY <1>1, <1>3, <1>8 DEF Become
  <2> QED
    BY <1>2, <1>5, <2>1 DEF Erred
<1> QED
  BY <1>6, <1>7, <1>8, WorkKeepsResult

\* And what it sends is in the queue.
LEMMA WorkSends ==
    ASSUME AuditInv, CalmInv, Calm', NEW w \in Worker, Work(w), IsFiniteSet(SendsMade)
    PROVE  /\ IsFiniteSet(SendsMade')
           /\ queue \in Nat /\ TotalSent \in Nat
           /\ \/ queue' = queue + 1 /\ TotalSent' = TotalSent + 1
              \/ queue' = queue /\ TotalSent' = TotalSent
<1>1. /\ queue \in Nat /\ TotalSent \in Nat /\ sent \in [Number -> Nat]
      /\ worker[w].pc # "stuck"
  BY CalmFacts, FS_CardinalityType DEF TotalSent, Untroubled
<1>2. CASE RequeueSent(w)
  <2>1. Dispatching(worker[w])
    BY <1>2 DEF RequeueSent, Dispatching
  <2>2. ClaimNumber(worker[w]) \in Number
    BY <2>1, OwnNumber
  <2> QED
    BY <1>1, <1>2, <2>2, OneSendMore DEF RequeueSent
<1>3. CASE UNCHANGED <<queue, sent>>
  BY <1>1, <1>3 DEF SendsMade, TotalSent
<1>4. ASSUME NEW outcome \in Outcome,
             \/ PreExecute(w, outcome) \/ RecordErrorStatus(w, outcome)
             \/ RetryDispatchFailed(w, outcome) \/ PostExecute(w, outcome)
             \/ MarkDispatched(w, outcome)
      PROVE  UNCHANGED <<queue, sent>>
  <2>1. ASSUME NEW newRow, NEW newAudit, NEW ok, NEW ko,
               Commit(w, outcome, newRow, newAudit, ok, ko)
        PROVE  UNCHANGED <<queue, sent>>
    BY <2>1 DEF Commit
  <2>2. MarkDispatched(w, outcome) => UNCHANGED <<queue, sent>>
    BY <2>1 DEF MarkDispatched
  <2>3. RetryDispatchFailed(w, outcome) => UNCHANGED <<queue, sent>>
    BY <2>1, RetryDispatchFailedParts
  <2>4. RecordErrorStatus(w, outcome) => UNCHANGED <<queue, sent>>
    BY <2>1, RecordErrorStatusParts
  <2>5. PreExecute(w, outcome) \/ PostExecute(w, outcome) => UNCHANGED <<queue, sent>>
    BY <2>1 DEF PreExecute, PostExecute, SetStatus
  <2> QED
    BY <1>4, <2>2, <2>3, <2>4, <2>5
<1>5. ~ (LoadFails(w) \/ UnretriedError(w) \/ RequeueUnconfirmed(w) \/ GiveBack(w))
  BY <1>1, NoFailure DEF GiveBack
<1>6. CASE \/ Load(w) \/ OnErrorLoad(w) \/ RecoverDispatch(w) \/ RequeueRefused(w)
           \/ PostExecuteSkips(w) \/ RunTask(w) \/ SaveAndAck(w)
  BY <1>3, <1>6 DEF Load, OnErrorLoad, RecoverDispatch, RequeueRefused, PostExecuteSkips,
                    RunTask, SaveAndAck
<1> QED
  BY <1>2, <1>3, <1>4, <1>5, <1>6 DEF Work

\* The counters of a step of w, when nothing fails but sends that the broker refuses.
LEMMA MetricsStepKeepsRuns ==
    ASSUME AuditInv, CalmInv, CalmInv', Calm', RunsAccounted, NEW w \in Worker,
           MetricsStep(w)
    PROVE  RunsAccounted'
<1> DEFINE d == worker[w]
<1>1. /\ worker \in [Worker -> Delivery] /\ d \in Delivery /\ Untroubled(d)
      /\ d.failed \in BOOLEAN /\ queue \in Nat
  BY CalmFacts DEF AuditInv, TypeOK, Delivery
<1>2. /\ IsFiniteSet(Running) /\ IsFiniteSet(CountedOnce) /\ IsFiniteSet(SendsMade)
      /\ started \in Nat /\ completed \in Nat /\ failed \in Nat
      /\ started + queue = 1 + TotalSent
      /\ failed + 2 * completed + 2 * Cardinality(Running)
            = 2 * started + Cardinality(CountedOnce)
  BY DEF RunsAccounted
<1>3. TotalSent \in Nat
  BY <1>2, FS_CardinalityType DEF TotalSent
<1>4. ASSUME NEW e, Become(w, e)
      PROVE  /\ IsFiniteSet(Running') /\ IsFiniteSet(CountedOnce')
             /\ Cardinality(Running) \in Nat /\ Cardinality(CountedOnce) \in Nat
             /\ Cardinality(Running') \in Nat /\ Cardinality(CountedOnce') \in Nat
             /\ Cardinality(Running') =
                   Cardinality(Running) + (IF Executing(e) THEN 1 ELSE 0)
                                        - (IF Executing(d) THEN 1 ELSE 0)
             /\ Cardinality(CountedOnce') =
                   Cardinality(CountedOnce) + (IF Erred(e) THEN 1 ELSE 0)
                                            - (IF Erred(d) THEN 1 ELSE 0)
  BY <1>1, <1>2, <1>4, RunningStep, CountedOnceStep, FS_CardinalityType
<1>5. ASSUME UNCHANGED sent
      PROVE  IsFiniteSet(SendsMade') /\ TotalSent' = TotalSent
  BY <1>2, <1>5 DEF SendsMade, TotalSent
<1>6. CASE MetricsPreExecute(w)
  <2>1. /\ d.pc = "idle" /\ queue' = queue - 1 /\ queue > 0 /\ UNCHANGED sent
        /\ started' = started + 1 /\ completed' = completed /\ failed' = failed
        /\ Become(w, Enter([Idle EXCEPT !.held = TRUE], "pre"))
    BY <1>6 DEF MetricsPreExecute, Receive
  <2> DEFINE e == Enter([Idle EXCEPT !.held = TRUE], "pre")
  <2>2. e.pc = "load" /\ e.hook = "pre"
    BY DEF Enter, Idle
  <2> HIDE DEF e
  <2>3. Executing(e) /\ ~ Executing(d) /\ ~ Erred(e) /\ ~ Erred(d) /\ Become(w, e)
    BY <2>1, <2>2 DEF Executing, Erred, e
  <2> QED
    BY <1>1, <1>2, <1>3, <1>4, <1>5, <2>1, <2>3 DEF RunsAccounted
<1>7. CASE MetricsOnError(w)
  <2>1. /\ d.hook = "error" /\ Emit(w)
        /\ started' = started /\ completed' = completed /\ failed' = failed + 1
    BY <1>7 DEF MetricsOnError
  <2>2. d.failed /\ d.pc = "emit" /\ UNCHANGED <<queue, sent>>
    BY <1>1, <2>1, EmitFields DEF Untroubled
  <2>3. PICK e \in Delivery :
          /\ Become(w, e) /\ e.pc = "load" /\ e.hook = "post" /\ e.failed = d.failed
    BY <2>1, <2>2, EmitFields
  <2>4. Executing(e) /\ Executing(d) /\ Erred(e) /\ ~ Erred(d)
    BY <2>1, <2>2, <2>3 DEF Executing, Erred
  <2> QED
    BY <1>1, <1>2, <1>3, <1>4, <1>5, <2>1, <2>2, <2>3, <2>4 DEF RunsAccounted
<1>8. CASE MetricsPostExecute(w)
  <2>1. /\ PostExecuteSkips(w) \/ (d.hook = "post" /\ Emit(w))
        /\ IF d.failed THEN failed' = failed + 1 /\ UNCHANGED completed
                       ELSE completed' = completed + 1 /\ UNCHANGED failed
        /\ started' = started
    BY <1>8, Zenon DEF MetricsPostExecute
  <2>2. /\ UNCHANGED <<queue, sent>> /\ d.pc \in {"load", "emit"} /\ d.hook = "post"
        /\ \E e : Become(w, e) /\ e.pc = "save"
    <3>1. CASE PostExecuteSkips(w)
      BY <1>1, <3>1 DEF PostExecuteSkips, At, Delivery
    <3>2. CASE d.hook = "post" /\ Emit(w)
      BY <3>2, EmitFields
    <3> QED
      BY <2>1, <3>1, <3>2
  <2>3. PICK e : Become(w, e) /\ e.pc = "save"
    BY <2>2
  <2>4. ~ Executing(e) /\ Executing(d) /\ ~ Erred(e) /\ (Erred(d) <=> d.failed)
    BY <2>2, <2>3 DEF Executing, Erred
  <2>5. CASE d.failed
    BY <1>1, <1>2, <1>3, <1>4, <1>5, <2>1, <2>2, <2>3, <2>4, <2>5 DEF RunsAccounted
  <2>6. CASE ~ d.failed
    BY <1>1, <1>2, <1>3, <1>4, <1>5, <2>1, <2>2, <2>3, <2>4, <2>6 DEF RunsAccounted
  <2> QED
    BY <2>5, <2>6
<1>9. CASE Unmeasured(w)
  <2>1. started' = started /\ completed' = completed /\ failed' = failed
    BY <1>9 DEF Unmeasured
  <2>2. CASE Work(w) /\ ~ PostExecuteSkips(w)
    <3>1. PICK e : /\ Become(w, e)
                   /\ Executing(e) <=> Executing(d)
                   /\ Erred(e) <=> Erred(d)
      BY <2>2, WorkRuns
    <3>2. /\ IsFiniteSet(SendsMade')
          /\ \/ queue' = queue + 1 /\ TotalSent' = TotalSent + 1
             \/ queue' = queue /\ TotalSent' = TotalSent
      BY <1>2, <2>2, WorkSends
    <3> QED
      BY <1>1, <1>2, <1>3, <1>4, <2>1, <3>1, <3>2 DEF RunsAccounted
  <2>3. CASE d.hook = "pre" /\ Emit(w)
    <3>1. d.pc = "emit" /\ UNCHANGED <<queue, sent>>
      BY <2>3, EmitFields
    <3>2. PICK e \in Delivery : Become(w, e) /\ e.pc = "run" /\ e.hook = "pre"
      BY <2>3, EmitFields
    <3>3. Executing(e) /\ Executing(d) /\ ~ Erred(e) /\ ~ Erred(d)
      BY <2>3, <3>1, <3>2 DEF Executing, Erred
    <3> QED
      BY <1>1, <1>2, <1>3, <1>4, <1>5, <2>1, <3>1, <3>2, <3>3 DEF RunsAccounted
  <2>4. ~ ChannelLost(w)
    BY NoFailure
  <2> QED
    BY <1>9, <2>2, <2>3, <2>4 DEF Unmeasured
<1> QED
  BY <1>6, <1>7, <1>8, <1>9 DEF MetricsStep

\* The row says COMPLETED from the commit on, the counter from the end of the hook.
LEMMA MetricsStepKeepsCompletion ==
    ASSUME AuditInv, CalmInv, CalmInv', Calm', CompletionAccounted, NEW w \in Worker,
           MetricsStep(w)
    PROVE  CompletionAccounted'
<1> SUFFICES ASSUME row'.exists
             PROVE  completed' =
                       IF row'.status = "COMPLETED" /\ Completing' = {} THEN 1 ELSE 0
  BY DEF CompletionAccounted
<1> DEFINE d == worker[w]
           Due(x) == x.pc = "emit" /\ x.hook = "post" /\ ~ x.failed
<1>1. /\ worker \in [Worker -> Delivery] /\ d \in Delivery /\ Untroubled(d)
      /\ d.failed \in BOOLEAN /\ d.resent \in Nat
      /\ Leads(d) => LeadSound(d, row, sent)
  BY CalmFacts DEF AuditInv, TypeOK, Delivery
<1>2. ASSUME NEW e, Become(w, e)
      PROVE  /\ Due(d) <=> w \in Completing
             /\ Due(e) <=> w \in Completing'
             /\ \A v \in Worker \ {w} : v \in Completing <=> v \in Completing'
  BY <1>1, <1>2 DEF Completing, Become
<1>3. Completing \subseteq Worker /\ Completing' \subseteq Worker
  BY DEF Completing
<1>4. CASE Emit(w)
  <2>1. row' = row /\ d.pc = "emit" /\ row.exists
    BY <1>4, EmitFields
  <2>2. PICK e \in Delivery : Become(w, e) /\ e.pc # "emit"
    BY <1>1, <1>4, EmitFields DEF Delivery, Hook
  <2>3. w \notin Completing' /\ Completing' = Completing \ {w}
    BY <1>2, <1>3, <2>2
  <2>4. CASE d.hook = "post" /\ ~ d.failed
    <3>1. w \in Completing /\ completed = 0
      BY <1>2, <2>1, <2>2, <2>4 DEF CompletionAccounted
    <3>2. d.resent = 0 /\ Leads(d)
      BY <1>1, <2>1, <2>4 DEF Untroubled, Leads
    <3>3. row.status = "COMPLETED"
      BY <1>1, <2>1, <2>4, <3>2 DEF LeadSound, StatusFor
    <3>4. \A v \in Completing : v = w
      <4>1. SUFFICES ASSUME NEW v \in Completing PROVE v = w
        OBVIOUS
      <4>2. /\ worker[v] \in Delivery /\ Untroubled(worker[v])
            /\ worker[v].pc = "emit" /\ ~ worker[v].failed
        BY <1>3, CalmFacts DEF Completing
      <4>3. Leads(worker[v])
        BY <4>2 DEF Untroubled, Leads, Delivery
      <4> QED
        BY <1>3, <3>2, <4>3 DEF CalmInv, OneLead
    <3>5. Completing' = {}
      BY <2>3, <3>4
    <3>6. MetricsPostExecute(w)
      <4>1. ~ (Receive(w) \/ Work(w) \/ ChannelLost(w))
        BY <2>1, NotEmitting, NoFailure
      <4> QED
        BY <2>4, <4>1 DEF MetricsStep, MetricsPreExecute, MetricsOnError, Unmeasured
    <3>7. completed' = completed + 1
      BY <2>4, <3>6 DEF MetricsPostExecute
    <3> QED
      BY <2>1, <3>1, <3>3, <3>5, <3>7
  <2>5. CASE ~ (d.hook = "post" /\ ~ d.failed)
    <3>1. Completing' = Completing
      BY <1>2, <2>2, <2>3, <2>5
    <3>2. completed' = completed
      <4>1. CASE MetricsPostExecute(w)
        <5>1. ~ PostExecuteSkips(w)
          BY <2>1 DEF PostExecuteSkips, At
        <5>2. d.failed
          BY <2>5, <4>1, <5>1 DEF MetricsPostExecute
        <5> QED
          BY <4>1, <5>2 DEF MetricsPostExecute
      <4>2. CASE MetricsPreExecute(w) \/ MetricsOnError(w) \/ Unmeasured(w)
        BY <4>2 DEF MetricsPreExecute, MetricsOnError, Unmeasured
      <4> QED
        BY <4>1, <4>2 DEF MetricsStep
    <3> QED
      BY <2>1, <3>1, <3>2 DEF CompletionAccounted
  <2> QED
    BY <2>4, <2>5
<1>5. CASE Receive(w) \/ Work(w)
  <2>1. row.exists
    BY <1>5, RowNeverAppears
  <2>2. completed' = completed
    <3>1. d.pc # "emit"
      BY <1>5, NotEmitting
    <3>2. PostExecuteSkips(w) => d.failed
      BY <1>1 DEF PostExecuteSkips, Untroubled
    <3> QED
      BY <3>1, <3>2
      DEF MetricsStep, MetricsPreExecute, MetricsOnError, MetricsPostExecute, Unmeasured,
          Emit
  <2>3. PICK e \in Delivery :
           /\ Become(w, e)
           /\ \/ row' = row /\ ~ (e.pc = "emit" /\ e.resent = 0)
              \/ /\ row.status # "COMPLETED"
                 /\ \/ e.pc = "requeue" /\ row'.status = "RETRYING"
                    \/ /\ e.pc = "emit" /\ e.resent = 0
                       /\ row'.status = "COMPLETED" <=> e.hook = "post" /\ ~ e.failed
    BY <1>5, <2>1, CalmMoves
  <2>4. w \notin Completing
    BY <1>5, NotEmitting DEF Completing
  <2>5. CASE row' = row /\ ~ (e.pc = "emit" /\ e.resent = 0)
    <3>1. worker'[w] = e
      BY <1>1, <2>3 DEF Become
    <3>2. Untroubled(e) /\ e.resent \in Nat
      BY <3>1, <2>3 DEF CalmInv, Delivery
    <3>3. ~ Due(e)
      BY <2>5, <3>2 DEF Untroubled
    <3>4. Completing' = Completing
      BY <1>2, <1>3, <2>3, <2>4, <3>3
    <3> QED
      BY <2>1, <2>2, <2>5, <3>4 DEF CompletionAccounted
  <2>6. CASE /\ row.status # "COMPLETED"
             /\ \/ e.pc = "requeue" /\ row'.status = "RETRYING"
                \/ /\ e.pc = "emit" /\ e.resent = 0
                   /\ row'.status = "COMPLETED" <=> e.hook = "post" /\ ~ e.failed
    <3>1. completed' = 0
      BY <2>1, <2>2, <2>6 DEF CompletionAccounted
    <3>2. row'.status = "COMPLETED" => w \in Completing'
      BY <1>2, <2>3, <2>6
    <3> QED
      BY <3>1, <3>2
  <2> QED
    BY <2>3, <2>5, <2>6
<1>6. ~ ChannelLost(w)
  BY NoFailure
<1> QED
  BY <1>4, <1>5, <1>6
  DEF MetricsStep, MetricsPreExecute, MetricsOnError, MetricsPostExecute, Unmeasured, Work

LEMMA NextKeepsCounters ==
    ASSUME NominalInv, CountersInv, [MetricsNext]_metricsVars
    PROVE  CountersInv'
<1>1. CASE UNCHANGED metricsVars
  BY <1>1
  DEF metricsVars, metrics, vars, CountersInv, Calm, RunsAccounted, CompletionAccounted,
      Running, CountedOnce, Completing, SendsMade, TotalSent
<1>2. ASSUME NEW w \in Worker, MetricsStep(w)
      PROVE  CountersInv'
  <2>1. CASE Calm'
    <3>1. AuditInv /\ Next
      BY <1>2, MetricsStepIsStep DEF NominalInv
    <3>2. Calm
      BY <2>1, <3>1, CalmBefore
    <3>3. CalmInv /\ CalmInv'
      BY <2>1, <3>1, <3>2, NextKeepsCalm DEF NominalInv
    <3> QED
      BY <1>2, <2>1, <3>1, <3>2, <3>3, MetricsStepKeepsRuns, MetricsStepKeepsCompletion
      DEF CountersInv
  <2>2. CASE ~ Calm'
    BY <2>2 DEF CountersInv
  <2> QED
    BY <2>1, <2>2
<1> QED
  BY <1>1, <1>2 DEF MetricsNext, MetricsStep

\* At the start the message is in the queue, and nothing was run or sent.
LEMMA InitCounters == MetricsInit => CountersInv
<1> SUFFICES ASSUME MetricsInit PROVE RunsAccounted /\ CompletionAccounted
  BY DEF CountersInv
<1>1. /\ started = 0 /\ completed = 0 /\ failed = 0 /\ queue = 1
      /\ row \in {NewRow, NoRow} /\ sent = [n \in Number |-> 0]
      /\ worker = [w \in Worker |-> Idle]
  BY DEF MetricsInit, Init, Fresh
<1>2. Running = {} /\ CountedOnce = {}
  BY <1>1 DEF Running, CountedOnce, Idle
<1>3. SendsMade = {}
  BY <1>1 DEF SendsMade
<1>4. \A S : S = {} => IsFiniteSet(S) /\ Cardinality(S) = 0
  BY FS_EmptySet
<1>5. row.status # "COMPLETED"
  BY <1>1 DEF NewRow, NoRow
<1> QED
  BY <1>1, <1>2, <1>3, <1>4, <1>5 DEF RunsAccounted, CompletionAccounted, TotalSent

\* metrics_mw.py: while nothing fails but sends that the broker refuses, each message sent
\* is started once, the task completes once at most and exactly when its row says so, and
\* every other run was counted as two failures, by on_error and by post_execute.
THEOREM CountersMatchRecords == MetricsSpec => []MetricsMatchRecords
<1>1. NominalInv /\ CountersInv /\ [MetricsNext]_metricsVars => CountersInv'
  BY NextKeepsCounters
<1>2. MetricsSpec => []NominalInv
  BY MetricsOnlyObserve, NominalInvariant, PTL
<1>3. CountersInv => MetricsMatchRecords
  <2> SUFFICES ASSUME CountersInv, Settled, Calm
               PROVE  /\ started = 1 + TotalSent
                      /\ row.exists => completed = IF row.status = "COMPLETED" THEN 1 ELSE 0
                      /\ failed = 2 * (started - completed)
    BY DEF MetricsMatchRecords
  <2>1. Running = {} /\ CountedOnce = {} /\ Completing = {} /\ queue = 0
    BY DEF Settled, Running, CountedOnce, Completing
  <2>2. Cardinality(Running) = 0 /\ Cardinality(CountedOnce) = 0
    BY <2>1, FS_EmptySet
  <2>3. /\ started \in Nat /\ completed \in Nat /\ failed \in Nat
        /\ started + queue = 1 + TotalSent
        /\ failed + 2 * completed + 2 * Cardinality(Running)
              = 2 * started + Cardinality(CountedOnce)
    BY DEF CountersInv, RunsAccounted
  <2>4. row.exists => completed = IF row.status = "COMPLETED" THEN 1 ELSE 0
    BY <2>1 DEF CountersInv, CompletionAccounted
  <2>5. failed = 2 * (started - completed)
    BY <2>2, <2>3
  <2> QED
    BY <2>1, <2>3, <2>4, <2>5
<1> QED
  BY <1>1, <1>2, <1>3, InitCounters, PTL DEF MetricsSpec

(***************************************************************************)
(* Both observers                                                          *)
(***************************************************************************)

\* The same deliveries, observed by both: each step of the composition is a step of the
\* event stream and one of the counters, so that all five promises hold together of the
\* events and the counters that one run of the deliveries leaves.
THEOREM ObserversAgree ==
    ObserversSpec => [](/\ EventReportsCommitted /\ NoSilentTransition
                        /\ LastOutcomeEvent
                        /\ GaugeDrift /\ MetricsMatchRecords)
<1>1. ObserversInit => MetricsInit /\ EventInit
  BY DEF ObserversInit
<1>2. ObserversSpec => MetricsSpec /\ EventSpec
  BY <1>1, ObserversAreBoth, PTL DEF ObserversSpec, MetricsSpec, EventSpec, observerVars
<1> QED
  BY <1>2, EventsFollowCommits, TransitionsAreAnnounced, OutcomeIsAnnounced,
     GaugeDrifts, CountersMatchRecords, PTL
=============================================================================
