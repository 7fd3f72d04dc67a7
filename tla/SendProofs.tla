----------------------------- MODULE SendProofs -----------------------------
(***************************************************************************)
(* What the sends of a retry are for.  The audit table is a write-ahead    *)
(* ledger: StateTracking implements RetryLedger under LedgerSpec's         *)
(* mapping, and nothing is sent or claimed without the retry gate.  Each   *)
(* send spends a claim of its own or a database failure, and a failed one  *)
(* is recorded under a number that was claimed before it: SendInv is       *)
(* inductive for every number of deliveries, retries and failures.         *)
(***************************************************************************)
EXTENDS StateTrackingProofs, FiniteSetTheorems

(***************************************************************************)
(* Claims                                                                  *)
(***************************************************************************)

\* The numbers that are claimed.
Claims(log) == {n \in Number : ClaimedRows(log, n) # {}}

\* A SHADOWED, BLOCKED or DISPATCH_FAILED row claims nothing.
LEMMA RecordUnclaimedKeepsClaims ==
    ASSUME NEW log \in Seq(Attempt), NEW n \in Number,
           NEW result \in DispatchResult \ {"PENDING", "DISPATCHED"}
    PROVE  Claims(RecordTaskAttempt(log, n, result)) = Claims(log)
BY RecordClaims DEF Claims

\* Recording an allowed retry claims its number.
LEMMA RecordPendingClaims ==
    ASSUME NEW log \in Seq(Attempt), NEW n \in Number
    PROVE  Claims(RecordTaskAttempt(ReconcilePending(log), n, "PENDING"))
              = Claims(log) \cup {n}
<1> DEFINE mid == ReconcilePending(log)
<1>1. mid \in Seq(Attempt) /\ \A m : ClaimedRows(mid, m) = ClaimedRows(log, m)
  BY ReconcilePendingKeeps, ReconcileKeepsClaims
<1> HIDE DEF mid
<1>2. "PENDING" \in DispatchResult
  BY DEF DispatchResult
<1>3. \A m : ClaimedRows(RecordTaskAttempt(mid, n, "PENDING"), m) =
             ClaimedRows(log, m) \cup (IF m = n THEN {Len(mid) + 1} ELSE {})
  BY <1>1, <1>2, RecordClaims
<1> QED
  BY <1>3 DEF Claims, mid

\* How one step of a delivery changes the ledger: not at all, by a claim that leaves no
\* gap, or by a send of a claimed retry; the last two only while the gate is open.
LedgerStep ==
    \/ Claims(audit') = Claims(audit) /\ sent' = sent
    \/ /\ gate = "open"
       /\ \E n \in Number :
             \/ /\ \A m \in Number : m < n => m \in Claims(audit)
                /\ Claims(audit') = Claims(audit) \cup {n}
                /\ sent' = sent
             \/ /\ n \in Claims(audit)
                /\ sent' = [sent EXCEPT ![n] = @ + 1]
                /\ Claims(audit') = Claims(audit)

\* Whatever its outcome, a commit leaves the log or the intended one, and sends nothing.
LEMMA CommitLedger ==
    ASSUME NEW w, NEW outcome, NEW newRow, NEW newAudit, NEW ok, NEW ko,
           Commit(w, outcome, newRow, newAudit, ok, ko)
    PROVE  (audit' = audit \/ audit' = newAudit) /\ sent' = sent
BY DEF Commit

\* Recording an error claims one retry, and only when the smaller ones are claimed.
LEMMA RecordErrorStatusLedger ==
    ASSUME AuditInv, NEW w \in Worker, NEW outcome \in Outcome,
           RecordErrorStatus(w, outcome)
    PROVE  LedgerStep
<1> DEFINE d   == worker[w]
           dec == d.decision
           newAudit == AuditDecision(audit, dec)
<1>1. /\ d.loaded \in Row /\ d.attempt \in OnErrorAttempt /\ gate \in Gate
      /\ AuditedUpTo(d.loaded.retries, audit, gate)
      /\ audit \in Seq(Attempt)
      /\ dec = ResolveRetryDecision(d.loaded, d.attempt, gate)
  BY InvFacts DEF Delivery, RecordErrorStatus, At, DeliverySound, DecisionFresh
<1>2. /\ dec.number = d.loaded.retries + 1
      /\ dec.should <=> d.loaded.exists /\ d.loaded.retries < MaxRetries
      /\ dec.allowed <=> dec.should /\ gate = "open"
  <2>1. LET r == ResolveRetryDecision(d.loaded, d.attempt, gate)
        IN  /\ r.number = d.loaded.retries + 1
            /\ r.should <=> d.loaded.exists /\ d.loaded.retries < MaxRetries
            /\ r.allowed <=> r.should /\ gate = "open"
    BY <1>1, ResolveRetryDecisionType
  <2> QED
    BY <1>1, <2>1
<1>3. (audit' = audit \/ audit' = newAudit) /\ sent' = sent
  BY CommitLedger DEF RecordErrorStatus
<1> HIDE DEF d, dec
<1>4. d.loaded.retries \in Nat /\ (dec.should => dec.number \in Number)
  BY <1>1, <1>2, MaxRetriesAssumption DEF Row, Number
<1>5. CASE dec.allowed
  <2>1. Claims(newAudit) = Claims(audit) \cup {dec.number} /\ dec.number \in Number
    BY <1>1, <1>2, <1>4, <1>5, RecordPendingClaims DEF AuditDecision
  <2>2. ASSUME NEW m \in Number, m < dec.number
        PROVE  m \in Claims(audit)
    <3>1. m \in 1 .. d.loaded.retries /\ gate = "open"
      BY <1>2, <1>4, <1>5, <2>2 DEF Number
    <3> QED
      BY <1>1, <3>1 DEF AuditedUpTo, Decides, Claims, ClaimedRows
  <2> HIDE DEF newAudit
  <2> QED
    BY <1>2, <1>3, <1>5, <2>1, <2>2 DEF LedgerStep
<1>6. CASE ~ dec.allowed
  <2>1. Claims(newAudit) = Claims(audit)
    <3>1. CASE dec.should
      <4> DEFINE result == IF dec.shadowed THEN "SHADOWED" ELSE "BLOCKED"
      <4>1. result \in DispatchResult \ {"PENDING", "DISPATCHED"}
        BY DEF DispatchResult
      <4> HIDE DEF result
      <4>2. newAudit = RecordTaskAttempt(audit, dec.number, result)
        BY <1>6, <3>1 DEF result, AuditDecision
      <4> QED
        BY <1>1, <1>4, <3>1, <4>1, <4>2, RecordUnclaimedKeepsClaims
    <3>2. CASE ~ dec.should
      BY <1>6, <3>2 DEF AuditDecision
    <3> QED
      BY <3>1, <3>2
  <2> HIDE DEF newAudit
  <2> QED
    BY <1>3, <2>1 DEF LedgerStep
<1> QED
  BY <1>5, <1>6

\* The end of a dispatch claims nothing.
LEMMA DispatchEndLedger ==
    ASSUME AuditInv, NEW w \in Worker, NEW outcome \in Outcome,
           MarkDispatched(w, outcome) \/ RetryDispatchFailed(w, outcome)
    PROVE  LedgerStep
<1> DEFINE d == worker[w]
<1>1. audit \in Seq(Attempt) /\ d.decision.number \in Number
  BY InvFacts DEF MarkDispatched, RetryDispatchFailed, DeliverySound, DispatchAllowed,
                  Dispatching
<1>2. CASE MarkDispatched(w, outcome)
  <2>1. /\ \/ audit' = audit
           \/ audit' = MarkTaskAttemptDispatched(audit, ClaimNumber(d))
        /\ sent' = sent
    BY <1>2, CommitLedger DEF MarkDispatched
  <2>2. Claims(MarkTaskAttemptDispatched(audit, ClaimNumber(d))) = Claims(audit)
    BY <1>1, MarkKeepsClaims DEF Claims
  <2> QED
    BY <2>1, <2>2 DEF LedgerStep
<1>3. CASE RetryDispatchFailed(w, outcome)
  <2>1. /\ \/ audit' = audit
           \/ audit' = RecordTaskAttempt(audit, d.decision.number, "DISPATCH_FAILED")
        /\ sent' = sent
    BY <1>3, CommitLedger DEF RetryDispatchFailed
  <2>2. "DISPATCH_FAILED" \in DispatchResult \ {"PENDING", "DISPATCHED"}
    BY DEF DispatchResult
  <2>3. Claims(RecordTaskAttempt(audit, d.decision.number, "DISPATCH_FAILED"))
           = Claims(audit)
    BY <1>1, <2>2, RecordUnclaimedKeepsClaims
  <2> QED
    BY <2>1, <2>3 DEF LedgerStep
<1> QED
  BY <1>2, <1>3

\* Only a claimed retry is sent, under its number.
LEMMA SendLedger ==
    ASSUME AuditInv, NEW w \in Worker, RequeueSent(w) \/ RequeueUnconfirmed(w)
    PROVE  LedgerStep
<1> DEFINE n == ClaimNumber(worker[w])
<1>1. /\ worker[w] \in Delivery /\ gate = "open" /\ ClaimedRows(audit, n) # {}
      /\ worker[w].decision.number \in Number
  BY InvFacts DEF RequeueSent, RequeueUnconfirmed, DeliverySound, DispatchAllowed,
                  ClaimKnown, Dispatching
<1>2. n \in Number
  BY <1>1, MaxRetriesAssumption DEF ClaimNumber, Delivery, OnErrorAttempt, Number
<1>3. audit' = audit /\ sent' = [sent EXCEPT ![n] = @ + 1]
  BY DEF RequeueSent, RequeueUnconfirmed
<1> HIDE DEF n
<1> QED
  BY <1>1, <1>2, <1>3 DEF LedgerStep, Claims

\* Every step of the specification is one of the ledger, or none.
LEMMA NextLedger == AuditInv /\ [Next]_vars => LedgerStep
<1> SUFFICES ASSUME AuditInv, [Next]_vars PROVE LedgerStep
  OBVIOUS
<1>1. CASE audit' = audit /\ sent' = sent
  BY <1>1 DEF LedgerStep
<1>2. CASE Next /\ ~ (audit' = audit /\ sent' = sent)
  <2>1. PICK w \in Worker : Receive(w) \/ Step(w) \/ Crash(w) \/ ChannelLost(w)
    BY <1>2 DEF Next
  <2>2. ~ (Receive(w) \/ RunTask(w) \/ SaveAndAck(w) \/ Crash(w)
           \/ ChannelLost(w) \/ GiveBack(w) \/ LoadFails(w)
           \/ UnretriedError(w) \/ Load(w)
           \/ PostExecuteSkips(w) \/ Emit(w) \/ OnErrorLoad(w) \/ RecoverDispatch(w)
           \/ RequeueRefused(w))
    BY <1>2 DEF Receive, RunTask, SaveAndAck, Crash, ChannelLost, GiveBack, LoadFails,
                UnretriedError, Load, PostExecuteSkips, Emit, OnErrorLoad, RecoverDispatch, RequeueRefused
  <2>3. ASSUME NEW outcome \in Outcome
        PROVE  ~ (PreExecute(w, outcome) \/ PostExecute(w, outcome))
    BY <1>2, CommitLedger DEF PreExecute, PostExecute, SetStatus
  <2> QED
    BY <2>1, <2>2, <2>3, SendLedger, RecordErrorStatusLedger, DispatchEndLedger
       DEF Step, Work
<1> QED
  BY <1>1, <1>2 DEF vars

\* The audit table is a write-ahead ledger of what goes to the broker: retries are claimed
\* in order without gaps, sent only when claimed, and never unclaimed, through every
\* failure, replay and redelivery.
THEOREM WriteAheadLedger == Spec => LedgerSpec
<1>1. Init => Ledger!Init
  <2> SUFFICES ASSUME Init PROVE Ledger!Init
    OBVIOUS
  <2>1. Claims(audit) = {} /\ sent = [n \in Number |-> 0]
    BY DEF Init, Fresh, Claims, ClaimedRows
  <2> QED
    BY <2>1 DEF Ledger!Init, Ledger!Retries, Claims, Number
<1>2. AuditInv /\ [Next]_vars => [Ledger!Next]_Ledger!ledger
  <2> SUFFICES ASSUME AuditInv, [Next]_vars PROVE [Ledger!Next]_Ledger!ledger
    OBVIOUS
  <2>1. LedgerStep
    BY NextLedger
  <2> QED
    BY <2>1 DEF LedgerStep, Claims, Number, Ledger!Next, Ledger!Claim, Ledger!Send,
                Ledger!Retries, Ledger!ledger
<1> QED
  BY <1>1, <1>2, AuditInvariant, PTL DEF Spec, LedgerSpec, Ledger!Spec

\* Without the gate a step adds at most one audit row, of a retry that was not made.
LEMMA ClosedGateStep ==
    ASSUME AuditInv, [Next]_vars, gate # "open"
    PROVE  \/ audit' = audit
           \/ \E n \in Number, result \in {"SHADOWED", "BLOCKED"} :
                 audit' = RecordTaskAttempt(audit, n, result)
<1>1. CASE audit' = audit
  BY <1>1
<1>2. CASE Next /\ audit' # audit
  <2>1. PICK w \in Worker : Receive(w) \/ Step(w) \/ Crash(w) \/ ChannelLost(w)
    BY <1>2 DEF Next
  <2> DEFINE d   == worker[w]
             dec == d.decision
  <2>2. ~ Dispatching(d) /\ d.loaded \in Row /\ d.attempt \in OnErrorAttempt /\ gate \in Gate
    BY InvFacts DEF DeliverySound, DispatchAllowed, Delivery
  <2>3. ~ (Receive(w) \/ RunTask(w) \/ SaveAndAck(w) \/ Crash(w)
           \/ ChannelLost(w) \/ GiveBack(w) \/ LoadFails(w)
           \/ UnretriedError(w) \/ Load(w)
           \/ PostExecuteSkips(w) \/ Emit(w) \/ OnErrorLoad(w) \/ RecoverDispatch(w)
           \/ RequeueRefused(w) \/ RequeueSent(w) \/ RequeueUnconfirmed(w))
    BY <1>2 DEF Receive, RunTask, SaveAndAck, Crash, ChannelLost, GiveBack, LoadFails,
                UnretriedError, Load, PostExecuteSkips, Emit, OnErrorLoad, RecoverDispatch,
                RequeueRefused, RequeueSent, RequeueUnconfirmed
  <2>4. ASSUME NEW outcome \in Outcome
        PROVE  ~ (PreExecute(w, outcome) \/ PostExecute(w, outcome)
                  \/ MarkDispatched(w, outcome) \/ RetryDispatchFailed(w, outcome))
    BY <1>2, <2>2, CommitLedger
       DEF PreExecute, PostExecute, SetStatus, MarkDispatched, RetryDispatchFailed,
           Dispatching
  <2>5. PICK outcome \in Outcome : RecordErrorStatus(w, outcome)
    BY <2>1, <2>3, <2>4 DEF Step, Work
  <2>6. dec = ResolveRetryDecision(d.loaded, d.attempt, gate)
    BY <2>5, InvFacts DEF RecordErrorStatus, At, DeliverySound, DecisionFresh
  <2>7. /\ dec.number = d.loaded.retries + 1
        /\ dec.should => d.loaded.retries < MaxRetries
        /\ ~ dec.allowed
    <3>1. LET r == ResolveRetryDecision(d.loaded, d.attempt, gate)
          IN  /\ r.number = d.loaded.retries + 1
              /\ r.should <=> d.loaded.exists /\ d.loaded.retries < MaxRetries
              /\ r.allowed <=> r.should /\ gate = "open"
      BY <2>2, ResolveRetryDecisionType
    <3> QED
      BY <2>6, <3>1
  <2>8. dec.should => dec.number \in Number
    BY <2>2, <2>7, MaxRetriesAssumption DEF Row, Number
  <2> DEFINE result == IF dec.shadowed THEN "SHADOWED" ELSE "BLOCKED"
  <2>9. audit' = IF dec.should THEN RecordTaskAttempt(audit, dec.number, result) ELSE audit
    BY <1>2, <2>5, <2>7, CommitLedger DEF RecordErrorStatus, AuditDecision
  <2>10. result \in {"SHADOWED", "BLOCKED"}
    OBVIOUS
  <2> HIDE DEF dec, result
  <2> QED
    BY <2>8, <2>9, <2>10
<1> QED
  BY <1>1, <1>2 DEF vars

\* With the gate closed or in shadow mode no retry is ever sent, claimed or said to have
\* failed, for any number of deliveries and failures.
THEOREM GateIsRespected == Spec => []GateRespected
<1>1. Init => GateRespected
  BY DEF Init, Fresh, GateRespected
<1>2. AuditInv /\ GateRespected /\ [Next]_vars => GateRespected'
  <2> SUFFICES ASSUME AuditInv, GateRespected, [Next]_vars, gate' # "open"
               PROVE  /\ \A n \in Number : sent'[n] = 0
                      /\ \A i \in DOMAIN audit' : audit'[i].result \in {"SHADOWED", "BLOCKED"}
    BY DEF GateRespected
  <2>1. gate' = gate
    BY NextKeepsAudit DEF SoundStep
  <2>2. /\ \A n \in Number : sent[n] = 0
        /\ \A i \in DOMAIN audit : audit[i].result \in {"SHADOWED", "BLOCKED"}
    BY <2>1 DEF GateRespected
  <2>3. sent' = sent
    BY <2>1, NextLedger DEF LedgerStep
  <2>4. CASE audit' = audit
    BY <2>2, <2>3, <2>4
  <2>5. ASSUME NEW n \in Number, NEW result \in {"SHADOWED", "BLOCKED"},
               audit' = RecordTaskAttempt(audit, n, result)
        PROVE  \A i \in DOMAIN audit' : audit'[i].result \in {"SHADOWED", "BLOCKED"}
    <3>1. audit \in Seq(Attempt)
      BY DEF AuditInv, TypeOK
    <3>2. audit' = Append(audit, [number |-> n, result |-> result])
      BY <2>5 DEF RecordTaskAttempt
    <3>3. /\ DOMAIN audit' = DOMAIN audit \cup {Len(audit) + 1}
          /\ \A i \in DOMAIN audit : audit'[i] = audit[i]
          /\ audit'[Len(audit) + 1] = [number |-> n, result |-> result]
      BY <3>1, <3>2
    <3> QED
      BY <2>2, <3>3
  <2> QED
    BY <2>1, <2>2, <2>3, <2>4, <2>5, ClosedGateStep
<1> QED
  BY <1>1, <1>2, AuditInvariant, PTL DEF Spec

(***************************************************************************)
(* The inductive invariant behind FailedSendNumbered and                   *)
(* ExtraSendsHaveACause                                                    *)
(***************************************************************************)

\* A delivery that may send a retry although it records none before: one that has just
\* recorded it, and a replay, which follows a database failure.
Entitled(d) ==
    \/ d.pc \in {"lookup", "requeue"}
    \/ d.pc = "load" /\ d.tries > 1

Senders == {w \in Worker : Entitled(worker[w])}

\* What a delivery remembers of its own retry: nothing on the first try; the count it
\* wrote is the number it claimed, or the limit; and the decision it dispatches by has
\* that number, or on a replay the next.
MemorySound(d) ==
    /\ d.pc = "load" /\ d.tries = 1 => d.attempt = NoAttempt
    /\ d.attempt.number # 0 /\ d.attempt.retries # -1 =>
          d.attempt.retries \in {d.attempt.number, MaxRetries}
    /\ Dispatching(d) => d.decision.number \in {ClaimNumber(d), ClaimNumber(d) + 1}

\* Each send spends the claim or the database failure that entitled its delivery to it.
SendsAccounted ==
    /\ IsFiniteSet(Senders) /\ IsFiniteSet(SendsMade)
    /\ TotalSent + Cardinality(Senders) <= Cardinality(AllClaimed(audit)) + faults.db

SendInv ==
    /\ AuditInv
    /\ \A w \in Worker : MemorySound(worker[w])
    /\ FailedSendNumbered
    /\ SendsAccounted

(***************************************************************************)
(* The claimed rows of the log, whatever their number                      *)
(***************************************************************************)

LEMMA AllClaimedByNumber ==
    ASSUME NEW log
    PROVE  \A i : i \in AllClaimed(log) <=> \E m : i \in ClaimedRows(log, m)
BY DEF AllClaimed, ClaimedRows

\* There are finitely many.
LEMMA AllClaimedFinite ==
    ASSUME NEW log \in Seq(Attempt)
    PROVE  IsFiniteSet(AllClaimed(log)) /\ Cardinality(AllClaimed(log)) \in Nat
<1>1. AllClaimed(log) \in SUBSET (1 .. Len(log)) /\ Len(log) \in Nat
  BY DEF AllClaimed
<1>2. IsFiniteSet(1 .. Len(log))
  BY <1>1, FS_Interval
<1> QED
  BY <1>1, <1>2, FS_Subset, FS_CardinalityType

\* Marking and reconciling claim nothing and withdraw nothing.
LEMMA MarkKeepsAllClaimed ==
    ASSUME NEW log \in Seq(Attempt), NEW n
    PROVE  /\ AllClaimed(MarkTaskAttemptDispatched(log, n)) = AllClaimed(log)
           /\ AllClaimed(ReconcilePending(log)) = AllClaimed(log)
<1> DEFINE marked     == MarkTaskAttemptDispatched(log, n)
           reconciled == ReconcilePending(log)
<1>1. \A m : ClaimedRows(marked, m) = ClaimedRows(log, m)
  BY MarkKeepsClaims
<1>2. \A m : ClaimedRows(reconciled, m) = ClaimedRows(log, m)
  BY ReconcileKeepsClaims
<1> HIDE DEF marked, reconciled
<1>3. AllClaimed(marked) = AllClaimed(log) /\ AllClaimed(reconciled) = AllClaimed(log)
  <2>1. \A x, i : i \in AllClaimed(x) <=> \E m : i \in ClaimedRows(x, m)
    BY DEF AllClaimed, ClaimedRows
  <2>2. \A i : i \in AllClaimed(marked) <=> i \in AllClaimed(log)
    BY <1>1, <2>1, Zenon
  <2>3. \A i : i \in AllClaimed(reconciled) <=> i \in AllClaimed(log)
    BY <1>2, <2>1, Zenon
  <2> QED
    BY <2>2, <2>3
<1> QED
  BY <1>3 DEF marked, reconciled

\* A new row is claimed when its result is PENDING or DISPATCHED.
LEMMA RecordAllClaimed ==
    ASSUME NEW log \in Seq(Attempt), NEW n \in Number, NEW result \in DispatchResult
    PROVE  AllClaimed(RecordTaskAttempt(log, n, result)) =
              AllClaimed(log) \cup
                 (IF result \in {"PENDING", "DISPATCHED"} THEN {Len(log) + 1} ELSE {})
<1> DEFINE new == RecordTaskAttempt(log, n, result)
<1>1. \A m : ClaimedRows(new, m) =
                ClaimedRows(log, m) \cup
                   (IF m = n /\ result \in {"PENDING", "DISPATCHED"}
                    THEN {Len(log) + 1} ELSE {})
  BY RecordClaims
<1> HIDE DEF new
<1> QED
  BY <1>1, AllClaimedByNumber DEF new

\* One claim more: a row that the log did not have.
OneMoreClaim(log, new) ==
    \E i : i \notin AllClaimed(log) /\ AllClaimed(new) = AllClaimed(log) \cup {i}

\* Recording an allowed retry is one claim more.
LEMMA RecordPendingOneMore ==
    ASSUME NEW log \in Seq(Attempt), NEW n \in Number
    PROVE  OneMoreClaim(log, RecordTaskAttempt(ReconcilePending(log), n, "PENDING"))
<1> DEFINE mid == ReconcilePending(log)
<1>1. mid \in Seq(Attempt) /\ AllClaimed(mid) = AllClaimed(log)
  BY ReconcilePendingKeeps, MarkKeepsAllClaimed
<1> HIDE DEF mid
<1>2. "PENDING" \in DispatchResult
  BY DEF DispatchResult
<1>3. AllClaimed(RecordTaskAttempt(mid, n, "PENDING")) = AllClaimed(mid) \cup {Len(mid) + 1}
  BY <1>1, <1>2, RecordAllClaimed
<1>4. Len(mid) + 1 \notin AllClaimed(mid)
  BY <1>1 DEF AllClaimed
<1> QED
  BY <1>1, <1>3, <1>4 DEF OneMoreClaim, mid

(***************************************************************************)
(* What a delivery remembers                                               *)
(***************************************************************************)

\* The part of MemorySound that concerns the attempt alone.
CountRemembered(a) ==
    a.number # 0 /\ a.retries # -1 => a.retries \in {a.number, MaxRetries}

\* Away from load and from the dispatching steps nothing else matters.
LEMMA RestingMemory ==
    ASSUME NEW d, CountRemembered(d.attempt), ~ Dispatching(d), d.pc # "load"
    PROVE  MemorySound(d) /\ ~ Entitled(d)
BY DEF MemorySound, CountRemembered, Entitled, Dispatching

LEMMA NothingRemembered == CountRemembered(NoAttempt)
BY DEF CountRemembered, NoAttempt

LEMMA IdleMemory == MemorySound(Idle) /\ ~ Entitled(Idle)
<1>1. Idle.pc = "idle" /\ Idle.attempt = NoAttempt
  BY DEF Idle
<1> QED
  BY <1>1, NothingRemembered, RestingMemory DEF Dispatching

\* A first try remembers nothing and is entitled to no send.
LEMMA EnterMemory ==
    ASSUME NEW d \in Delivery, NEW hook \in Hook
    PROVE  MemorySound(Enter(d, hook)) /\ ~ Entitled(Enter(d, hook))
<1>1. Enter(d, hook).pc = "load" /\ Enter(d, hook).attempt = NoAttempt
  BY EnterType
<1>2. Enter(d, hook).tries = 1
  BY DEF Enter, Delivery
<1> QED
  BY <1>1, <1>2, NothingRemembered
     DEF MemorySound, Entitled, CountRemembered, Dispatching

\* A replay keeps what was remembered.
LEMMA RetryMemory ==
    ASSUME NEW d \in Delivery, CountRemembered(d.attempt)
    PROVE  MemorySound(Retry(d))
<1>1. Retry(d).pc \in {"load", "stuck"} /\ Retry(d).attempt = d.attempt
  BY RetryType
<1>2. Retry(d).pc = "load" => Retry(d).tries # 1
  <2>1. CASE d.tries < DbAttempts
    <3>1. Retry(d).tries = d.tries + 1 /\ d.tries \in 1 .. DbAttempts
      BY <2>1 DEF Retry, Delivery
    <3> QED
      BY <3>1, DbAttemptsAssumption
  <2>2. CASE ~ (d.tries < DbAttempts)
    BY <2>2, RaiseType DEF Retry
  <2> QED
    BY <2>1, <2>2
<1> QED
  BY <1>1, <1>2 DEF MemorySound, CountRemembered, Dispatching

(***************************************************************************)
(* The accounts of a step                                                  *)
(***************************************************************************)

\* How a step in which the delivery of w becomes e changes the accounts: it entitles e to
\* a send only because of a failure or because it was entitled before; or it makes a
\* claim; or e gives its entitlement up for a send.
Accounted(w, e) ==
    \/ /\ sent' = sent /\ AllClaimed(audit') = AllClaimed(audit)
       /\ faults'.db \in {faults.db, faults.db + 1}
       /\ Entitled(e) => Entitled(worker[w]) \/ faults'.db = faults.db + 1
    \/ /\ sent' = sent /\ OneMoreClaim(audit, audit')
       /\ faults'.db \in {faults.db, faults.db + 1}
    \/ /\ \E n \in Number : sent' = [sent EXCEPT ![n] = @ + 1]
       /\ AllClaimed(audit') = AllClaimed(audit) /\ faults'.db = faults.db
       /\ Entitled(worker[w]) /\ ~ Entitled(e)

\* What every step of w shows.
SendStep(w) ==
    \E e \in Delivery : Become(w, e) /\ MemorySound(e) /\ Accounted(w, e)

\* A step that sends nothing, leaves the log alone and does not entitle.
LEMMA LocalAccounted ==
    ASSUME NEW w, NEW e \in Delivery, Become(w, e), MemorySound(e),
           UNCHANGED <<audit, sent>>, faults'.db = faults.db,
           Entitled(e) => Entitled(worker[w])
    PROVE  SendStep(w)
BY DEF SendStep, Accounted

\* A commit, whatever its outcome.
LEMMA CommitAccounted ==
    ASSUME AuditInv, NEW w \in Worker, NEW outcome \in Outcome, NEW newRow, NEW newAudit,
           NEW ok \in Delivery, NEW ko \in Delivery,
           MemorySound(ok), CountRemembered(ko.attempt),
           \/ AllClaimed(newAudit) = AllClaimed(audit) /\ ~ Entitled(ok)
           \/ OneMoreClaim(audit, newAudit),
           Commit(w, outcome, newRow, newAudit, ok, ko)
    PROVE  SendStep(w)
<1>1. faults \in FaultCounts /\ sent' = sent
  BY InvFacts DEF Commit
<1>2. CASE outcome = "committed"
  <2>1. Become(w, ok) /\ faults' = faults /\ audit' = newAudit
    BY <1>2 DEF Commit
  <2> QED
    BY <1>1, <2>1 DEF SendStep, Accounted
<1>3. CASE outcome # "committed"
  <2>1. /\ Become(w, Retry(ko)) /\ faults' = [faults EXCEPT !.db = @ + 1]
        /\ audit' = audit \/ audit' = newAudit
    BY <1>3 DEF Commit
  <2>2. faults'.db = faults.db + 1
    BY <1>1, <2>1
  <2>3. Retry(ko) \in Delivery /\ MemorySound(Retry(ko))
    BY RetryType, RetryMemory
  <2> QED
    BY <1>1, <2>1, <2>2, <2>3 DEF SendStep, Accounted
<1> QED
  BY <1>2, <1>3

(***************************************************************************)
(* The actions                                                             *)
(***************************************************************************)

\* The receiver's steps and the lost deliveries entitle nobody.
LEMMA ReceiverAccounted ==
    ASSUME AuditInv, NEW w \in Worker, MemorySound(worker[w]),
           \/ Receive(w) \/ RunTask(w) \/ SaveAndAck(w) \/ Crash(w)
           \/ ChannelLost(w) \/ GiveBack(w)
    PROVE  SendStep(w)
<1> DEFINE d == worker[w]
<1>1. d \in Delivery /\ faults \in FaultCounts
  BY InvFacts
<1>2. CASE Receive(w)
  <2> DEFINE f == [Idle EXCEPT !.held = TRUE]
  <2>1. f \in Delivery
    BY NeutralRecords, Zenon DEF Delivery
  <2> HIDE DEF f
  <2>2. "pre" \in Hook
    BY DEF Hook
  <2>3. Become(w, Enter(f, "pre")) /\ UNCHANGED <<audit, sent, faults>>
    BY <1>2 DEF Receive, f
  <2> QED
    BY <2>1, <2>2, <2>3, EnterType, EnterMemory, LocalAccounted
<1>3. CASE RunTask(w)
  <2>1. PICK failed \in BOOLEAN :
          Become(w, Enter([worker[w] EXCEPT !.failed = failed],
                          IF failed THEN "error" ELSE "post"))
    BY <1>3 DEF RunTask
  <2> DEFINE f    == [worker[w] EXCEPT !.failed = failed]
             hook == IF failed THEN "error" ELSE "post"
  <2>2. f \in Delivery /\ hook \in Hook
    BY <1>1 DEF Delivery, Hook
  <2>3. Become(w, Enter(f, hook)) /\ UNCHANGED <<audit, sent, faults>>
    BY <1>3, <2>1 DEF RunTask
  <2> HIDE DEF f, hook
  <2> QED
    BY <2>2, <2>3, EnterType, EnterMemory, LocalAccounted
<1>4. CASE SaveAndAck(w) \/ GiveBack(w) \/ Crash(w)
  <2>1. Become(w, Idle) /\ UNCHANGED <<audit, sent>>
    BY <1>4 DEF SaveAndAck, GiveBack, Crash
  <2>2. faults' = faults \/ faults' = [faults EXCEPT !.crash = @ + 1]
    BY <1>4 DEF SaveAndAck, GiveBack, Crash
  <2>3. faults'.db = faults.db
    BY <1>1, <2>2, Zenon DEF FaultCounts
  <2> QED
    BY <2>1, <2>3, NeutralRecords, IdleMemory, LocalAccounted
<1>5. CASE ChannelLost(w)
  <2> DEFINE e == [d EXCEPT !.held = FALSE]
  <2>1. /\ e \in Delivery /\ e.pc = d.pc /\ e.tries = d.tries /\ e.attempt = d.attempt
        /\ e.decision = d.decision
    BY <1>1 DEF Delivery
  <2>2. Become(w, e) /\ UNCHANGED <<audit, sent>> /\ faults'.db = faults.db
    BY <1>1, <1>5 DEF ChannelLost
  <2> HIDE DEF e
  <2>3. MemorySound(e) /\ (Entitled(e) => Entitled(d))
    BY <2>1 DEF MemorySound, Entitled, Dispatching, ClaimNumber
  <2> QED
    BY <2>1, <2>2, <2>3, LocalAccounted
<1> QED
  BY <1>2, <1>3, <1>4, <1>5

\* Neither do pre_execute, post_execute and the emit; a failing read entitles its delivery.
LEMMA HooksAccounted ==
    ASSUME AuditInv, NEW w \in Worker, MemorySound(worker[w]), NEW outcome \in Outcome,
           \/ LoadFails(w) \/ UnretriedError(w) \/ Load(w) \/ PreExecute(w, outcome)
           \/ PostExecuteSkips(w) \/ PostExecute(w, outcome) \/ Emit(w)
    PROVE  SendStep(w)
<1> DEFINE d == worker[w]
<1>1. d \in Delivery /\ faults \in FaultCounts /\ CountRemembered(d.attempt)
  BY InvFacts DEF MemorySound, CountRemembered
<1>2. CASE LoadFails(w)
  <2>1. Become(w, Retry(d)) /\ UNCHANGED <<audit, sent>> /\ faults'.db = faults.db + 1
    BY <1>1, <1>2 DEF LoadFails
  <2> QED
    BY <1>1, <2>1, RetryType, RetryMemory DEF SendStep, Accounted
<1>3. CASE UnretriedError(w)
  <2>1. Become(w, Raise(d)) /\ UNCHANGED <<audit, sent>> /\ faults'.db = faults.db + 1
    BY <1>1, <1>3 DEF UnretriedError
  <2>2. Raise(d) \in Delivery /\ MemorySound(Raise(d))
    BY <1>1, RaiseType, RestingMemory DEF Dispatching
  <2> QED
    BY <2>1, <2>2 DEF SendStep, Accounted
<1>4. ASSUME NEW pc \in PC, NEW loaded \in Row, NEW event \in Status,
             pc \in {"write", "save", "run"},
             Become(w, [d EXCEPT !.pc = pc, !.loaded = loaded, !.event = event]),
             UNCHANGED <<audit, sent, faults>>
      PROVE  SendStep(w)
  <2> DEFINE e == [d EXCEPT !.pc = pc, !.loaded = loaded, !.event = event]
  <2>1. e \in Delivery /\ e.pc = pc /\ e.attempt = d.attempt
    BY <1>1 DEF Delivery
  <2> HIDE DEF e
  <2>2. MemorySound(e) /\ ~ Entitled(e)
    BY <1>1, <1>4, <2>1, RestingMemory DEF Dispatching
  <2> QED
    BY <1>4, <2>1, <2>2, LocalAccounted DEF e
<1>5. CASE Load(w)
  <2>1. d.event \in Status /\ row \in Row /\ "write" \in PC
    BY <1>1, InvFacts DEF Delivery, PC
  <2>2. [d EXCEPT !.pc = "write", !.loaded = row]
           = [d EXCEPT !.pc = "write", !.loaded = row, !.event = d.event]
    BY <1>1 DEF Delivery
  <2> QED
    BY <1>4, <1>5, <2>1, <2>2 DEF Load
<1>6. CASE PostExecuteSkips(w)
  <2>1. d.event \in Status /\ d.loaded \in Row /\ "save" \in PC
    BY <1>1 DEF Delivery, PC
  <2>2. [d EXCEPT !.pc = "save"]
           = [d EXCEPT !.pc = "save", !.loaded = d.loaded, !.event = d.event]
    BY <1>1 DEF Delivery
  <2> QED
    BY <1>4, <1>6, <2>1, <2>2 DEF PostExecuteSkips
<1>7. ASSUME NEW status \in Status, NEW reason, SetStatus(w, outcome, status, reason)
      PROVE  SendStep(w)
  <2> DEFINE newRow == Flush(row, d.loaded, UpdateTaskStatus(d.loaded, status, reason))
  <2>1. Commit(w, outcome, newRow, audit, Finish(d, status), d)
    BY <1>7 DEF SetStatus
  <2> HIDE DEF newRow
  <2>2. Finish(d, status) \in Delivery /\ MemorySound(Finish(d, status))
        /\ ~ Entitled(Finish(d, status))
    BY <1>1, FinishType, RestingMemory DEF Dispatching
  <2> QED
    BY <1>1, <2>1, <2>2, CommitAccounted
<1>8. CASE PreExecute(w, outcome) \/ PostExecute(w, outcome)
  BY <1>7, <1>8 DEF PreExecute, PostExecute, Status
<1>9. CASE Emit(w)
  <2> DEFINE f == [d EXCEPT !.event = "PENDING"]
  <2>1. f \in Delivery /\ f.hook \in {"pre", "error", "post"} /\ d.loaded \in Row
    BY <1>1 DEF Delivery, Status, Hook
  <2>2. Become(w, CASE f.hook = "pre"   -> [f EXCEPT !.pc = "run"]
                    [] f.hook = "error" -> Enter(f, "post")
                    [] f.hook = "post"  -> [f EXCEPT !.pc = "save"])
        /\ UNCHANGED <<audit, sent, faults>>
    BY <1>9 DEF Emit
  <2>3. CASE f.hook = "error"
    <3>1. Become(w, Enter(f, "post")) /\ "post" \in Hook
      BY <2>2, <2>3 DEF Hook
    <3> HIDE DEF f
    <3> QED
      BY <2>1, <2>2, <3>1, EnterType, EnterMemory, LocalAccounted
  <2>4. ASSUME NEW pc \in {"run", "save"}, Become(w, [f EXCEPT !.pc = pc])
        PROVE  SendStep(w)
    <3>1. [f EXCEPT !.pc = pc]
             = [d EXCEPT !.pc = pc, !.loaded = d.loaded, !.event = "PENDING"]
      BY <1>1 DEF Delivery
    <3>2. pc \in PC /\ "PENDING" \in Status
      BY DEF PC, Status
    <3> QED
      BY <1>4, <2>1, <2>2, <2>4, <3>1, <3>2
  <2> QED
    BY <2>1, <2>2, <2>3, <2>4
<1> QED
  BY <1>2, <1>3, <1>5, <1>6, <1>8, <1>9

\* _record_error_status on load: only a replay finds its retry recorded, and then the
\* decision is numbered one beyond the retry it remembers.
LEMMA OnErrorLoadAccounted ==
    ASSUME AuditInv, NEW w \in Worker, MemorySound(worker[w]), OnErrorLoad(w)
    PROVE  SendStep(w)
<1> DEFINE d   == worker[w]
           dec == ResolveRetryDecision(row, d.attempt, gate)
           at(pc) == [d EXCEPT !.pc = pc, !.loaded = row, !.decision = dec]
<1>1. /\ d \in Delivery /\ d.attempt \in OnErrorAttempt /\ row \in Row /\ gate \in Gate
      /\ AttemptSound(d.attempt, gate) /\ CountRemembered(d.attempt)
      /\ d.pc = "load" /\ d.tries \in 1 .. DbAttempts
      /\ d.tries = 1 => d.attempt = NoAttempt
  BY InvFacts DEF Delivery, MemorySound, CountRemembered, OnErrorLoad, At
<1>2. /\ dec \in Decision
      /\ dec.number = row.retries + 1
      /\ dec.recorded <=> RetryAlreadyRecorded(row, d.attempt)
      /\ dec.should <=> row.exists /\ row.retries < MaxRetries
      /\ dec.allowed <=> dec.should /\ gate = "open"
  BY <1>1, ResolveRetryDecisionType
<1>3. /\ Become(w, IF ~ dec.recorded THEN at("write")
                   ELSE IF dec.allowed THEN at("lookup")
                   ELSE FinishUndispatched(d, dec))
      /\ UNCHANGED <<audit, sent, faults>>
  BY DEF OnErrorLoad
<1> HIDE DEF d, dec
<1>4. ASSUME NEW pc \in {"write", "lookup"}
      PROVE  /\ at(pc) \in Delivery /\ at(pc).pc = pc /\ at(pc).decision = dec
             /\ at(pc).attempt = d.attempt
  BY <1>1, <1>2 DEF Delivery, PC
<1> HIDE DEF at
<1>5. CASE ~ dec.recorded
  <2>1. MemorySound(at("write")) /\ ~ Entitled(at("write"))
    BY <1>1, <1>4, RestingMemory DEF Dispatching
  <2> QED
    BY <1>3, <1>4, <1>5, <2>1, LocalAccounted
<1>6. CASE dec.recorded /\ dec.allowed
  <2>1. /\ d.attempt.retries = row.retries /\ row.retries \in 0 .. MaxRetries
        /\ row.retries < MaxRetries /\ gate = "open"
    BY <1>1, <1>2, <1>6 DEF RetryAlreadyRecorded, Row
  <2>2. d.tries > 1
    <3>1. NoAttempt.retries = -1
      BY DEF NoAttempt
    <3> QED
      BY <1>1, <2>1, <3>1, DbAttemptsAssumption
  <2>3. d.attempt.number # 0 /\ d.attempt.number = row.retries
    BY <1>1, <2>1, MaxRetriesAssumption DEF AttemptSound, CountRemembered
  <2>4. ClaimNumber(at("lookup")) = d.attempt.number
    BY <1>4, <2>3 DEF ClaimNumber
  <2>5. MemorySound(at("lookup"))
    BY <1>1, <1>2, <1>4, <2>3, <2>4 DEF MemorySound, CountRemembered
  <2>6. Entitled(d)
    BY <1>1, <2>2 DEF Entitled
  <2> QED
    BY <1>3, <1>4, <1>6, <2>5, <2>6, LocalAccounted DEF d
<1>7. CASE dec.recorded /\ ~ dec.allowed
  <2> DEFINE e == FinishUndispatched(d, dec)
  <2>1. e \in Delivery /\ e.pc = "emit" /\ e.attempt = d.attempt
    BY <1>1, <1>2, FinishUndispatchedType
  <2> HIDE DEF e
  <2>2. MemorySound(e) /\ ~ Entitled(e)
    BY <1>1, <2>1, RestingMemory DEF Dispatching
  <2> QED
    BY <1>3, <1>7, <2>1, <2>2, LocalAccounted DEF e
<1> QED
  BY <1>5, <1>6, <1>7

\* A delivery that moves between the dispatching steps keeps its numbers.
LEMMA DispatchingMemory ==
    ASSUME NEW d, Dispatching(d), MemorySound(d), NEW e, e.pc # "load",
           e.decision = d.decision, e.attempt = d.attempt
    PROVE  MemorySound(e)
BY DEF MemorySound, Dispatching, ClaimNumber

\* The lookup keeps the entitlement; a send gives it up.
LEMMA DispatchAccounted ==
    ASSUME AuditInv, NEW w \in Worker, MemorySound(worker[w]),
           \/ RecoverDispatch(w)
           \/ RequeueSent(w) \/ RequeueRefused(w) \/ RequeueUnconfirmed(w)
    PROVE  SendStep(w)
<1> DEFINE d == worker[w]
           n == ClaimNumber(d)
<1>1. /\ d \in Delivery /\ DeliverySound(d, audit, gate) /\ Dispatching(d)
      /\ d.pc \in {"lookup", "requeue"} /\ Entitled(d) /\ CountRemembered(d.attempt)
      /\ faults \in FaultCounts /\ d.resent \in Nat
  BY InvFacts DEF RecoverDispatch, RequeueSent, RequeueRefused, RequeueUnconfirmed,
                  Dispatching, At, Entitled, MemorySound, CountRemembered, Delivery
<1>2. n \in Number
  BY <1>1, MaxRetriesAssumption
     DEF DeliverySound, DispatchAllowed, ClaimNumber, Delivery, OnErrorAttempt, Number
<1>3. ASSUME NEW pc \in {"requeue", "mark", "undispatched"}, NEW resent \in Nat
      PROVE  LET e == [d EXCEPT !.pc = pc, !.resent = resent]
             IN  /\ e \in Delivery /\ MemorySound(e)
                 /\ Entitled(e) => pc = "requeue"
  <2> DEFINE e == [d EXCEPT !.pc = pc, !.resent = resent]
  <2>1. e \in Delivery /\ e.pc = pc /\ e.decision = d.decision /\ e.attempt = d.attempt
    BY <1>1 DEF Delivery, PC
  <2> HIDE DEF e
  <2>2. MemorySound(e) /\ (Entitled(e) => pc = "requeue")
    BY <1>1, <2>1, DispatchingMemory DEF Entitled
  <2> QED
    BY <2>1, <2>2 DEF e
<1>4. ASSUME NEW pc \in {"requeue", "mark", "undispatched"}
      PROVE  LET e == [d EXCEPT !.pc = pc]
             IN  /\ e \in Delivery /\ MemorySound(e)
                 /\ Entitled(e) => pc = "requeue"
  <2>1. [d EXCEPT !.pc = pc] = [d EXCEPT !.pc = pc, !.resent = d.resent]
    BY <1>1 DEF Delivery
  <2> QED
    BY <1>1, <1>3, <2>1
<1>5. CASE RecoverDispatch(w)
  <2>1. /\ \/ Become(w, [d EXCEPT !.pc = "requeue"])
           \/ Become(w, [d EXCEPT !.pc = "mark"])
           \/ Become(w, Retry(d))
        /\ UNCHANGED <<audit, sent, faults>>
    BY <1>5 DEF RecoverDispatch
  <2>2. Retry(d) \in Delivery /\ MemorySound(Retry(d))
    BY <1>1, RetryType, RetryMemory
  <2> QED
    BY <1>1, <1>4, <2>1, <2>2, LocalAccounted
<1>6. CASE RequeueRefused(w)
  <2>1. Become(w, [d EXCEPT !.pc = "undispatched"]) /\ UNCHANGED <<audit, sent>>
        /\ faults'.db = faults.db
    BY <1>1, <1>6 DEF RequeueRefused
  <2> QED
    BY <1>1, <1>4, <2>1, LocalAccounted
<1>7. ASSUME NEW e \in Delivery, Become(w, e), MemorySound(e), ~ Entitled(e),
             audit' = audit, sent' = [sent EXCEPT ![n] = @ + 1], faults'.db = faults.db
      PROVE  SendStep(w)
  BY <1>1, <1>2, <1>7 DEF SendStep, Accounted
<1>8. CASE RequeueSent(w)
  <2>1. /\ Become(w, [d EXCEPT !.pc = "mark", !.resent = d.resent + 1])
        /\ audit' = audit /\ sent' = [sent EXCEPT ![n] = @ + 1] /\ faults' = faults
    BY <1>1, <1>8 DEF RequeueSent, Delivery
  <2>2. d.resent + 1 \in Nat
    BY <1>1
  <2> QED
    BY <1>3, <1>7, <2>1, <2>2
<1>9. CASE RequeueUnconfirmed(w)
  <2>1. /\ Become(w, [d EXCEPT !.pc = "undispatched"])
        /\ audit' = audit /\ sent' = [sent EXCEPT ![n] = @ + 1]
        /\ faults'.db = faults.db
    BY <1>1, <1>9 DEF RequeueUnconfirmed
  <2> QED
    BY <1>4, <1>7, <2>1
<1> QED
  BY <1>5, <1>6, <1>8, <1>9

\* _record_initial_error_status: a claim and the entitlement to its send come together.
LEMMA RecordErrorStatusAccounted ==
    ASSUME AuditInv, NEW w \in Worker, MemorySound(worker[w]), NEW outcome \in Outcome,
           RecordErrorStatus(w, outcome)
    PROVE  SendStep(w)
<1> DEFINE d      == worker[w]
           dec    == d.decision
           t      == UpdateTaskStatus(d.loaded, dec.status, dec.reason)
           newRow == Flush(row, d.loaded, t)
           newAudit == AuditDecision(audit, dec)
           memory   == Remember(d, t)
           counted == IF dec.status = "RETRYING" /\ outcome # "rolled_back"
                      THEN d.counted + 1 ELSE d.counted
           e  == [d EXCEPT !.attempt = memory, !.counted = counted]
           ok == IF dec.allowed
                 THEN [e EXCEPT !.pc = "requeue", !.loaded = newRow]
                 ELSE FinishUndispatched(e, dec)
<1>1. /\ d \in Delivery /\ gate \in Gate /\ audit \in Seq(Attempt) /\ row \in Row
      /\ d.loaded \in Row /\ d.attempt \in OnErrorAttempt /\ d.counted \in Nat
      /\ dec \in Decision /\ dec.status \in Status /\ dec.reason \in Reason
      /\ CountRemembered(d.attempt) /\ AttemptSound(d.attempt, gate)
  BY InvFacts DEF Delivery, Decision, MemorySound, CountRemembered
<1>2. dec = ResolveRetryDecision(d.loaded, d.attempt, gate) /\ ~ dec.recorded
  BY InvFacts DEF RecordErrorStatus, At, DeliverySound, DecisionFresh
<1>3. /\ dec.number = d.loaded.retries + 1
      /\ dec.should <=> d.loaded.exists /\ d.loaded.retries < MaxRetries
      /\ dec.allowed <=> dec.should /\ gate = "open"
      /\ dec.shadowed <=> dec.should /\ gate = "shadow"
      /\ dec.status = IF dec.allowed \/ dec.shadowed THEN "RETRYING" ELSE "FAILED"
  <2>1. LET r == ResolveRetryDecision(d.loaded, d.attempt, gate)
        IN  /\ r.number = d.loaded.retries + 1
            /\ r.should <=> d.loaded.exists /\ d.loaded.retries < MaxRetries
            /\ r.allowed <=> r.should /\ gate = "open"
            /\ r.shadowed <=> r.should /\ gate = "shadow"
            /\ ~ r.recorded =>
                 r.status = IF r.allowed \/ r.shadowed THEN "RETRYING" ELSE "FAILED"
    BY <1>1, ResolveRetryDecisionType
  <2> QED
    BY <1>2, <2>1
<1>4. Commit(w, outcome, newRow, newAudit, ok, e)
  BY <1>1 DEF RecordErrorStatus, Delivery
<1> HIDE DEF d, dec
<1>5. /\ t \in Row
      /\ t.retries = IF d.loaded.exists /\ dec.status = "RETRYING"
                     THEN d.loaded.retries + 1 ELSE d.loaded.retries
  BY <1>1, <1>3, UpdateTaskStatusType
<1> HIDE DEF t
<1>6. newRow \in Row
  BY <1>1, <1>5, FlushType
<1> HIDE DEF newRow
<1>7. /\ d.loaded.retries \in 0 .. MaxRetries /\ t.retries \in 0 .. MaxRetries
      /\ dec.should => dec.number \in Number
  BY <1>1, <1>3, <1>5, MaxRetriesAssumption DEF Row, Number
<1>8. memory \in OnErrorAttempt /\ CountRemembered(memory)
  <2>1. /\ memory.retries = (IF d.loaded.exists THEN t.retries ELSE -1)
        /\ memory.number = (IF dec.allowed THEN dec.number ELSE d.attempt.number)
        /\ memory.status = dec.status /\ memory.reason = dec.reason
    BY DEF Remember, dec
  <2>2. /\ memory.retries \in -1 .. MaxRetries
        /\ memory.number \in 0 .. MaxRetries
    BY <1>1, <1>3, <1>7, <2>1, MaxRetriesAssumption DEF OnErrorAttempt, Number
  <2>3. memory \in OnErrorAttempt
    BY <1>1, <2>1, <2>2 DEF OnErrorAttempt, Remember, dec
  <2> HIDE DEF memory
  <2>4. CASE dec.allowed
    <3>1. memory.retries = memory.number
      BY <1>3, <1>5, <2>1, <2>4
    <3> QED
      BY <2>3, <3>1 DEF CountRemembered
  <2>5. CASE ~ dec.allowed
    <3> SUFFICES ASSUME memory.number # 0, d.loaded.exists
                 PROVE  memory.retries = MaxRetries
      BY <2>1, <2>3 DEF CountRemembered
    <3>1. gate = "open"
      BY <1>1, <2>1, <2>5 DEF AttemptSound
    <3>2. ~ dec.should /\ ~ dec.shadowed
      BY <1>3, <2>5, <3>1
    <3>3. d.loaded.retries = MaxRetries
      BY <1>3, <1>7, <3>2, MaxRetriesAssumption
    <3> QED
      BY <1>3, <1>5, <2>1, <2>5, <3>2, <3>3
  <2> QED
    BY <2>3, <2>4, <2>5
<1>9. counted \in Nat
  BY <1>1
<1>10. /\ e \in Delivery /\ e.attempt = memory /\ e.decision = dec /\ e.tries = d.tries
  <2> HIDE DEF memory, counted
  <2> QED
    BY <1>1, <1>8, <1>9 DEF Delivery, dec
<1>11. CASE dec.allowed
  <2> DEFINE f == [e EXCEPT !.pc = "requeue", !.loaded = newRow]
  <2>1. memory.number = dec.number /\ dec.number # 0
    BY <1>3, <1>7, <1>11 DEF Remember, dec, Number
  <2> HIDE DEF memory, counted, e
  <2>2. /\ f \in Delivery /\ f.pc = "requeue" /\ f.decision = dec /\ f.attempt = memory
    BY <1>6, <1>10 DEF Delivery, PC
  <2> HIDE DEF f
  <2>3. ClaimNumber(f) = dec.number
    BY <2>1, <2>2 DEF ClaimNumber
  <2>4. MemorySound(f)
    BY <1>8, <2>2, <2>3 DEF MemorySound, CountRemembered
  <2>5. OneMoreClaim(audit, newAudit)
    <3>1. newAudit = RecordTaskAttempt(ReconcilePending(audit), dec.number, "PENDING")
      BY <1>11 DEF AuditDecision
    <3> QED
      BY <1>1, <1>3, <1>7, <1>11, <3>1, RecordPendingOneMore
  <2>6. ok = f
    BY <1>11 DEF f
  <2> HIDE DEF newAudit, ok
  <2> QED
    BY <1>4, <1>8, <1>10, <2>2, <2>4, <2>5, <2>6, CommitAccounted
<1>12. CASE ~ dec.allowed
  <2> HIDE DEF memory, counted, e
  <2>1. ok \in Delivery /\ ok.pc = "emit" /\ ok.attempt = memory
    BY <1>1, <1>10, <1>12, FinishUndispatchedType
  <2> HIDE DEF ok
  <2>2. MemorySound(ok) /\ ~ Entitled(ok)
    BY <1>8, <2>1, RestingMemory DEF Dispatching
  <2>3. AllClaimed(newAudit) = AllClaimed(audit)
    <3>1. CASE dec.should
      <4> DEFINE result == IF dec.shadowed THEN "SHADOWED" ELSE "BLOCKED"
      <4>1. result \in DispatchResult /\ result \notin {"PENDING", "DISPATCHED"}
        BY DEF DispatchResult
      <4> HIDE DEF result
      <4>2. newAudit = RecordTaskAttempt(audit, dec.number, result)
        BY <1>12, <3>1 DEF result, AuditDecision
      <4>3. AllClaimed(RecordTaskAttempt(audit, dec.number, result))
               = AllClaimed(audit) \cup {}
        BY <1>1, <1>7, <3>1, <4>1, RecordAllClaimed
      <4> HIDE DEF newAudit
      <4> QED
        BY <4>2, <4>3
    <3>2. CASE ~ dec.should
      BY <1>12, <3>2 DEF AuditDecision
    <3> QED
      BY <3>1, <3>2
  <2> HIDE DEF newAudit
  <2> QED
    BY <1>4, <1>8, <1>10, <2>1, <2>2, <2>3, CommitAccounted
<1> QED
  BY <1>11, <1>12

\* The end of a dispatch claims nothing, and remembers the numbers it had.
LEMMA DispatchEndAccounted ==
    ASSUME AuditInv, NEW w \in Worker, MemorySound(worker[w]), NEW outcome \in Outcome,
           MarkDispatched(w, outcome) \/ RetryDispatchFailed(w, outcome)
    PROVE  SendStep(w)
<1> DEFINE d == worker[w]
<1>1. /\ d \in Delivery /\ DeliverySound(d, audit, gate) /\ Dispatching(d)
      /\ d.decision \in Decision /\ d.decision.status \in Status
      /\ d.attempt \in OnErrorAttempt /\ CountRemembered(d.attempt)
      /\ audit \in Seq(Attempt)
  BY InvFacts DEF MarkDispatched, RetryDispatchFailed, Dispatching, Delivery, Decision,
                  MemorySound, CountRemembered
<1>2. CASE MarkDispatched(w, outcome)
  <2> DEFINE n  == ClaimNumber(d)
             e  == [d EXCEPT !.noResult = TRUE]
             ok == Finish(e, d.decision.status)
  <2>1. ClaimedRows(audit, n) # {}
    BY <1>1 DEF DeliverySound, ClaimKnown
  <2>2. Commit(w, outcome, row, MarkTaskAttemptDispatched(audit, n), ok, d)
    BY <1>2, <2>1 DEF MarkDispatched
  <2>3. e \in Delivery /\ e.attempt = d.attempt
    BY <1>1 DEF Delivery
  <2> HIDE DEF e
  <2>4. ok \in Delivery /\ ok.pc = "emit" /\ ok.attempt = d.attempt
    BY <1>1, <2>3, FinishType
  <2> HIDE DEF ok
  <2>5. MemorySound(ok) /\ ~ Entitled(ok)
    BY <1>1, <2>4, RestingMemory DEF Dispatching
  <2>6. AllClaimed(MarkTaskAttemptDispatched(audit, n)) = AllClaimed(audit)
    BY <1>1, MarkKeepsAllClaimed
  <2> QED
    BY <1>1, <2>2, <2>4, <2>5, <2>6, CommitAccounted
<1>3. CASE RetryDispatchFailed(w, outcome)
  <2> DEFINE newRow   == Flush(row, d.loaded,
                               UpdateTaskStatus(d.loaded, "FAILED", "dispatch_error"))
             newAudit == RecordTaskAttempt(audit, d.decision.number, "DISPATCH_FAILED")
             memory   == [d.attempt EXCEPT !.status = "FAILED", !.reason = "dispatch_error"]
             e        == [d EXCEPT !.attempt = memory]
             ok       == Finish(e, "FAILED")
  <2>1. Commit(w, outcome, newRow, newAudit, ok, e)
    BY <1>1, <1>3 DEF RetryDispatchFailed, Delivery
  <2> HIDE DEF newRow
  <2>2. "FAILED" \in Status /\ "dispatch_error" \in Reason
        /\ "DISPATCH_FAILED" \in DispatchResult \ {"PENDING", "DISPATCHED"}
    BY DEF Status, Reason, DispatchResult
  <2>3. AllClaimed(newAudit) = AllClaimed(audit)
    BY <1>1, <2>2, RecordAllClaimed DEF DeliverySound, DispatchAllowed
  <2> HIDE DEF newAudit
  <2>4. memory \in OnErrorAttempt /\ CountRemembered(memory)
    BY <1>1, <2>2 DEF OnErrorAttempt, CountRemembered
  <2> HIDE DEF memory
  <2>5. e \in Delivery /\ e.attempt = memory
    BY <1>1, <2>4 DEF Delivery
  <2> HIDE DEF e
  <2>6. ok \in Delivery /\ ok.pc = "emit" /\ ok.attempt = memory
    BY <2>2, <2>5, FinishType
  <2> HIDE DEF ok
  <2>7. MemorySound(ok) /\ ~ Entitled(ok)
    BY <2>4, <2>6, RestingMemory DEF Dispatching
  <2> QED
    BY <2>1, <2>3, <2>4, <2>5, <2>6, <2>7, CommitAccounted
<1> QED
  BY <1>2, <1>3

\* Every action of Next is accounted for.
LEMMA NextAccounted ==
    ASSUME AuditInv, \A w \in Worker : MemorySound(worker[w]), Next
    PROVE  \E w \in Worker : SendStep(w)
<1>1. PICK w \in Worker : Receive(w) \/ Step(w) \/ Crash(w) \/ ChannelLost(w)
  BY DEF Next
<1>2. MemorySound(worker[w])
  OBVIOUS
<1>3. CASE Receive(w) \/ RunTask(w) \/ SaveAndAck(w) \/ Crash(w)
           \/ ChannelLost(w) \/ GiveBack(w)
  BY <1>2, <1>3, ReceiverAccounted
<1>4. CASE LoadFails(w) \/ UnretriedError(w) \/ Load(w) \/ PostExecuteSkips(w) \/ Emit(w)
  <2>1. "committed" \in Outcome
    BY DEF Outcome
  <2> QED
    BY <1>2, <1>4, <2>1, HooksAccounted
<1>5. CASE OnErrorLoad(w)
  BY <1>2, <1>5, OnErrorLoadAccounted
<1>6. CASE RecoverDispatch(w) \/ RequeueSent(w) \/ RequeueRefused(w) \/ RequeueUnconfirmed(w)
  BY <1>2, <1>6, DispatchAccounted
<1>7. CASE \E outcome \in Outcome :
              \/ PreExecute(w, outcome)
              \/ RecordErrorStatus(w, outcome)
              \/ MarkDispatched(w, outcome)
              \/ RetryDispatchFailed(w, outcome)
              \/ PostExecute(w, outcome)
  BY <1>2, <1>7, HooksAccounted, RecordErrorStatusAccounted, DispatchEndAccounted
<1> QED
  BY <1>1, <1>3, <1>4, <1>5, <1>6, <1>7 DEF Step, Work

(***************************************************************************)
(* Sends: each has its claim or its failure                                *)
(***************************************************************************)

\* One send more is one element more of SendsMade.
LEMMA OneSendMore ==
    ASSUME sent \in [Number -> Nat], NEW n \in Number, sent' = [sent EXCEPT ![n] = @ + 1],
           IsFiniteSet(SendsMade)
    PROVE  /\ IsFiniteSet(SendsMade')
           /\ TotalSent' = TotalSent + 1
<1> DEFINE s == <<n, sent[n] + 1>>
<1>1. /\ sent' \in [Number -> Nat] /\ sent'[n] = sent[n] + 1
      /\ \A m \in Number \ {n} : sent'[m] = sent[m]
  OBVIOUS
<1>2. \A x : x \in SendsMade <=>
               \E m \in Number, k \in Nat : x = <<m, k>> /\ 1 <= k /\ k <= sent[m]
  BY DEF SendsMade
<1>3. \A x : x \in SendsMade' <=>
               \E m \in Number, k \in Nat : x = <<m, k>> /\ 1 <= k /\ k <= sent'[m]
  BY <1>1 DEF SendsMade
<1>4. s \notin SendsMade
  BY <1>2
<1>5. SendsMade' = SendsMade \cup {s}
  <2>1. ASSUME NEW m \in Number, NEW k \in Nat
        PROVE  1 <= k /\ k <= sent'[m] <=>
                  (1 <= k /\ k <= sent[m]) \/ (m = n /\ k = sent[n] + 1)
    BY <1>1
  <2>2. sent[n] + 1 \in Nat
    OBVIOUS
  <2>3. ASSUME NEW x PROVE x \in SendsMade' <=> x \in SendsMade \/ x = s
    BY <1>2, <1>3, <2>1, <2>2
  <2> QED
    BY <2>3
<1> QED
  BY <1>4, <1>5, FS_AddElement DEF TotalSent

\* A step changes the entitlement of the delivery that takes it only.
LEMMA SendersStep ==
    ASSUME worker \in [Worker -> Delivery], NEW w \in Worker, NEW e, Become(w, e),
           IsFiniteSet(Senders)
    PROVE  /\ IsFiniteSet(Senders')
           /\ Cardinality(Senders) \in Nat
           /\ Cardinality(Senders') =
                 Cardinality(Senders)
                    + (IF Entitled(e) THEN 1 ELSE 0)
                    - (IF Entitled(worker[w]) THEN 1 ELSE 0)
<1>1. Senders' = IF Entitled(e) THEN Senders \cup {w} ELSE Senders \ {w}
  <2>1. ASSUME NEW v \in Worker
        PROVE  worker'[v] = IF v = w THEN e ELSE worker[v]
    BY DEF Become
  <2> QED
    BY <2>1 DEF Senders
<1>2. w \in Senders <=> Entitled(worker[w])
  BY DEF Senders
<1>3. Cardinality(Senders) \in Nat
  BY FS_CardinalityType
<1>4. CASE Entitled(e)
  BY <1>1, <1>2, <1>3, <1>4, FS_AddElement
<1>5. CASE ~ Entitled(e)
  BY <1>1, <1>2, <1>3, <1>5, FS_RemoveElement
<1> QED
  BY <1>4, <1>5

\* A step that is accounted for keeps the accounts.
LEMMA AccountsKept ==
    ASSUME AuditInv, AuditInv', SendsAccounted, NEW w \in Worker, NEW e \in Delivery,
           Become(w, e), Accounted(w, e)
    PROVE  SendsAccounted'
<1> DEFINE a  == Cardinality(AllClaimed(audit))
           b  == Cardinality(Senders)
           c  == TotalSent
<1>1. /\ worker \in [Worker -> Delivery] /\ sent \in [Number -> Nat]
      /\ audit \in Seq(Attempt) /\ audit' \in Seq(Attempt)
      /\ faults.db \in Nat
  BY DEF AuditInv, TypeOK, FaultCounts
<1>2. /\ IsFiniteSet(Senders) /\ IsFiniteSet(SendsMade)
      /\ c + b <= a + faults.db
  BY DEF SendsAccounted
<1>3. a \in Nat /\ b \in Nat /\ c \in Nat
  BY <1>1, <1>2, AllClaimedFinite, FS_CardinalityType DEF TotalSent
<1>4. /\ IsFiniteSet(Senders')
      /\ b' = b + (IF Entitled(e) THEN 1 ELSE 0) - (IF Entitled(worker[w]) THEN 1 ELSE 0)
  BY <1>1, <1>2, SendersStep
<1>5. sent' = sent => SendsMade' = SendsMade /\ c' = c
  BY DEF SendsMade, TotalSent
<1>6. OneMoreClaim(audit, audit') => a' = a + 1
  BY <1>1, AllClaimedFinite, FS_AddElement DEF OneMoreClaim
<1>7. AllClaimed(audit') = AllClaimed(audit) => a' = a
  OBVIOUS
<1>8. ASSUME NEW n \in Number, sent' = [sent EXCEPT ![n] = @ + 1]
      PROVE  IsFiniteSet(SendsMade') /\ c' = c + 1
  BY <1>1, <1>2, <1>8, OneSendMore
<1> HIDE DEF a, b, c
<1>9. /\ IsFiniteSet(SendsMade')
      /\ c' + b' <= a' + faults'.db
  <2>1. CASE /\ sent' = sent /\ AllClaimed(audit') = AllClaimed(audit)
             /\ faults'.db \in {faults.db, faults.db + 1}
             /\ Entitled(e) => Entitled(worker[w]) \/ faults'.db = faults.db + 1
    <3>1. IsFiniteSet(SendsMade') /\ c' = c /\ a' = a
      BY <1>2, <1>5, <1>7, <2>1
    <3>2. \/ faults'.db = faults.db + 1
          \/ faults'.db = faults.db /\ (Entitled(e) => Entitled(worker[w]))
      BY <1>1, <2>1
    <3>3. \/ b' <= b + 1 /\ faults'.db = faults.db + 1
          \/ b' <= b /\ faults'.db = faults.db
      BY <1>3, <1>4, <3>2
    <3>4. b' \in Nat
      BY <1>4, FS_CardinalityType DEF b
    <3>5. c + b' <= a + faults'.db
      <4> DEFINE f == faults.db
                 g == faults'.db
                 n == b'
      <4>1. /\ f \in Nat /\ g \in Nat /\ n \in Nat /\ a \in Nat /\ b \in Nat /\ c \in Nat
            /\ c + b <= a + f
            /\ (n <= b + 1 /\ g = f + 1) \/ (n <= b /\ g = f)
        BY <1>1, <1>2, <1>3, <3>3, <3>4
      <4> HIDE DEF f, g, n
      <4>2. c + n <= a + g
        BY <4>1
      <4> QED
        BY <4>2 DEF f, g, n
    <3> QED
      BY <3>1, <3>5
  <2>2. CASE /\ sent' = sent /\ OneMoreClaim(audit, audit')
             /\ faults'.db \in {faults.db, faults.db + 1}
    <3>1. IsFiniteSet(SendsMade') /\ c' = c /\ a' = a + 1
      BY <1>2, <1>5, <1>6, <2>2
    <3>2. b' <= b + 1
      BY <1>3, <1>4
    <3>3. b' \in Nat
      BY <1>4, FS_CardinalityType DEF b
    <3>4. c + b' <= (a + 1) + faults'.db
      <4> DEFINE f == faults.db
                 g == faults'.db
                 n == b'
      <4>1. /\ f \in Nat /\ g \in Nat /\ n \in Nat /\ a \in Nat /\ b \in Nat /\ c \in Nat
            /\ c + b <= a + f
            /\ n <= b + 1 /\ g \in {f, f + 1}
        BY <1>1, <1>2, <1>3, <2>2, <3>2, <3>3
      <4> HIDE DEF f, g, n
      <4>2. c + n <= (a + 1) + g
        BY <4>1
      <4> QED
        BY <4>2 DEF f, g, n
    <3> QED
      BY <3>1, <3>4
  <2>3. CASE /\ \E n \in Number : sent' = [sent EXCEPT ![n] = @ + 1]
             /\ AllClaimed(audit') = AllClaimed(audit) /\ faults'.db = faults.db
             /\ Entitled(worker[w]) /\ ~ Entitled(e)
    <3>1. IsFiniteSet(SendsMade') /\ c' = c + 1
      BY <1>8, <2>3
    <3>2. b' = b - 1
      BY <1>3, <1>4, <2>3
    <3> QED
      BY <1>1, <1>2, <1>3, <1>7, <2>3, <3>1, <3>2
  <2> QED
    BY <2>1, <2>2, <2>3 DEF Accounted
<1> QED
  BY <1>4, <1>9 DEF SendsAccounted, a, b, c

(***************************************************************************)
(* Failed sends are numbered after a claim                                 *)
(***************************************************************************)

\* A DISPATCH_FAILED row is added only after a claimed row of its number or the one before.
FailedAfterClaim ==
    \A i \in DOMAIN audit' \ DOMAIN audit :
        audit'[i].result = "DISPATCH_FAILED" =>
            \E j \in DOMAIN audit :
                /\ Claimed(audit[j])
                /\ audit'[i].number \in {audit[j].number, audit[j].number + 1}

\* Marking and reconciling add no row.
LEMMA MarkAddsNoRow ==
    ASSUME NEW log \in Seq(Attempt), NEW n
    PROVE  /\ DOMAIN MarkTaskAttemptDispatched(log, n) = DOMAIN log
           /\ DOMAIN ReconcilePending(log) = DOMAIN log
BY DEF MarkTaskAttemptDispatched, ReconcilePending

\* _retry_dispatch_failed adds its row under the number of the decision.
LEMMA RetryDispatchFailedAfterClaim ==
    ASSUME AuditInv, NEW w \in Worker, MemorySound(worker[w]), NEW outcome \in Outcome,
           RetryDispatchFailed(w, outcome)
    PROVE  FailedAfterClaim
<1> DEFINE d   == worker[w]
           n   == d.decision.number
           new == RecordTaskAttempt(audit, n, "DISPATCH_FAILED")
<1>1. /\ d \in Delivery /\ audit \in Seq(Attempt) /\ n \in Number
      /\ ClaimedRows(audit, ClaimNumber(d)) # {}
      /\ n \in {ClaimNumber(d), ClaimNumber(d) + 1}
  BY InvFacts DEF RetryDispatchFailed, DeliverySound, DispatchAllowed, ClaimKnown,
                  Dispatching, MemorySound
<1>2. audit' = audit \/ audit' = new
  BY CommitLedger DEF RetryDispatchFailed
<1>3. PICK j \in DOMAIN audit : audit[j].number = ClaimNumber(d) /\ Claimed(audit[j])
  BY <1>1 DEF ClaimedRows
<1>4. /\ DOMAIN new = DOMAIN audit \cup {Len(audit) + 1}
      /\ new[Len(audit) + 1].number = n
  BY <1>1 DEF RecordTaskAttempt
<1> HIDE DEF n, new
<1> QED
  BY <1>1, <1>2, <1>3, <1>4 DEF FailedAfterClaim

\* Recording a decision adds at most one row, of another result.
LEMMA RecordErrorStatusNotFailed ==
    ASSUME AuditInv, NEW w \in Worker, NEW outcome \in Outcome,
           RecordErrorStatus(w, outcome)
    PROVE  FailedAfterClaim
<1> DEFINE dec == worker[w].decision
<1>1. audit \in Seq(Attempt)
  BY InvFacts
<1>2. audit' = audit \/ audit' = AuditDecision(audit, dec)
  BY CommitLedger DEF RecordErrorStatus
<1>3. ASSUME NEW log \in Seq(Attempt), DOMAIN log = DOMAIN audit,
             NEW result \in {"PENDING", "SHADOWED", "BLOCKED"},
             audit' = RecordTaskAttempt(log, dec.number, result)
      PROVE  FailedAfterClaim
  <2>1. \A i \in DOMAIN audit' \ DOMAIN audit : audit'[i].result = result
    BY <1>3 DEF RecordTaskAttempt
  <2> QED
    BY <2>1 DEF FailedAfterClaim
<1>4. ReconcilePending(audit) \in Seq(Attempt) /\ DOMAIN ReconcilePending(audit) = DOMAIN audit
  BY <1>1, ReconcilePendingKeeps, MarkAddsNoRow
<1>5. CASE audit' = audit
  BY <1>5 DEF FailedAfterClaim
<1>6. CASE audit' # audit
  <2>1. \/ audit' = RecordTaskAttempt(ReconcilePending(audit), dec.number, "PENDING")
        \/ audit' = RecordTaskAttempt(audit, dec.number, "SHADOWED")
        \/ audit' = RecordTaskAttempt(audit, dec.number, "BLOCKED")
    BY <1>2, <1>6 DEF AuditDecision
  <2> HIDE DEF dec
  <2> QED
    BY <1>1, <1>3, <1>4, <2>1
<1> QED
  BY <1>5, <1>6

\* No other action adds a row.
LEMMA NextFailedAfterClaim ==
    ASSUME AuditInv, \A w \in Worker : MemorySound(worker[w]), [Next]_vars
    PROVE  FailedAfterClaim
<1>1. CASE DOMAIN audit' = DOMAIN audit
  BY <1>1 DEF FailedAfterClaim
<1>2. CASE Next /\ DOMAIN audit' # DOMAIN audit
  <2>1. PICK w \in Worker : Receive(w) \/ Step(w) \/ Crash(w) \/ ChannelLost(w)
    BY <1>2 DEF Next
  <2>2. ~ (Receive(w) \/ RunTask(w) \/ SaveAndAck(w) \/ Crash(w)
           \/ ChannelLost(w) \/ GiveBack(w) \/ LoadFails(w)
           \/ UnretriedError(w) \/ Load(w)
           \/ PostExecuteSkips(w) \/ Emit(w) \/ OnErrorLoad(w) \/ RecoverDispatch(w)
           \/ RequeueSent(w) \/ RequeueRefused(w) \/ RequeueUnconfirmed(w))
    BY <1>2 DEF Receive, RunTask, SaveAndAck, Crash, ChannelLost, GiveBack, LoadFails,
                UnretriedError, Load, PostExecuteSkips, Emit, OnErrorLoad,
                RecoverDispatch, RequeueSent, RequeueRefused, RequeueUnconfirmed
  <2>3. ASSUME NEW outcome \in Outcome
        PROVE  ~ (PreExecute(w, outcome) \/ PostExecute(w, outcome)
                  \/ MarkDispatched(w, outcome))
    <3>1. audit \in Seq(Attempt)
      BY InvFacts
    <3>2. ~ (PreExecute(w, outcome) \/ PostExecute(w, outcome))
      BY <1>2, CommitLedger DEF PreExecute, PostExecute, SetStatus
    <3>3. MarkDispatched(w, outcome) =>
             \/ audit' = audit
             \/ audit' = MarkTaskAttemptDispatched(audit, ClaimNumber(worker[w]))
      BY CommitLedger DEF MarkDispatched
    <3> QED
      BY <1>2, <3>1, <3>2, <3>3, MarkAddsNoRow
  <2> QED
    BY <2>1, <2>2, <2>3, RetryDispatchFailedAfterClaim, RecordErrorStatusNotFailed
       DEF Step, Work
<1> QED
  BY <1>1, <1>2 DEF vars

\* A row that was there keeps its claim; one that is added comes after its claim.
LEMMA FailedKept ==
    ASSUME audit \in Seq(Attempt), audit' \in Seq(Attempt), OnlyGrows(audit, audit'),
           FailedSendNumbered, FailedAfterClaim
    PROVE  FailedSendNumbered'
<1> SUFFICES ASSUME NEW i \in DOMAIN audit', audit'[i].result = "DISPATCH_FAILED"
             PROVE  \E j \in 1 .. i - 1 :
                       /\ Claimed(audit'[j])
                       /\ audit'[i].number \in {audit'[j].number, audit'[j].number + 1}
  BY DEF FailedSendNumbered
<1>1. ASSUME NEW j \in DOMAIN audit, Claimed(audit[j])
      PROVE  Claimed(audit'[j]) /\ audit'[j].number = audit[j].number
  BY <1>1, OnlyGrowsKeepsRows
<1>2. CASE i \in DOMAIN audit
  <2>1. audit[i] \in Attempt
    BY <1>2
  <2>2. audit'[i] = audit[i]
    BY <1>2, <2>1 DEF OnlyGrows, Attempt
  <2>3. PICK j \in 1 .. i - 1 :
          /\ Claimed(audit[j])
          /\ audit[i].number \in {audit[j].number, audit[j].number + 1}
    BY <1>2, <2>2 DEF FailedSendNumbered
  <2>4. j \in DOMAIN audit
    BY <1>2
  <2> QED
    BY <1>1, <2>2, <2>3, <2>4
<1>3. CASE i \notin DOMAIN audit
  <2>1. PICK j \in DOMAIN audit :
          /\ Claimed(audit[j])
          /\ audit'[i].number \in {audit[j].number, audit[j].number + 1}
    BY <1>3 DEF FailedAfterClaim
  <2>2. j \in 1 .. i - 1
    BY <1>3
  <2> QED
    BY <1>1, <2>1, <2>2
<1> QED
  BY <1>2, <1>3

(***************************************************************************)
(* The invariant and its consequences                                      *)
(***************************************************************************)

\* Nothing is sent, claimed or remembered at the start.
LEMMA InitSend == Init => SendInv
<1> SUFFICES ASSUME Init PROVE SendInv
  OBVIOUS
<1>1. AuditInv
  BY InitAudit
<1>2. \A w \in Worker : worker[w] = Idle
  BY DEF Init, Fresh
<1>3. \A w \in Worker : MemorySound(worker[w])
  BY <1>2, IdleMemory
<1>4. audit = << >> /\ faults.db = 0 /\ \A n \in Number : sent[n] = 0
  BY DEF Init, Fresh
<1>5. FailedSendNumbered
  BY <1>4 DEF FailedSendNumbered
<1>6. Senders = {} /\ SendsMade = {} /\ AllClaimed(audit) = {}
  BY <1>2, <1>4, IdleMemory DEF Senders, SendsMade, AllClaimed
<1>7. SendsAccounted
  BY <1>4, <1>6, FS_EmptySet DEF SendsAccounted, TotalSent
<1> QED
  BY <1>1, <1>3, <1>5, <1>7 DEF SendInv

\* Every step keeps it.
LEMMA NextKeepsSend == SendInv /\ [Next]_vars => SendInv'
<1> SUFFICES ASSUME SendInv, [Next]_vars PROVE SendInv'
  OBVIOUS
<1>1. /\ AuditInv /\ SendsAccounted /\ FailedSendNumbered
      /\ \A w \in Worker : MemorySound(worker[w])
  BY DEF SendInv
<1>2. AuditInv' /\ OnlyGrows(audit, audit')
  BY <1>1, NextKeepsAudit DEF SoundStep
<1>3. FailedSendNumbered'
  <2>1. audit \in Seq(Attempt) /\ audit' \in Seq(Attempt)
    BY <1>1, <1>2 DEF AuditInv, TypeOK
  <2> QED
    BY <1>1, <1>2, <2>1, NextFailedAfterClaim, FailedKept
<1>4. CASE UNCHANGED vars
  <2>1. (\A w \in Worker : MemorySound(worker[w]))'
    BY <1>1, <1>4 DEF vars
  <2>2. SendsAccounted'
    BY <1>1, <1>4 DEF vars, SendsAccounted, Senders, SendsMade, TotalSent
  <2> QED
    BY <1>2, <1>3, <2>1, <2>2 DEF SendInv
<1>5. CASE Next
  <2>1. PICK w \in Worker : SendStep(w)
    BY <1>1, <1>5, NextAccounted
  <2>2. PICK e \in Delivery : Become(w, e) /\ MemorySound(e) /\ Accounted(w, e)
    BY <2>1 DEF SendStep
  <2>3. SendsAccounted'
    BY <1>1, <1>2, <2>2, AccountsKept
  <2>4. ASSUME NEW v \in Worker PROVE MemorySound(worker'[v])
    <3>1. worker'[v] = IF v = w THEN e ELSE worker[v]
      BY <1>1, <2>2 DEF Become, AuditInv, TypeOK
    <3> QED
      BY <1>1, <2>2, <3>1
  <2> QED
    BY <1>2, <1>3, <2>3, <2>4 DEF SendInv
<1> QED
  BY <1>4, <1>5

\* The strengthening is an invariant of the specification.
THEOREM SendInvariant == Spec => []SendInv
BY InitSend, NextKeepsSend, PTL DEF Spec

\* Each message of an automatic retry beyond its audit row is paid for by a database
\* failure of its own, whatever interleaves, crashes or is replayed.
THEOREM SendsHaveACause == Spec => []ExtraSendsHaveACause
<1>1. SendInv => ExtraSendsHaveACause
  <2> SUFFICES ASSUME SendInv PROVE ExtraSendsHaveACause
    OBVIOUS
  <2>1. /\ IsFiniteSet(Senders) /\ IsFiniteSet(SendsMade)
        /\ TotalSent + Cardinality(Senders) <= Cardinality(AllClaimed(audit)) + faults.db
        /\ audit \in Seq(Attempt) /\ faults.db \in Nat
    BY DEF SendInv, SendsAccounted, AuditInv, TypeOK, FaultCounts
  <2>2. TotalSent \in Nat /\ Cardinality(Senders) \in Nat
        /\ Cardinality(AllClaimed(audit)) \in Nat
    BY <2>1, FS_CardinalityType, AllClaimedFinite DEF TotalSent
  <2> QED
    BY <2>1, <2>2 DEF ExtraSendsHaveACause
<1> QED
  BY <1>1, SendInvariant, PTL

\* A failed send is never recorded under a number that no claim explains, through every
\* failure and replay of on_error.
THEOREM FailedSendsAreNumbered == Spec => []FailedSendNumbered
<1>1. SendInv => FailedSendNumbered
  BY DEF SendInv
<1> QED
  BY <1>1, SendInvariant, PTL
=============================================================================
