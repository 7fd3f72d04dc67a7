--------------------------- MODULE NominalProofs ---------------------------
(***************************************************************************)
(* What holds while some kinds of failure stay away, for every number of   *)
(* deliveries, every retry limit and every setting of the retry gate.      *)
(* While nothing fails but sends that the broker refuses, one delivery has *)
(* the task at a time: each retry is sent once, the audit tells what was   *)
(* sent, and the row goes through the documented state machine.  While the *)
(* database does not fail, a retry that was sent is kept.                  *)
(* While deliveries do not overlap, a replay recognises what it counted.   *)
(***************************************************************************)
EXTENDS StateTrackingProofs

USE DEF FaultCounts

(***************************************************************************)
(* The inductive invariant behind SentAtMostOnce, DispatchedWasSent,       *)
(* SettledAudit and LifecycleSpec                                          *)
(***************************************************************************)

\* A delivery that did not hand its task on: it alone writes the row.
Leads(d) == d.pc # "idle" /\ d.resent = 0

\* The message and the deliveries that have the task: one in all.
OneLead ==
    /\ queue <= 1
    /\ \A v \in Worker :
          Leads(worker[v]) => queue = 0 /\ \A w \in Worker : Leads(worker[w]) => w = v

\* A delivery that nothing failed for: no replay, no recovery, no raise; one that sent its
\* retry marks it, announces RETRYING and keeps out of post_execute, as does a shadowed one.
Untroubled(d) ==
    /\ d.pc \notin {"lookup", "stuck"}
    /\ d.pc = "load" => d.attempt = NoAttempt
    /\ d.pc = "run" => d.hook = "pre"
    /\ d.hook = "pre" => ~ d.failed
    /\ d.hook = "error" => d.failed
    /\ Dispatching(d) => /\ d.hook = "error"
                         /\ d.attempt.number = d.decision.number
                         /\ d.decision.status = "RETRYING"
    /\ d.pc = "mark" => d.resent > 0
    /\ d.noResult => d.resent > 0 /\ d.failed
    /\ d.resent > 0 /\ d.pc # "mark" =>
          /\ d.noResult
          /\ \/ d.pc = "emit" /\ d.hook = "error" /\ d.event = "RETRYING"
             \/ d.pc \in {"load", "save"} /\ d.hook = "post"
    /\ d.shadow =>
          /\ d.failed
          /\ \/ d.pc = "emit" /\ d.hook = "error"
             \/ d.pc \in {"load", "save"} /\ d.hook = "post"

\* What the delivery that has the task finds in the row.
StatusFor(d) ==
    CASE d.pc \in {"requeue", "undispatched"} -> {"RETRYING"}
      [] d.hook = "pre" -> IF d.pc \in {"load", "write"} THEN {"PENDING", "RETRYING"}
                                                        ELSE {"RUNNING"}
      [] d.hook = "error" /\ d.pc \in {"load", "write"} -> {"RUNNING"}
      [] d.hook = "post" /\ ~ d.failed -> IF d.pc \in {"load", "write"} THEN {"RUNNING"}
                                                                      ELSE {"COMPLETED"}
      [] OTHER -> IF d.shadow THEN {"RETRYING"} ELSE {"FAILED"}

\* Nobody else writes the row t: what this delivery loaded is what is there, and the
\* retry it is about to send is the latest and was not sent.
LeadSound(d, t, sends) ==
    /\ t.exists => t.status \in StatusFor(d)
    /\ d.pc \in {"write", "requeue", "undispatched"} => d.loaded = t
    /\ d.pc \in {"requeue", "undispatched"} =>
          t.exists /\ t.retries = d.decision.number /\ sends[t.retries] = 0

\* The row of this retry is PENDING for a reason: its delivery is at work on it, or its
\* send failed.
PendingExplained(i) ==
    \/ \E w \in Worker :
          /\ Dispatching(worker[w])
          /\ worker[w].decision.number = audit[i].number
    \/ \E j \in DOMAIN audit : /\ j > i
                               /\ audit[j].number = audit[i].number
                               /\ audit[j].result = "DISPATCH_FAILED"

\* Each retry up to the count of the row is claimed by one audit row at most; a failed
\* send is the end of the task.
ClaimsSound ==
    /\ \A i \in AllClaimed(audit) :
          /\ audit[i].number <= row.retries
          /\ \A j \in AllClaimed(audit) : audit[j].number = audit[i].number => j = i
    /\ \A i \in PendingRows(audit) : PendingExplained(i)
    /\ \A i \in DOMAIN audit :
          audit[i].result = "DISPATCH_FAILED" => row.exists /\ row.status = "FAILED"
    /\ \A w \in Worker :
          worker[w].pc = "mark" => sent[worker[w].decision.number] > 0

CalmInv ==
    /\ OneLead
    /\ queue > 0 /\ row.exists => row.status \in {"PENDING", "RETRYING"}
    /\ \A w \in Worker :
          /\ Untroubled(worker[w])
          /\ Leads(worker[w]) => LeadSound(worker[w], row, sent)
    /\ ClaimsSound
    /\ SentAtMostOnce
    /\ DispatchedWasSent

NominalInv == AuditInv /\ (Calm => CalmInv)

(***************************************************************************)
(* Steps that are not failures                                             *)
(***************************************************************************)

\* No failure is undone: what is calm was calm before.
LEMMA CalmBefore ==
    ASSUME AuditInv, [Next]_vars, Calm'
    PROVE  Calm
<1>1. faults \in FaultCounts
  BY DEF AuditInv, TypeOK
<1>2. CASE faults' = faults
  BY <1>2 DEF Calm
<1>3. ASSUME NEW w, NEW outcome, NEW newRow, NEW newAudit, NEW ok, NEW ko,
             Commit(w, outcome, newRow, newAudit, ok, ko)
      PROVE  Calm
  BY <1>1, <1>3 DEF Commit, Calm
<1>4. CASE Next /\ faults' # faults
  <2>1. PICK w \in Worker : Receive(w) \/ Step(w) \/ Crash(w) \/ ChannelLost(w)
    BY <1>4 DEF Next
  <2>2. CASE \/ LoadFails(w) \/ UnretriedError(w) \/ RequeueRefused(w)
             \/ RequeueUnconfirmed(w) \/ Crash(w) \/ ChannelLost(w)
    BY <1>1, <2>2 DEF LoadFails, UnretriedError, RequeueRefused, RequeueUnconfirmed, Crash,
                      ChannelLost, Calm
  <2>3. CASE \E outcome \in Outcome :
                \/ PreExecute(w, outcome)
                \/ RecordErrorStatus(w, outcome)
                \/ MarkDispatched(w, outcome)
                \/ RetryDispatchFailed(w, outcome)
                \/ PostExecute(w, outcome)
    BY <1>3, <1>4, <2>3 DEF PreExecute, RecordErrorStatus, MarkDispatched,
                            RetryDispatchFailed, PostExecute, SetStatus
  <2>4. ~ (Receive(w) \/ Load(w) \/ OnErrorLoad(w) \/ RecoverDispatch(w) \/ RequeueSent(w)
           \/ PostExecuteSkips(w) \/ RunTask(w) \/ SaveAndAck(w) \/ GiveBack(w) \/ Emit(w))
    BY <1>4 DEF Receive, Load, OnErrorLoad, RecoverDispatch, RequeueSent, PostExecuteSkips,
                RunTask, SaveAndAck, GiveBack, Emit
  <2> QED
    BY <2>1, <2>2, <2>3, <2>4 DEF Step, Work
<1> QED
  BY <1>2, <1>4 DEF vars

\* These steps are failures other than a refused send.
LEMMA NoFailure ==
    ASSUME AuditInv, Calm', NEW w
    PROVE  ~ (LoadFails(w) \/ UnretriedError(w) \/ RequeueUnconfirmed(w) \/ Crash(w)
              \/ ChannelLost(w))
<1>1. faults \in FaultCounts
  BY DEF AuditInv, TypeOK
<1> QED
  BY <1>1 DEF LoadFails, UnretriedError, RequeueUnconfirmed, Crash, ChannelLost, Calm

\* And every commit takes effect and is acknowledged.
LEMMA CalmCommit ==
    ASSUME AuditInv, Calm',
           NEW w, NEW outcome, NEW newRow, NEW newAudit, NEW ok, NEW ko,
           Commit(w, outcome, newRow, newAudit, ok, ko)
    PROVE  /\ row' = newRow /\ audit' = newAudit /\ Become(w, ok)
           /\ UNCHANGED <<queue, gate, sent>>
<1>1. faults \in FaultCounts
  BY DEF AuditInv, TypeOK
<1>2. outcome = "committed"
  BY <1>1 DEF Commit, Calm
<1> QED
  BY <1>2 DEF Commit

(***************************************************************************)
(* The fields of a delivery that enters or leaves a hook                   *)
(***************************************************************************)

LEMMA FinishFields ==
    ASSUME NEW d \in Delivery, NEW status \in Status
    PROVE  LET e == Finish(d, status)
           IN  /\ e \in Delivery
               /\ e.pc = "emit" /\ e.event = status /\ e.hook = d.hook
               /\ e.failed = d.failed /\ e.noResult = d.noResult /\ e.shadow = d.shadow
               /\ e.resent = d.resent
<1>1. Finish(d, status) \in Delivery
  BY FinishType
<1> QED
  BY <1>1 DEF Finish, Delivery

LEMMA EnterFields ==
    ASSUME NEW d \in Delivery, NEW hook \in Hook
    PROVE  LET e == Enter(d, hook)
           IN  /\ e \in Delivery
               /\ e.pc = "load" /\ e.hook = hook /\ e.attempt = NoAttempt
               /\ e.failed = d.failed /\ e.noResult = d.noResult /\ e.shadow = d.shadow
               /\ e.resent = d.resent
<1>1. Enter(d, hook) \in Delivery
  BY EnterType
<1> QED
  BY <1>1 DEF Enter, Delivery

\* The emit ends its hook.
LEMMA EmitFields ==
    ASSUME AuditInv, NEW w \in Worker, Emit(w)
    PROVE  LET d == worker[w]
           IN  /\ d.pc = "emit"
               /\ UNCHANGED <<row, audit, queue, gate, sent, faults>>
               /\ \E e \in Delivery :
                     /\ Become(w, e)
                     /\ e.failed = d.failed /\ e.noResult = d.noResult
                     /\ e.shadow = d.shadow /\ e.resent = d.resent
                     /\ d.hook = "pre" => e.pc = "run" /\ e.hook = "pre"
                     /\ d.hook = "error" => /\ e.pc = "load" /\ e.hook = "post"
                                           /\ e.attempt = NoAttempt
                     /\ d.hook = "post" => e.pc = "save" /\ e.hook = "post"
<1> DEFINE d == worker[w]
           f == [d EXCEPT !.event = "PENDING"]
           e == CASE f.hook = "pre"   -> [f EXCEPT !.pc = "run"]
                  [] f.hook = "error" -> Enter(f, "post")
                  [] f.hook = "post"  -> [f EXCEPT !.pc = "save"]
<1>1. d \in Delivery /\ d.hook \in {"pre", "error", "post"}
  BY InvFacts DEF Delivery, Hook
<1>2. /\ Become(w, e) /\ UNCHANGED <<row, audit, queue, gate, sent, faults>>
      /\ d.pc = "emit"
  BY DEF Emit
<1>3. /\ f \in Delivery /\ f.hook = d.hook /\ f.failed = d.failed
      /\ f.noResult = d.noResult /\ f.shadow = d.shadow /\ f.resent = d.resent
  BY <1>1 DEF Delivery, Status
<1> HIDE DEF f
<1>4. /\ e \in Delivery /\ e.failed = d.failed /\ e.noResult = d.noResult
      /\ e.shadow = d.shadow /\ e.resent = d.resent
      /\ d.hook = "pre" => e.pc = "run" /\ e.hook = "pre"
      /\ d.hook = "error" => e.pc = "load" /\ e.hook = "post" /\ e.attempt = NoAttempt
      /\ d.hook = "post" => e.pc = "save" /\ e.hook = "post"
  <2>1. CASE d.hook = "pre"
    <3>1. e = [f EXCEPT !.pc = "run"]
      BY <1>3, <2>1
    <3> QED
      BY <1>3, <2>1, <3>1 DEF Delivery, PC
  <2>2. CASE d.hook = "error"
    <3>1. e = Enter(f, "post") /\ "post" \in Hook
      BY <1>3, <2>2 DEF Hook
    <3> QED
      BY <1>3, <2>2, <3>1, EnterFields
  <2>3. CASE d.hook = "post"
    <3>1. e = [f EXCEPT !.pc = "save"]
      BY <1>3, <2>3
    <3> QED
      BY <1>3, <2>3, <3>1 DEF Delivery, PC
  <2> QED
    BY <1>1, <2>1, <2>2, <2>3
<1> HIDE DEF d, e
<1> QED
  BY <1>2, <1>4 DEF d

\* An on_error that dispatches nothing leaves with the shadow marker, if it is due.
LEMMA FinishUndispatchedFields ==
    ASSUME NEW d \in Delivery, NEW dec \in Decision
    PROVE  LET e == FinishUndispatched(d, dec)
           IN  /\ e \in Delivery
               /\ e.pc = "emit" /\ e.event = dec.status /\ e.hook = d.hook
               /\ e.failed = d.failed /\ e.noResult = d.noResult
               /\ e.shadow <=> d.shadow \/ dec.shadowed
               /\ e.resent = d.resent
<1>1. /\ dec.shadowed \in BOOLEAN /\ d.shadow \in BOOLEAN /\ dec.status \in Status
  BY DEF Delivery, Decision
<1> DEFINE marker == d.shadow \/ dec.shadowed
           f == [d EXCEPT !.shadow = marker]
<1>2. FinishUndispatched(d, dec) = Finish(f, dec.status)
  BY DEF FinishUndispatched, Delivery
<1>3. marker \in BOOLEAN
  BY <1>1
<1> HIDE DEF marker
<1>4. /\ f \in Delivery /\ f.hook = d.hook /\ f.failed = d.failed
      /\ f.noResult = d.noResult /\ f.shadow = marker /\ f.resent = d.resent
  BY <1>3 DEF Delivery
<1> HIDE DEF f
<1> QED
  BY <1>1, <1>2, <1>4, FinishFields DEF marker

(***************************************************************************)
(* What a step has to keep                                                 *)
(***************************************************************************)

\* One delivery moves.  The task stays in one place: a delivery takes it from the queue,
\* or gives it back by sending a retry; only the one that has it writes the row.
LEMMA CalmFrame ==
    ASSUME AuditInv, CalmInv,
           NEW w \in Worker, NEW e \in Delivery, Become(w, e), Untroubled(e),
           queue' \in 0 .. 1,
           Leads(e) => /\ queue' = 0 /\ (Leads(worker[w]) \/ queue > 0)
                       /\ LeadSound(e, row', sent'),
           queue' > queue => Leads(worker[w]) /\ ~ Leads(e),
           (row' = row /\ sent' = sent) \/ Leads(worker[w]),
           queue' > 0 /\ row'.exists => row'.status \in {"PENDING", "RETRYING"},
           ClaimsSound', SentAtMostOnce', DispatchedWasSent'
    PROVE  CalmInv'
<1>1. /\ worker \in [Worker -> Delivery] /\ queue \in Nat
      /\ \A v \in Worker : worker'[v] = IF v = w THEN e ELSE worker[v]
  BY DEF AuditInv, TypeOK, Become
<1>2. /\ queue <= 1
      /\ \A v \in Worker :
            Leads(worker[v]) => queue = 0 /\ \A u \in Worker : Leads(worker[u]) => u = v
  BY DEF CalmInv, OneLead
<1>3. ASSUME NEW v \in Worker, Leads(worker'[v])
      PROVE  queue' = 0 /\ \A u \in Worker : Leads(worker'[u]) => u = v
  <2>1. CASE v = w
    <3>1. Leads(e)
      BY <1>1, <1>3, <2>1
    <3>2. ASSUME NEW u \in Worker, Leads(worker'[u]), u # w
          PROVE  FALSE
      BY <1>1, <1>2, <3>1, <3>2
    <3> QED
      BY <2>1, <3>1, <3>2
  <2>2. CASE v # w
    <3>1. Leads(worker[v]) /\ queue = 0 /\ ~ Leads(worker[w])
      BY <1>1, <1>2, <1>3, <2>2
    <3>2. ~ Leads(e) /\ queue' = 0
      BY <1>1, <3>1
    <3> QED
      BY <1>1, <1>2, <3>1, <3>2
  <2> QED
    BY <2>1, <2>2
<1>4. OneLead'
  BY <1>3 DEF OneLead
<1>5. ASSUME NEW v \in Worker
      PROVE  /\ Untroubled(worker'[v])
             /\ Leads(worker'[v]) => LeadSound(worker'[v], row', sent')
  <2>1. CASE v = w
    BY <1>1, <2>1
  <2>2. CASE v # w
    <3>1. /\ worker'[v] = worker[v] /\ Untroubled(worker[v])
          /\ Leads(worker[v]) => LeadSound(worker[v], row, sent)
      BY <1>1, <2>2 DEF CalmInv
    <3>2. Leads(worker[v]) => ~ Leads(worker[w])
      BY <1>2, <2>2
    <3> QED
      BY <3>1, <3>2
  <2> QED
    BY <2>1, <2>2
<1> QED
  BY <1>4, <1>5 DEF CalmInv

\* The claims stay sound when the audit is left alone, no dispatch is given up, and what
\* is to be marked was sent.
LEMMA ClaimsFrame ==
    ASSUME AuditInv, CalmInv,
           NEW w \in Worker, NEW e \in Delivery, Become(w, e), audit' = audit,
           row'.retries = row.retries, row'.exists = row.exists,
           row.exists /\ row.status = "FAILED" => row'.status = "FAILED",
           \A n \in Number : sent[n] > 0 => sent'[n] > 0,
           Dispatching(worker[w]) =>
              Dispatching(e) /\ e.decision.number = worker[w].decision.number,
           e.pc = "mark" => sent'[e.decision.number] > 0
    PROVE  ClaimsSound' /\ DispatchedWasSent'
<1>1. /\ \A v \in Worker : worker'[v] = IF v = w THEN e ELSE worker[v]
      /\ audit \in Seq(Attempt)
  BY DEF AuditInv, TypeOK, Become
<1>2. ClaimsSound /\ DispatchedWasSent
  BY DEF CalmInv
<1>3. AllClaimed(audit') = AllClaimed(audit) /\ PendingRows(audit') = PendingRows(audit)
  OBVIOUS
<1>4. ASSUME NEW i \in PendingRows(audit')
      PROVE  PendingExplained(i)'
  <2>1. PendingExplained(i)
    BY <1>2, <1>3, <1>4 DEF ClaimsSound
  <2>2. CASE \E j \in DOMAIN audit : /\ j > i
                                      /\ audit[j].number = audit[i].number
                                      /\ audit[j].result = "DISPATCH_FAILED"
    BY <2>2 DEF PendingExplained
  <2>3. ASSUME NEW v \in Worker, Dispatching(worker[v]),
               worker[v].decision.number = audit[i].number
        PROVE  PendingExplained(i)'
    <3>1. Dispatching(worker'[v]) /\ worker'[v].decision.number = audit'[i].number
      BY <1>1, <2>3
    <3> QED
      BY <3>1 DEF PendingExplained, Dispatching
  <2> QED
    BY <2>1, <2>2, <2>3 DEF PendingExplained
<1>5. ASSUME NEW v \in Worker, worker'[v].pc = "mark"
      PROVE  sent'[worker'[v].decision.number] > 0
  <2>1. CASE v = w
    BY <1>1, <1>5, <2>1
  <2>2. CASE v # w
    <3>1. worker'[v] = worker[v] /\ sent[worker[v].decision.number] > 0
      BY <1>1, <1>2, <1>5, <2>2 DEF ClaimsSound
    <3>2. worker[v].decision.number \in Number
      BY <1>5, <3>1, InvFacts DEF DeliverySound, DispatchAllowed, Dispatching
    <3> QED
      BY <3>1, <3>2
  <2> QED
    BY <2>1, <2>2
<1>6. ClaimsSound'
  <2>1. \A i \in AllClaimed(audit') :
           /\ audit'[i].number <= row'.retries
           /\ \A j \in AllClaimed(audit') : audit'[j].number = audit'[i].number => j = i
    BY <1>2, <1>3 DEF ClaimsSound
  <2>2. \A i \in DOMAIN audit' :
           audit'[i].result = "DISPATCH_FAILED" => row'.exists /\ row'.status = "FAILED"
    BY <1>2 DEF ClaimsSound
  <2> QED
    BY <1>4, <1>5, <2>1, <2>2 DEF ClaimsSound
<1>7. DispatchedWasSent'
  <2>1. ASSUME NEW i \in DOMAIN audit
        PROVE  audit[i].number \in Number
    <3>1. audit[i] \in Attempt
      BY <1>1
    <3> QED
      BY <3>1 DEF Attempt
  <2> QED
    BY <1>2, <2>1 DEF DispatchedWasSent
<1> QED
  BY <1>6, <1>7

\* What a calm state says of one delivery.
LEMMA CalmFacts ==
    ASSUME AuditInv, CalmInv, NEW w \in Worker
    PROVE  /\ worker[w] \in Delivery /\ Untroubled(worker[w])
           /\ Leads(worker[w]) => queue = 0 /\ LeadSound(worker[w], row, sent)
           /\ queue \in 0 .. 1 /\ row \in Row /\ audit \in Seq(Attempt) /\ gate \in Gate
           /\ sent \in [Number -> Nat]
           /\ queue > 0 /\ row.exists => row.status \in {"PENDING", "RETRYING"}
           /\ ClaimsSound /\ SentAtMostOnce /\ DispatchedWasSent
BY InvFacts DEF CalmInv, OneLead

\* A step that only one delivery notices.
LEMMA LocalCalm ==
    ASSUME AuditInv, CalmInv,
           NEW w \in Worker, NEW e \in Delivery, Become(w, e),
           UNCHANGED <<row, audit, queue, sent>>,
           Untroubled(e),
           Leads(e) => Leads(worker[w]) /\ LeadSound(e, row, sent),
           Dispatching(worker[w]) =>
              Dispatching(e) /\ e.decision.number = worker[w].decision.number,
           e.pc # "mark"
    PROVE  CalmInv'
<1>1. ClaimsSound' /\ DispatchedWasSent'
  BY ClaimsFrame
<1>2. SentAtMostOnce'
  BY CalmFacts DEF SentAtMostOnce
<1>3. queue' = queue /\ row' = row /\ sent' = sent
  OBVIOUS
<1> QED
  BY <1>1, <1>2, <1>3, CalmFacts, CalmFrame

\* A commit of the delivery that has the task, to the row alone.
LEMMA RowCalm ==
    ASSUME AuditInv, CalmInv,
           NEW w \in Worker, NEW e \in Delivery, Become(w, e),
           UNCHANGED <<audit, queue, sent>>,
           Leads(worker[w]), ~ Dispatching(worker[w]),
           row'.retries = row.retries, row'.exists = row.exists,
           row.exists /\ row.status = "FAILED" => row'.status = "FAILED",
           Untroubled(e), e.pc # "mark", LeadSound(e, row', sent)
    PROVE  CalmInv'
<1>1. queue' = queue /\ sent' = sent /\ queue = 0
  BY CalmFacts
<1>2. ClaimsSound' /\ DispatchedWasSent'
  BY <1>1, ClaimsFrame
<1>3. SentAtMostOnce'
  BY CalmFacts DEF SentAtMostOnce
<1> QED
  BY <1>1, <1>2, <1>3, CalmFacts, CalmFrame

(***************************************************************************)
(* The actions                                                             *)
(***************************************************************************)

\* The receiver takes a message only while nobody has the task.
LEMMA ReceiveCalm ==
    ASSUME AuditInv, CalmInv, NEW w \in Worker, Receive(w)
    PROVE  CalmInv'
<1> DEFINE d == [Idle EXCEPT !.held = TRUE]
           e == Enter(d, "pre")
<1>1. d \in Delivery /\ "pre" \in Hook
  BY NeutralRecords, Zenon DEF Delivery, Idle, Hook
<1>2. /\ d.failed = FALSE /\ d.noResult = FALSE /\ d.shadow = FALSE /\ d.resent = 0
  BY DEF Idle
<1> HIDE DEF d
<1>3. /\ e \in Delivery /\ e.pc = "load" /\ e.hook = "pre" /\ e.attempt = NoAttempt
      /\ e.failed = FALSE /\ e.noResult = FALSE /\ e.shadow = FALSE /\ e.resent = 0
  BY <1>1, <1>2, EnterFields
<1>4. Become(w, e) /\ queue > 0 /\ queue' = queue - 1 /\ worker[w].pc = "idle"
  BY DEF Receive, d
<1>5. UNCHANGED <<row, audit, sent>>
  BY DEF Receive
<1> HIDE DEF e
<1>6. queue' = 0 /\ (row.exists => row.status \in {"PENDING", "RETRYING"})
  BY <1>4, CalmFacts
<1>7. Untroubled(e)
  BY <1>3 DEF Untroubled, Dispatching
<1>8. LeadSound(e, row', sent')
  BY <1>3, <1>5, <1>6 DEF LeadSound, StatusFor
<1>9. ClaimsSound' /\ DispatchedWasSent' /\ SentAtMostOnce'
  <2>1. ~ Dispatching(worker[w]) /\ e.pc # "mark"
    BY <1>3, <1>4 DEF Dispatching
  <2>2. SentAtMostOnce'
    BY <1>5, CalmFacts DEF SentAtMostOnce
  <2> QED
    BY <1>3, <1>4, <1>5, <2>1, <2>2, ClaimsFrame
<1>10. row' = row /\ sent' = sent
  BY <1>5
<1>11. queue' \in 0 .. 1 /\ ~ (queue' > queue)
  BY <1>4, <1>6, CalmFacts
<1> QED
  BY <1>3, <1>4, <1>6, <1>7, <1>8, <1>9, <1>10, <1>11, CalmFrame

\* The body, and the end of a delivery.
LEMMA ReceiverCalm ==
    ASSUME AuditInv, CalmInv, NEW w \in Worker,
           RunTask(w) \/ SaveAndAck(w) \/ GiveBack(w)
    PROVE  CalmInv'
<1> DEFINE d == worker[w]
<1> USE CalmFacts
<1>1. CASE RunTask(w)
  <2>1. PICK failed \in BOOLEAN :
          Become(w, Enter([d EXCEPT !.failed = failed], IF failed THEN "error" ELSE "post"))
    BY <1>1 DEF RunTask
  <2> DEFINE f == [d EXCEPT !.failed = failed]
             hook == IF failed THEN "error" ELSE "post"
             e == Enter(f, hook)
  <2>2. /\ f \in Delivery /\ f.failed = failed /\ f.noResult = d.noResult
        /\ f.shadow = d.shadow /\ f.resent = d.resent /\ hook \in Hook
    BY DEF Delivery, Hook
  <2> HIDE DEF f
  <2>3. /\ e \in Delivery /\ e.pc = "load" /\ e.hook = hook /\ e.attempt = NoAttempt
        /\ e.failed = failed /\ e.noResult = d.noResult /\ e.shadow = d.shadow
        /\ e.resent = d.resent
    BY <2>2, EnterFields
  <2>4. Become(w, e) /\ d.pc = "run" /\ UNCHANGED <<row, audit, queue, sent>>
    BY <1>1, <2>1 DEF RunTask, f
  <2> HIDE DEF e
  <2>5. d.resent = 0 /\ ~ d.noResult /\ ~ d.shadow /\ d.hook = "pre" /\ Leads(d)
    <3>1. Untroubled(d) /\ d.resent \in Nat /\ d.noResult \in BOOLEAN /\ d.shadow \in BOOLEAN
      BY DEF Delivery
    <3> QED
      BY <2>4, <3>1 DEF Untroubled, Leads
  <2> QED
    BY <2>2, <2>3, <2>4, <2>5, LocalCalm
       DEF Untroubled, Leads, LeadSound, StatusFor, Dispatching
<1>2. CASE SaveAndAck(w)
  <2>1. /\ Become(w, Idle) /\ d.pc = "save" /\ UNCHANGED <<row, audit, queue, sent>>
    BY <1>2 DEF SaveAndAck
  <2>2. Untroubled(Idle) /\ ~ Leads(Idle) /\ Idle.pc # "mark"
    BY DEF Untroubled, Leads, Idle, Dispatching
  <2> QED
    BY <2>1, <2>2, NeutralRecords, LocalCalm DEF Dispatching
<1>3. CASE GiveBack(w)
  BY <1>3 DEF GiveBack, Untroubled
<1> QED
  BY <1>1, <1>2, <1>3

\* The hooks outside their commits.
LEMMA HooksCalm ==
    ASSUME AuditInv, CalmInv, NEW w \in Worker,
           Load(w) \/ PostExecuteSkips(w) \/ Emit(w)
    PROVE  CalmInv'
<1> DEFINE d == worker[w]
<1>0. /\ d \in Delivery /\ Untroubled(d) /\ row \in Row
      /\ Leads(d) => LeadSound(d, row, sent)
      /\ d.resent \in Nat /\ d.noResult \in BOOLEAN /\ d.shadow \in BOOLEAN
      /\ d.failed \in BOOLEAN /\ d.hook \in {"pre", "error", "post"}
  BY CalmFacts DEF Delivery, Hook
<1>1. CASE Load(w)
  <2> DEFINE e == [d EXCEPT !.pc = "write", !.loaded = row]
  <2>1. /\ Become(w, e) /\ UNCHANGED <<row, audit, queue, sent>>
        /\ d.pc = "load" /\ d.hook \in {"pre", "post"} /\ ~ d.noResult /\ ~ d.shadow
    BY <1>1 DEF Load, At
  <2>2. /\ e \in Delivery /\ e.pc = "write" /\ e.loaded = row /\ e.hook = d.hook
        /\ e.failed = d.failed /\ e.noResult = d.noResult /\ e.shadow = d.shadow
        /\ e.resent = d.resent
    BY <1>0 DEF Delivery, PC
  <2> HIDE DEF e
  <2>3. d.resent = 0
    BY <1>0, <2>1 DEF Untroubled
  <2>4. Untroubled(e) /\ Leads(d) /\ ~ Dispatching(d)
    BY <1>0, <2>1, <2>2, <2>3 DEF Untroubled, Leads, Dispatching
  <2>5. LeadSound(e, row, sent)
    BY <1>0, <2>1, <2>2, <2>4 DEF LeadSound, StatusFor
  <2> QED
    BY <2>1, <2>2, <2>4, <2>5, LocalCalm
<1>2. CASE PostExecuteSkips(w)
  <2> DEFINE e == [d EXCEPT !.pc = "save"]
  <2>1. /\ Become(w, e) /\ UNCHANGED <<row, audit, queue, sent>>
        /\ d.pc = "load" /\ d.hook = "post" /\ (d.noResult \/ d.shadow)
    BY <1>2 DEF PostExecuteSkips, At
  <2>2. /\ e \in Delivery /\ e.pc = "save" /\ e.hook = d.hook
        /\ e.failed = d.failed /\ e.noResult = d.noResult /\ e.shadow = d.shadow
        /\ e.resent = d.resent
    BY <1>0 DEF Delivery, PC
  <2> HIDE DEF e
  <2>4. Untroubled(e) /\ ~ Dispatching(d) /\ (Leads(e) => Leads(d))
    BY <1>0, <2>1, <2>2 DEF Untroubled, Leads, Dispatching
  <2>5. Leads(e) => LeadSound(e, row, sent)
    BY <1>0, <2>1, <2>2, <2>4 DEF LeadSound, StatusFor, Untroubled, Leads
  <2> QED
    BY <2>1, <2>2, <2>4, <2>5, LocalCalm
<1>3. CASE Emit(w)
  <2>1. UNCHANGED <<row, audit, queue, sent>> /\ d.pc = "emit"
    BY <1>3 DEF Emit
  <2>2. PICK e \in Delivery :
           /\ Become(w, e)
           /\ e.failed = d.failed /\ e.noResult = d.noResult /\ e.shadow = d.shadow
           /\ e.resent = d.resent
           /\ d.hook = "pre" => e.pc = "run" /\ e.hook = "pre"
           /\ d.hook = "error" => e.pc = "load" /\ e.hook = "post" /\ e.attempt = NoAttempt
           /\ d.hook = "post" => e.pc = "save" /\ e.hook = "post"
    BY <1>3, EmitFields
  <2>4. Untroubled(e) /\ ~ Dispatching(d) /\ (Leads(e) => Leads(d)) /\ e.pc # "mark"
    BY <1>0, <2>1, <2>2 DEF Untroubled, Leads, Dispatching
  <2>5. Leads(e) => LeadSound(e, row, sent)
    BY <1>0, <2>1, <2>2, <2>4 DEF LeadSound, StatusFor, Untroubled, Leads
  <2> QED
    BY <2>1, <2>2, <2>4, <2>5, LocalCalm
<1> QED
  BY <1>1, <1>2, <1>3

\* on_error finds no decision that it recorded before: it decides.
LEMMA OnErrorLoadFields ==
    ASSUME AuditInv, CalmInv, NEW w \in Worker, OnErrorLoad(w) \/ RecoverDispatch(w)
    PROVE  LET d == worker[w]
           IN  /\ d.pc = "load" /\ d.hook = "error"
               /\ UNCHANGED <<row, audit, queue, sent>>
               /\ \E e \in Delivery :
                     /\ Become(w, e)
                     /\ e.pc = "write" /\ e.loaded = row /\ e.hook = d.hook
                     /\ e.failed = d.failed /\ e.noResult = d.noResult
                     /\ e.shadow = d.shadow /\ e.resent = d.resent
<1> DEFINE d   == worker[w]
           dec == ResolveRetryDecision(row, d.attempt, gate)
           e   == [d EXCEPT !.pc = "write", !.loaded = row, !.decision = dec]
<1>1. /\ d \in Delivery /\ Untroubled(d) /\ row \in Row /\ gate \in Gate
      /\ d.attempt \in OnErrorAttempt
  BY CalmFacts DEF Delivery
<1>2. OnErrorLoad(w) /\ d.pc = "load" /\ d.hook = "error" /\ d.attempt = NoAttempt
  BY <1>1 DEF OnErrorLoad, RecoverDispatch, At, Untroubled
<1>3. dec \in Decision /\ ~ dec.recorded
  <2>1. dec \in Decision /\ (dec.recorded <=> RetryAlreadyRecorded(row, d.attempt))
    BY <1>1, ResolveRetryDecisionType
  <2>2. row.retries # -1
    BY <1>1, MaxRetriesAssumption DEF Row
  <2> QED
    BY <1>2, <2>1, <2>2 DEF RetryAlreadyRecorded, NoAttempt
<1>4. Become(w, e) /\ UNCHANGED <<row, audit, queue, sent>>
  BY <1>2, <1>3 DEF OnErrorLoad
<1> HIDE DEF dec
<1>5. /\ e \in Delivery /\ e.pc = "write" /\ e.loaded = row /\ e.hook = d.hook
      /\ e.failed = d.failed /\ e.noResult = d.noResult /\ e.shadow = d.shadow
      /\ e.resent = d.resent
  BY <1>1, <1>3 DEF Delivery, PC
<1> HIDE DEF d, e
<1> QED
  BY <1>2, <1>4, <1>5 DEF d

LEMMA OnErrorLoadCalm ==
    ASSUME AuditInv, CalmInv, NEW w \in Worker, OnErrorLoad(w) \/ RecoverDispatch(w)
    PROVE  CalmInv'
<1> DEFINE d == worker[w]
<1>1. /\ d \in Delivery /\ Untroubled(d) /\ row \in Row
      /\ Leads(d) => LeadSound(d, row, sent)
      /\ d.resent \in Nat /\ d.noResult \in BOOLEAN /\ d.shadow \in BOOLEAN
  BY CalmFacts DEF Delivery
<1>2. d.pc = "load" /\ d.hook = "error" /\ UNCHANGED <<row, audit, queue, sent>>
  BY OnErrorLoadFields
<1>3. PICK e \in Delivery :
         /\ Become(w, e)
         /\ e.pc = "write" /\ e.loaded = row /\ e.hook = d.hook
         /\ e.failed = d.failed /\ e.noResult = d.noResult
         /\ e.shadow = d.shadow /\ e.resent = d.resent
  BY OnErrorLoadFields
<1>4. Untroubled(e) /\ ~ Dispatching(d) /\ Leads(d)
  BY <1>1, <1>2, <1>3 DEF Untroubled, Leads, Dispatching
<1>5. LeadSound(e, row, sent)
  BY <1>1, <1>2, <1>3, <1>4 DEF LeadSound, StatusFor
<1> QED
  BY <1>2, <1>3, <1>4, <1>5, LocalCalm

\* pre_execute and post_execute write the status that their hook stands for.
LEMMA SetStatusFields ==
    ASSUME AuditInv, CalmInv, Calm', NEW w \in Worker, NEW outcome \in Outcome,
           PreExecute(w, outcome) \/ PostExecute(w, outcome)
    PROVE  LET d == worker[w]
               status == IF d.hook = "pre" THEN "RUNNING"
                         ELSE IF d.failed THEN "FAILED" ELSE "COMPLETED"
           IN  /\ d.pc = "write" /\ d.hook \in {"pre", "post"}
               /\ Leads(d) /\ ~ Dispatching(d) /\ ~ d.shadow
               /\ row.exists => row.status \in StatusFor(d)
               /\ row'.exists = row.exists /\ row'.retries = row.retries
               /\ row.exists => row'.status = status
               /\ ~ row.exists => row' = row
               /\ UNCHANGED <<audit, queue, sent>>
               /\ \E e \in Delivery :
                     /\ Become(w, e)
                     /\ e.pc = "emit" /\ e.event = status
                     /\ e.hook = d.hook /\ e.failed = d.failed
                     /\ ~ e.noResult /\ ~ e.shadow /\ e.resent = 0
<1> DEFINE d == worker[w]
           status == IF d.hook = "pre" THEN "RUNNING"
                     ELSE IF d.failed THEN "FAILED" ELSE "COMPLETED"
           reason == IF d.hook = "pre" THEN "started"
                     ELSE IF d.failed THEN "failed" ELSE "completed"
           e == Finish(d, status)
<1>1. /\ d \in Delivery /\ Untroubled(d) /\ row \in Row
      /\ d.resent \in Nat /\ d.failed \in BOOLEAN /\ d.shadow \in BOOLEAN
  BY CalmFacts DEF Delivery
<1>2. d.pc = "write" /\ d.hook \in {"pre", "post"}
  BY DEF PreExecute, PostExecute, At
<1>3. Leads(d) /\ ~ Dispatching(d) /\ ~ d.noResult /\ ~ d.shadow /\ d.resent = 0
  <2>1. d.noResult \in BOOLEAN
    BY <1>1 DEF Delivery
  <2> QED
    BY <1>1, <1>2, <2>1 DEF Untroubled, Leads, Dispatching
<1>4. d.loaded = row /\ (row.exists => row.status \in StatusFor(d))
  BY <1>2, <1>3, CalmFacts DEF LeadSound
<1>5. SetStatus(w, outcome, status, reason)
  BY <1>2 DEF PreExecute, PostExecute, At
<1>6. status \in Status \ {"RETRYING"} /\ reason \in Reason
  BY DEF Status, Reason
<1>7. /\ row' = Flush(row, row, UpdateTaskStatus(row, status, reason))
      /\ Become(w, e) /\ UNCHANGED <<audit, queue, sent>>
  BY <1>4, <1>5, CalmCommit DEF SetStatus
<1>8. /\ e \in Delivery /\ e.pc = "emit" /\ e.event = status
      /\ e.hook = d.hook /\ e.failed = d.failed
      /\ ~ e.noResult /\ ~ e.shadow /\ e.resent = 0
  BY <1>1, <1>3, <1>6, FinishFields
<1>9. /\ row'.exists = row.exists /\ row'.retries = row.retries
      /\ row.exists => row'.status = status
      /\ ~ row.exists => row' = row
  <2> HIDE DEF status, reason
  <2> QED
    BY <1>1, <1>6, <1>7, OwnFlush
<1> HIDE DEF e
<1>10. \E f \in Delivery :
          /\ Become(w, f)
          /\ f.pc = "emit" /\ f.event = status
          /\ f.hook = d.hook /\ f.failed = d.failed
          /\ ~ f.noResult /\ ~ f.shadow /\ f.resent = 0
  BY <1>7, <1>8
<1> HIDE DEF d, status
<1> QED
  BY <1>2, <1>3, <1>4, <1>7, <1>9, <1>10 DEF d, status

\* pre_execute finds the row waiting and post_execute finds it running or failed.
LEMMA SetStatusCalm ==
    ASSUME AuditInv, CalmInv, Calm', NEW w \in Worker, NEW outcome \in Outcome,
           PreExecute(w, outcome) \/ PostExecute(w, outcome)
    PROVE  CalmInv'
<1> DEFINE d == worker[w]
           status == IF d.hook = "pre" THEN "RUNNING"
                     ELSE IF d.failed THEN "FAILED" ELSE "COMPLETED"
<1>1. /\ d.pc = "write" /\ d.hook \in {"pre", "post"}
      /\ Leads(d) /\ ~ Dispatching(d) /\ Untroubled(d)
      /\ row.exists => row.status \in StatusFor(d)
      /\ row'.exists = row.exists /\ row'.retries = row.retries
      /\ row.exists => row'.status = status
      /\ UNCHANGED <<audit, queue, sent>>
  BY CalmFacts, SetStatusFields
<1>2. PICK e \in Delivery :
          /\ Become(w, e)
          /\ e.pc = "emit" /\ e.hook = d.hook /\ e.failed = d.failed
          /\ ~ e.noResult /\ ~ e.shadow /\ e.resent = 0
  BY SetStatusFields
<1>3. d.shadow \in BOOLEAN /\ d.failed \in BOOLEAN /\ ~ d.shadow
  BY CalmFacts, SetStatusFields DEF Delivery
<1>4. Untroubled(e)
  BY <1>1, <1>2 DEF Untroubled, Dispatching
<1>5. LeadSound(e, row', sent)
  BY <1>1, <1>2 DEF LeadSound, StatusFor
<1>6. row.exists /\ row.status = "FAILED" => row'.status = "FAILED"
  BY <1>1, <1>3 DEF StatusFor
<1> QED
  BY <1>1, <1>2, <1>4, <1>5, <1>6, RowCalm

(***************************************************************************)
(* Sending the retry                                                       *)
(***************************************************************************)

\* A delivery that dispatches knows the number of its retry, and has claimed it.
LEMMA OwnNumber ==
    ASSUME AuditInv, CalmInv, NEW w \in Worker, Dispatching(worker[w])
    PROVE  LET n == worker[w].decision.number
           IN  n \in Number /\ ClaimNumber(worker[w]) = n /\ ClaimedRows(audit, n) # {}
<1> DEFINE d == worker[w]
<1>1. /\ d.decision.number \in Number /\ d.attempt.number = d.decision.number
      /\ ClaimedRows(audit, ClaimNumber(d)) # {}
  BY InvFacts, CalmFacts DEF DeliverySound, DispatchAllowed, ClaimKnown, Untroubled
<1>2. ClaimNumber(d) = d.decision.number
  BY <1>1 DEF ClaimNumber
<1> QED
  BY <1>1, <1>2

\* The send hands the task on: from the delivery that has it to the queue.
LEMMA RequeueSentCalm ==
    ASSUME AuditInv, CalmInv, NEW w \in Worker, RequeueSent(w)
    PROVE  CalmInv'
<1> DEFINE d == worker[w]
           n == d.decision.number
           more == d.resent + 1
           e == [d EXCEPT !.pc = "mark", !.resent = more]
<1>1. /\ d \in Delivery /\ Untroubled(d) /\ row \in Row /\ sent \in [Number -> Nat]
      /\ d.resent \in Nat /\ d.noResult \in BOOLEAN /\ d.shadow \in BOOLEAN
      /\ ClaimsSound /\ SentAtMostOnce
  BY CalmFacts DEF Delivery
<1>2. d.pc = "requeue" /\ Dispatching(d)
  BY DEF RequeueSent, Dispatching
<1>3. Leads(d) /\ d.resent = 0 /\ d.hook = "error"
  BY <1>1, <1>2 DEF Untroubled, Leads
<1>4. /\ queue = 0 /\ row.exists /\ row.status = "RETRYING"
      /\ row.retries = n /\ sent[n] = 0
  BY <1>2, <1>3, CalmFacts DEF LeadSound, StatusFor
<1>5. n \in Number /\ ClaimNumber(d) = n
  BY <1>2, OwnNumber
<1>6. /\ Become(w, e) /\ row' = row /\ audit' = audit /\ queue' = 1
      /\ sent' = [sent EXCEPT ![n] = @ + 1]
  <2>1. Become(w, [d EXCEPT !.pc = "mark", !.resent = @ + 1])
    BY DEF RequeueSent
  <2>2. [d EXCEPT !.pc = "mark", !.resent = @ + 1] = e
    BY <1>1 DEF Delivery
  <2>3. /\ row' = row /\ audit' = audit /\ queue' = queue + 1
        /\ sent' = [sent EXCEPT ![ClaimNumber(d)] = @ + 1]
    BY DEF RequeueSent
  <2> QED
    BY <1>4, <1>5, <2>1, <2>2, <2>3
<1>7. more = 1
  BY <1>3
<1> HIDE DEF more
<1>8. /\ e \in Delivery /\ e.pc = "mark" /\ e.hook = d.hook /\ e.resent = 1
      /\ e.failed = d.failed /\ e.noResult = d.noResult /\ e.shadow = d.shadow
      /\ e.attempt = d.attempt /\ e.decision = d.decision
  BY <1>1, <1>7 DEF Delivery, PC
<1> HIDE DEF e
<1>9. Untroubled(e) /\ ~ Leads(e) /\ Dispatching(e)
  BY <1>1, <1>2, <1>3, <1>8 DEF Untroubled, Leads, Dispatching
<1>10. /\ \A m \in Number : sent'[m] = IF m = n THEN 1 ELSE sent[m]
  BY <1>1, <1>4, <1>5, <1>6
<1>11. SentAtMostOnce'
  BY <1>1, <1>10 DEF SentAtMostOnce
<1>12. ClaimsSound' /\ DispatchedWasSent'
  BY <1>2, <1>5, <1>6, <1>8, <1>9, <1>10, ClaimsFrame
<1>13. row' = row
  BY <1>6
<1> HIDE DEF n
<1> QED
  BY <1>3, <1>4, <1>6, <1>8, <1>9, <1>11, <1>12, <1>13, CalmFrame

\* A refused send leaves the task where it is.
LEMMA RequeueRefusedCalm ==
    ASSUME AuditInv, CalmInv, NEW w \in Worker, RequeueRefused(w)
    PROVE  CalmInv'
<1> DEFINE d == worker[w]
           e == [d EXCEPT !.pc = "undispatched"]
<1>1. /\ d \in Delivery /\ Untroubled(d) /\ (Leads(d) => LeadSound(d, row, sent))
      /\ d.resent \in Nat /\ d.noResult \in BOOLEAN /\ d.shadow \in BOOLEAN
  BY CalmFacts DEF Delivery
<1>2. /\ d.pc = "requeue" /\ Dispatching(d)
      /\ Become(w, e) /\ UNCHANGED <<row, audit, queue, sent>>
  BY DEF RequeueRefused, Dispatching
<1>3. /\ e \in Delivery /\ e.pc = "undispatched" /\ e.hook = d.hook /\ e.resent = d.resent
      /\ e.failed = d.failed /\ e.noResult = d.noResult /\ e.shadow = d.shadow
      /\ e.attempt = d.attempt /\ e.decision = d.decision /\ e.loaded = d.loaded
  BY <1>1 DEF Delivery, PC
<1> HIDE DEF e
<1>4. Untroubled(e) /\ Leads(d) /\ Dispatching(e)
  BY <1>1, <1>2, <1>3 DEF Untroubled, Leads, Dispatching
<1>5. LeadSound(e, row, sent)
  BY <1>1, <1>2, <1>3, <1>4 DEF LeadSound, StatusFor
<1> QED
  BY <1>2, <1>3, <1>4, <1>5, LocalCalm

(***************************************************************************)
(* The audit                                                               *)
(***************************************************************************)

\* Marking changes no row of another number, and when one row claims this number that one
\* is DISPATCHED.
LEMMA MarkFacts ==
    ASSUME NEW log \in Seq(Attempt), NEW n, NEW i \in DOMAIN log
    PROVE  LET new == MarkTaskAttemptDispatched(log, n)
           IN  /\ DOMAIN new = DOMAIN log
               /\ new[i].number = log[i].number
               /\ Claimed(new[i]) <=> Claimed(log[i])
               /\ new[i].result = "DISPATCH_FAILED" <=> log[i].result = "DISPATCH_FAILED"
               /\ new[i].result = "PENDING" => log[i].result = "PENDING"
               /\ new[i].result = "DISPATCHED" =>
                     log[i].result = "DISPATCHED" \/ log[i].number = n
               /\ ClaimedRows(log, n) = {i} => new[i].result = "DISPATCHED"
<1> DEFINE new == MarkTaskAttemptDispatched(log, n)
<1>1. DOMAIN new = DOMAIN log
  BY DEF MarkTaskAttemptDispatched
<1>2. log[i] \in Attempt
  OBVIOUS
<1>3. \/ new[i] = log[i] /\ ClaimedRows(log, n) # {i}
      \/ /\ i \in ClaimedRows(log, n)
         /\ new[i] = [log[i] EXCEPT !.result = "DISPATCHED"]
  <2>1. new[i] = IF i \in ClaimedRows(log, n) /\ \A j \in ClaimedRows(log, n) : j <= i
                 THEN [log[i] EXCEPT !.result = "DISPATCHED"]
                 ELSE log[i]
    BY DEF MarkTaskAttemptDispatched
  <2>2. ClaimedRows(log, n) = {i} =>
           i \in ClaimedRows(log, n) /\ \A j \in ClaimedRows(log, n) : j <= i
    OBVIOUS
  <2> HIDE DEF new
  <2> QED
    BY <2>1, <2>2
<1> HIDE DEF new
<1> QED
  BY <1>1, <1>2, <1>3 DEF ClaimedRows, Claimed, Attempt, new

\* A pending row stays explained while the audit grows, unless the delivery that took the
\* step was its explanation.
LEMMA StillExplained ==
    ASSUME AuditInv, CalmInv,
           NEW w \in Worker, NEW e, Become(w, e),
           audit' \in Seq(Attempt), OnlyGrows(audit, audit'),
           NEW i \in PendingRows(audit),
           ~ Dispatching(worker[w]) \/ worker[w].decision.number # audit[i].number
    PROVE  PendingExplained(i)'
<1>1. /\ \A v \in Worker : worker'[v] = IF v = w THEN e ELSE worker[v]
      /\ audit \in Seq(Attempt) /\ PendingExplained(i)
  BY CalmFacts DEF AuditInv, TypeOK, Become, ClaimsSound
<1>2. ASSUME NEW j \in DOMAIN audit
      PROVE  /\ j \in DOMAIN audit' /\ audit'[j].number = audit[j].number
             /\ audit[j].result = "DISPATCH_FAILED" => audit'[j].result = "DISPATCH_FAILED"
  <2>1. j \in DOMAIN audit' /\ audit'[j].number = audit[j].number
    BY <1>1, OnlyGrowsKeepsRows
  <2>2. audit'[j] = audit[j] \/ audit[j].result = "PENDING"
    BY DEF OnlyGrows
  <2> QED
    BY <2>1, <2>2
<1>3. i \in DOMAIN audit
  BY DEF PendingRows
<1>4. ASSUME NEW j \in DOMAIN audit, j > i, audit[j].number = audit[i].number,
             audit[j].result = "DISPATCH_FAILED"
      PROVE  PendingExplained(i)'
  BY <1>2, <1>3, <1>4 DEF PendingExplained
<1>5. ASSUME NEW v \in Worker, Dispatching(worker[v]),
             worker[v].decision.number = audit[i].number
      PROVE  PendingExplained(i)'
  <2>1. worker'[v] = worker[v]
    BY <1>1, <1>5
  <2> QED
    BY <1>2, <1>3, <1>5, <2>1 DEF PendingExplained, Dispatching
<1> QED
  BY <1>1, <1>4, <1>5 DEF PendingExplained

\* What is to be marked was sent, while nothing is sent and no delivery comes to mark.
LEMMA StillSent ==
    ASSUME AuditInv, CalmInv, NEW w \in Worker, NEW e, Become(w, e), e.pc # "mark",
           sent' = sent
    PROVE  \A v \in Worker : worker'[v].pc = "mark" => sent'[worker'[v].decision.number] > 0
<1>1. \A v \in Worker : worker'[v] = IF v = w THEN e ELSE worker[v]
  BY DEF AuditInv, TypeOK, Become
<1> QED
  BY <1>1 DEF CalmInv, ClaimsSound

\* The retry that is marked was sent, and one row claims it.
LEMMA MarkDispatchedCalm ==
    ASSUME AuditInv, CalmInv, Calm', NEW w \in Worker, NEW outcome \in Outcome,
           MarkDispatched(w, outcome)
    PROVE  CalmInv'
<1> DEFINE d == worker[w]
           n == d.decision.number
           f == [d EXCEPT !.noResult = TRUE]
           e == Finish(f, d.decision.status)
<1>1. /\ d \in Delivery /\ Untroubled(d) /\ audit \in Seq(Attempt)
      /\ d.shadow \in BOOLEAN /\ d.decision.status \in Status
      /\ ClaimsSound /\ SentAtMostOnce /\ DispatchedWasSent
      /\ queue \in 0 .. 1 /\ (queue > 0 /\ row.exists => row.status \in {"PENDING", "RETRYING"})
  BY CalmFacts DEF Delivery, Decision
<1>2. d.pc = "mark" /\ Dispatching(d)
  BY DEF MarkDispatched, Dispatching
<1>3. n \in Number /\ ClaimNumber(d) = n /\ ClaimedRows(audit, n) # {} /\ sent[n] > 0
  BY <1>1, <1>2, OwnNumber DEF ClaimsSound
<1>4. /\ row' = row /\ queue' = queue /\ sent' = sent /\ Become(w, e)
      /\ audit' = MarkTaskAttemptDispatched(audit, n)
  <2>1. Commit(w, outcome, row, MarkTaskAttemptDispatched(audit, n), e, d)
    BY <1>3 DEF MarkDispatched
  <2> HIDE DEF n, e, d
  <2> QED
    BY <2>1, CalmCommit
<1>5. /\ f \in Delivery /\ f.noResult = TRUE /\ f.hook = d.hook /\ f.failed = d.failed
      /\ f.shadow = d.shadow /\ f.resent = d.resent
  BY <1>1 DEF Delivery
<1> HIDE DEF f
<1>6. /\ e \in Delivery /\ e.pc = "emit" /\ e.event = d.decision.status
      /\ e.noResult = TRUE /\ e.hook = d.hook /\ e.failed = d.failed
      /\ e.shadow = d.shadow /\ e.resent = d.resent
  BY <1>1, <1>5, FinishFields
<1> HIDE DEF e
<1>7. Untroubled(e) /\ ~ Leads(e)
  BY <1>1, <1>2, <1>6 DEF Untroubled, Leads, Dispatching
<1>8. audit' \in Seq(Attempt) /\ OnlyGrows(audit, audit')
  BY <1>1, <1>4, MarkTaskAttemptDispatchedKeeps
<1>9. ASSUME NEW i \in DOMAIN audit
      PROVE  /\ DOMAIN audit' = DOMAIN audit
             /\ audit'[i].number = audit[i].number
             /\ Claimed(audit'[i]) <=> Claimed(audit[i])
             /\ audit'[i].result = "DISPATCH_FAILED" <=> audit[i].result = "DISPATCH_FAILED"
             /\ audit'[i].result = "PENDING" => audit[i].result = "PENDING"
             /\ audit'[i].result = "DISPATCHED" =>
                   audit[i].result = "DISPATCHED" \/ audit[i].number = n
             /\ ClaimedRows(audit, n) = {i} => audit'[i].result = "DISPATCHED"
  BY <1>1, <1>4, MarkFacts
<1>10. DOMAIN audit' = DOMAIN audit
  BY <1>4 DEF MarkTaskAttemptDispatched
<1>11. AllClaimed(audit') = AllClaimed(audit)
  BY <1>9, <1>10 DEF AllClaimed
<1>12. ASSUME NEW i \in PendingRows(audit')
       PROVE  PendingExplained(i)'
  <2>1. i \in DOMAIN audit /\ i \in PendingRows(audit)
    BY <1>9, <1>10 DEF PendingRows
  <2>2. CASE audit[i].number # n
    BY <1>4, <1>8, <2>1, <2>2, StillExplained
  <2>3. CASE audit[i].number = n
    <3>1. ClaimedRows(audit, n) = {i}
      BY <1>1, <2>1, <2>3 DEF ClaimsSound, ClaimedRows, AllClaimed, PendingRows, Claimed
    <3>2. audit'[i].result = "DISPATCHED"
      BY <1>9, <2>1, <3>1
    <3> QED
      BY <3>2 DEF PendingRows
  <2> QED
    BY <2>2, <2>3
<1>13. ClaimsSound'
  <2>1. \A i \in AllClaimed(audit') :
           /\ audit'[i].number <= row'.retries
           /\ \A j \in AllClaimed(audit') : audit'[j].number = audit'[i].number => j = i
    BY <1>1, <1>4, <1>9, <1>11 DEF ClaimsSound, AllClaimed
  <2>2. \A i \in DOMAIN audit' :
           audit'[i].result = "DISPATCH_FAILED" => row'.exists /\ row'.status = "FAILED"
    BY <1>1, <1>4, <1>9, <1>10 DEF ClaimsSound
  <2>3. \A v \in Worker : worker'[v].pc = "mark" => sent'[worker'[v].decision.number] > 0
    BY <1>4, <1>6, StillSent
  <2> QED
    BY <1>12, <2>1, <2>2, <2>3 DEF ClaimsSound
<1>14. DispatchedWasSent' /\ SentAtMostOnce'
  BY <1>1, <1>3, <1>4, <1>9, <1>10 DEF DispatchedWasSent, SentAtMostOnce
<1> QED
  BY <1>1, <1>4, <1>6, <1>7, <1>13, <1>14, CalmFrame

\* The failed send is noted in a row that says RETRYING, and announced.
LEMMA RetryDispatchFailedFields ==
    ASSUME AuditInv, CalmInv, Calm', NEW w \in Worker, NEW outcome \in Outcome,
           RetryDispatchFailed(w, outcome)
    PROVE  LET d == worker[w]
           IN  /\ Dispatching(d) /\ Leads(d) /\ d.decision.number \in Number
               /\ row.exists /\ row.status = "RETRYING" /\ queue = 0
               /\ row'.exists /\ row'.status = "FAILED" /\ row'.retries = row.retries
               /\ audit' = Append(audit, [number |-> d.decision.number,
                                          result |-> "DISPATCH_FAILED"])
               /\ queue' = queue /\ sent' = sent
               /\ \E e \in Delivery :
                     /\ Become(w, e)
                     /\ e.pc = "emit" /\ e.event = "FAILED"
                     /\ e.hook = "error" /\ e.failed
                     /\ ~ e.noResult /\ ~ e.shadow /\ e.resent = 0
<1> DEFINE d == worker[w]
           n == d.decision.number
           t == UpdateTaskStatus(d.loaded, "FAILED", "dispatch_error")
           memory == [d.attempt EXCEPT !.status = "FAILED", !.reason = "dispatch_error"]
           f == [d EXCEPT !.attempt = memory]
           e == Finish(f, "FAILED")
           last == [number |-> n, result |-> "DISPATCH_FAILED"]
<1>1. /\ d \in Delivery /\ Untroubled(d) /\ audit \in Seq(Attempt) /\ row \in Row
      /\ d.attempt \in OnErrorAttempt
      /\ d.resent \in Nat /\ d.shadow \in BOOLEAN /\ d.noResult \in BOOLEAN
  BY CalmFacts DEF Delivery
<1>2. d.pc = "undispatched" /\ Dispatching(d)
  BY DEF RetryDispatchFailed, Dispatching
<1>3. /\ Leads(d) /\ d.resent = 0 /\ d.hook = "error" /\ d.failed /\ ~ d.shadow
      /\ ~ d.noResult
  BY <1>1, <1>2 DEF Untroubled, Leads
<1>4. /\ queue = 0 /\ n \in Number
      /\ d.loaded = row /\ row.exists /\ row.status = "RETRYING"
  <2>1. LeadSound(d, row, sent) /\ queue = 0 /\ n \in Number
    BY <1>2, <1>3, CalmFacts, OwnNumber
  <2> QED
    BY <1>2, <1>3, <2>1 DEF LeadSound, StatusFor
<1>5. /\ row' = Flush(row, row, UpdateTaskStatus(row, "FAILED", "dispatch_error"))
      /\ queue' = queue /\ sent' = sent /\ Become(w, e) /\ audit' = Append(audit, last)
  <2>1. Commit(w, outcome, Flush(row, d.loaded, t), Append(audit, last), e, f)
    BY <1>1 DEF RetryDispatchFailed, RecordTaskAttempt, Delivery
  <2> HIDE DEF e, f, last
  <2> QED
    BY <1>4, <2>1, CalmCommit
<1>6. memory \in OnErrorAttempt
  BY <1>1 DEF OnErrorAttempt, Status, Reason
<1> HIDE DEF memory
<1>7. /\ f \in Delivery /\ f.noResult = d.noResult /\ f.hook = d.hook /\ f.failed = d.failed
      /\ f.shadow = d.shadow /\ f.resent = d.resent
  BY <1>1, <1>6 DEF Delivery
<1> HIDE DEF f
<1>8. /\ e \in Delivery /\ e.pc = "emit" /\ e.event = "FAILED" /\ e.hook = "error"
      /\ e.failed /\ ~ e.noResult /\ ~ e.shadow /\ e.resent = 0
  BY <1>3, <1>7, FinishFields DEF Status
<1> HIDE DEF e
<1>9. /\ row'.exists /\ row'.status = "FAILED" /\ row'.retries = row.retries
  BY <1>1, <1>4, <1>5, OwnFlush DEF Status, Reason
<1>10. \E g \in Delivery :
          /\ Become(w, g)
          /\ g.pc = "emit" /\ g.event = "FAILED" /\ g.hook = "error" /\ g.failed
          /\ ~ g.noResult /\ ~ g.shadow /\ g.resent = 0
  BY <1>5, <1>8
<1> HIDE DEF d
<1> QED
  BY <1>2, <1>3, <1>4, <1>5, <1>9, <1>10 DEF d

\* The failed send ends the task: the row is FAILED and the audit tells why the retry is
\* still pending.
LEMMA RetryDispatchFailedCalm ==
    ASSUME AuditInv, CalmInv, Calm', NEW w \in Worker, NEW outcome \in Outcome,
           RetryDispatchFailed(w, outcome)
    PROVE  CalmInv'
<1> DEFINE d == worker[w]
           n == d.decision.number
           last == [number |-> n, result |-> "DISPATCH_FAILED"]
<1>1. /\ audit \in Seq(Attempt) /\ row \in Row
      /\ ClaimsSound /\ SentAtMostOnce /\ DispatchedWasSent
  BY CalmFacts
<1>2. Dispatching(d) /\ Leads(d)
  BY RetryDispatchFailedFields
<1>3. queue = 0 /\ row.exists /\ n \in Number
  BY RetryDispatchFailedFields
<1>4. PICK e \in Delivery :
         /\ Become(w, e)
         /\ e.pc = "emit" /\ e.hook = "error" /\ e.failed
         /\ ~ e.noResult /\ ~ e.shadow /\ e.resent = 0
  BY RetryDispatchFailedFields
<1>5. queue' = queue /\ sent' = sent /\ Become(w, e) /\ audit' = Append(audit, last)
  BY <1>4, RetryDispatchFailedFields
<1>6. row'.exists /\ row'.status = "FAILED" /\ row'.retries = row.retries
  BY RetryDispatchFailedFields
<1>7. Untroubled(e) /\ LeadSound(e, row', sent')
  BY <1>4, <1>5, <1>6 DEF Untroubled, Dispatching, LeadSound, StatusFor
<1>8. /\ audit' \in Seq(Attempt) /\ OnlyGrows(audit, audit')
      /\ DOMAIN audit' = DOMAIN audit \cup {Len(audit) + 1}
      /\ \A i \in DOMAIN audit : audit'[i] = audit[i]
      /\ audit'[Len(audit) + 1] = last
  <2>1. last \in Attempt
    BY <1>3 DEF Attempt, DispatchResult
  <2> HIDE DEF last
  <2> QED
    BY <1>1, <1>5, <2>1 DEF OnlyGrows
<1>9. /\ AllClaimed(audit') = AllClaimed(audit) /\ PendingRows(audit') = PendingRows(audit)
  <2>1. ~ Claimed(last) /\ last.result # "PENDING"
    BY DEF Claimed
  <2>2. Len(audit) + 1 \notin DOMAIN audit
    BY <1>1
  <2> HIDE DEF last
  <2> QED
    BY <1>8, <2>1, <2>2 DEF AllClaimed, PendingRows
<1>10. ASSUME NEW i \in PendingRows(audit')
       PROVE  PendingExplained(i)'
  <2>1. i \in DOMAIN audit /\ i \in PendingRows(audit)
    BY <1>9 DEF PendingRows
  <2>2. CASE audit[i].number # n
    BY <1>5, <1>8, <2>1, <2>2, StillExplained
  <2>3. CASE audit[i].number = n
    <3>1. /\ Len(audit) + 1 \in DOMAIN audit' /\ Len(audit) + 1 > i
          /\ audit'[Len(audit) + 1].number = audit'[i].number
          /\ audit'[Len(audit) + 1].result = "DISPATCH_FAILED"
      BY <1>1, <1>8, <2>1, <2>3
    <3> QED
      BY <3>1 DEF PendingExplained
  <2> QED
    BY <2>2, <2>3
<1>11. ClaimsSound'
  <2>1. \A i \in AllClaimed(audit') :
           /\ audit'[i].number <= row'.retries
           /\ \A j \in AllClaimed(audit') : audit'[j].number = audit'[i].number => j = i
    BY <1>1, <1>6, <1>8, <1>9 DEF ClaimsSound, AllClaimed
  <2>2. \A v \in Worker : worker'[v].pc = "mark" => sent'[worker'[v].decision.number] > 0
    BY <1>4, <1>5, StillSent
  <2> QED
    BY <1>6, <1>10, <2>1, <2>2 DEF ClaimsSound
<1>12. DispatchedWasSent' /\ SentAtMostOnce'
  BY <1>1, <1>5, <1>8 DEF DispatchedWasSent, SentAtMostOnce
<1>13. queue' \in 0 .. 1 /\ ~ (queue' > 0)
  BY <1>3, <1>5
<1> QED
  BY <1>2, <1>3, <1>4, <1>5, <1>7, <1>11, <1>12, <1>13, CalmFrame

\* The older pending row that a new decision reconciles was sent.
LEMMA ReconciledWasSent ==
    ASSUME AuditInv, CalmInv,
           \A v \in Worker : Dispatching(worker[v]) => worker[v].pc = "mark",
           \A i \in DOMAIN audit : audit[i].result # "DISPATCH_FAILED"
    PROVE  LET new == ReconcilePending(audit)
           IN  /\ new \in Seq(Attempt) /\ OnlyGrows(audit, new)
               /\ DOMAIN new = DOMAIN audit
               /\ \A i \in DOMAIN audit :
                     /\ new[i].number = audit[i].number
                     /\ Claimed(new[i]) <=> Claimed(audit[i])
                     /\ new[i].result # "DISPATCH_FAILED"
                     /\ new[i].result = "PENDING" => audit[i].result = "PENDING"
                     /\ new[i].result = "DISPATCHED" => sent[audit[i].number] > 0
<1> DEFINE new == ReconcilePending(audit)
<1>1. /\ audit \in Seq(Attempt) /\ ClaimsSound /\ DispatchedWasSent
  BY DEF AuditInv, TypeOK, CalmInv
<1>2. new \in Seq(Attempt) /\ OnlyGrows(audit, new)
  BY <1>1, ReconcilePendingKeeps
<1>3. CASE PendingRows(audit) = {}
  <2>1. new = audit
    BY <1>3 DEF ReconcilePending
  <2> HIDE DEF new
  <2> QED
    BY <1>1, <1>2, <2>1 DEF new, DispatchedWasSent
<1>4. CASE PendingRows(audit) # {}
  <2> DEFINE p == Max(PendingRows(audit))
             n == audit[p].number
  <2>1. p \in PendingRows(audit)
    <3>1. PendingRows(audit) \subseteq 1 .. Len(audit) /\ Len(audit) \in Nat
      BY <1>1 DEF PendingRows
    <3> QED
      BY <1>4, <3>1, LatestExists
  <2>2. sent[n] > 0
    <3>1. PendingExplained(p)
      BY <1>1, <2>1 DEF ClaimsSound
    <3>2. PICK v \in Worker : Dispatching(worker[v]) /\ worker[v].decision.number = n
      BY <3>1 DEF PendingExplained
    <3> QED
      BY <1>1, <3>2 DEF ClaimsSound
  <2>3. new = MarkTaskAttemptDispatched(audit, n)
    BY <1>4 DEF ReconcilePending
  <2>4. DOMAIN new = DOMAIN audit
    BY <2>3 DEF MarkTaskAttemptDispatched
  <2> HIDE DEF n, new
  <2> QED
    BY <1>1, <1>2, <2>2, <2>3, <2>4, MarkFacts DEF new, DispatchedWasSent
<1> QED
  BY <1>3, <1>4

(***************************************************************************)
(* Recording the decision                                                  *)
(***************************************************************************)

\* What on_error commits: the decision as it was resolved from the row that is there.
LEMMA RecordErrorStatusFields ==
    ASSUME AuditInv, CalmInv, Calm', NEW w \in Worker, NEW outcome \in Outcome,
           RecordErrorStatus(w, outcome)
    PROVE  LET d == worker[w]
               dec == d.decision
           IN  /\ d \in Delivery /\ Untroubled(d) /\ Leads(d) /\ ~ Dispatching(d)
               /\ d.resent = 0 /\ d.failed /\ ~ d.noResult /\ ~ d.shadow
               /\ row.exists => row.status = "RUNNING"
               /\ dec \in Decision /\ ~ dec.recorded
               /\ dec.number = row.retries + 1
               /\ dec.should <=> row.exists /\ row.retries < MaxRetries
               /\ dec.allowed <=> dec.should /\ gate = "open"
               /\ dec.shadowed <=> dec.should /\ gate = "shadow"
               /\ dec.status = IF dec.allowed \/ dec.shadowed THEN "RETRYING" ELSE "FAILED"
               /\ row' = Flush(row, row, UpdateTaskStatus(row, dec.status, dec.reason))
               /\ audit' = AuditDecision(audit, dec)
               /\ queue' = queue /\ sent' = sent /\ queue = 0
               /\ \E e \in Delivery :
                     /\ Become(w, e)
                     /\ e.hook = "error" /\ e.resent = 0 /\ e.failed /\ ~ e.noResult
                     /\ IF dec.allowed
                        THEN /\ e.pc = "requeue" /\ e.loaded = row' /\ e.decision = dec
                             /\ e.attempt.number = dec.number /\ ~ e.shadow
                        ELSE /\ e.pc = "emit" /\ e.event = dec.status
                             /\ e.shadow <=> dec.shadowed
<1> DEFINE d   == worker[w]
           dec == d.decision
           t   == UpdateTaskStatus(d.loaded, dec.status, dec.reason)
           newRow  == Flush(row, d.loaded, t)
           memory  == Remember(d, t)
           counts  == dec.status = "RETRYING" /\ outcome # "rolled_back"
           counted == IF counts THEN d.counted + 1 ELSE d.counted
           f  == [d EXCEPT !.attempt = memory, !.counted = counted]
           ok == IF dec.allowed THEN [f EXCEPT !.pc = "requeue", !.loaded = newRow]
                 ELSE FinishUndispatched(f, dec)
<1>1. /\ d \in Delivery /\ Untroubled(d) /\ row \in Row /\ gate \in Gate
      /\ d.attempt \in OnErrorAttempt /\ d.counted \in Nat /\ d.resent \in Nat
      /\ d.noResult \in BOOLEAN /\ d.shadow \in BOOLEAN
      /\ dec \in Decision /\ DecisionFresh(d, gate)
  BY InvFacts, CalmFacts DEF Delivery, DeliverySound
<1>2. d.pc = "write" /\ d.hook = "error"
  BY DEF RecordErrorStatus, At
<1>3. /\ Leads(d) /\ ~ Dispatching(d) /\ d.resent = 0 /\ d.failed /\ ~ d.noResult
      /\ ~ d.shadow
  BY <1>1, <1>2 DEF Untroubled, Leads, Dispatching
<1>4. d.loaded = row /\ queue = 0 /\ (row.exists => row.status = "RUNNING")
  BY <1>2, <1>3, CalmFacts DEF LeadSound, StatusFor
<1>5. /\ dec.number = row.retries + 1 /\ ~ dec.recorded
      /\ dec.should <=> row.exists /\ row.retries < MaxRetries
      /\ dec.allowed <=> dec.should /\ gate = "open"
      /\ dec.shadowed <=> dec.should /\ gate = "shadow"
      /\ dec.status = IF dec.allowed \/ dec.shadowed THEN "RETRYING" ELSE "FAILED"
  <2>1. dec = ResolveRetryDecision(row, d.attempt, gate) /\ ~ dec.recorded
    BY <1>1, <1>2, <1>4 DEF DecisionFresh
  <2>2. LET r == ResolveRetryDecision(row, d.attempt, gate)
        IN  /\ r.number = row.retries + 1
            /\ r.should <=> row.exists /\ row.retries < MaxRetries
            /\ r.allowed <=> r.should /\ gate = "open"
            /\ r.shadowed <=> r.should /\ gate = "shadow"
            /\ ~ r.recorded =>
                 r.status = IF r.allowed \/ r.shadowed THEN "RETRYING" ELSE "FAILED"
    BY <1>1, ResolveRetryDecisionType
  <2> QED
    BY <2>1, <2>2
<1>6. /\ row' = newRow /\ audit' = AuditDecision(audit, dec) /\ Become(w, ok)
      /\ queue' = queue /\ sent' = sent
  <2>1. Commit(w, outcome, newRow, AuditDecision(audit, dec), ok, f)
    BY <1>1 DEF RecordErrorStatus, Delivery
  <2> HIDE DEF d, dec, ok, f, newRow
  <2> QED
    BY <2>1, CalmCommit
<1> HIDE DEF dec
<1>7. t \in Row
  BY <1>1, <1>4, <1>5, UpdateTaskStatusType DEF Decision
<1>8. newRow \in Row
  BY <1>1, <1>4, <1>7, FlushType
<1>9. memory \in OnErrorAttempt /\ (dec.allowed => memory.number = dec.number)
  <2>1. /\ memory.retries = (IF d.loaded.exists THEN t.retries ELSE -1)
        /\ memory.number = (IF dec.allowed THEN dec.number ELSE d.attempt.number)
        /\ memory.status = dec.status /\ memory.reason = dec.reason
    BY DEF Remember, dec
  <2> HIDE DEF t
  <2>2. /\ memory.retries \in -1 .. MaxRetries
        /\ memory.number \in 0 .. MaxRetries
    BY <1>1, <1>4, <1>5, <1>7, <2>1, MaxRetriesAssumption DEF OnErrorAttempt, Row
  <2> QED
    BY <1>1, <2>1, <2>2 DEF OnErrorAttempt, Decision, Remember, dec
<1> HIDE DEF memory, t, newRow
<1>10. counted \in Nat
  BY <1>1
<1> HIDE DEF counted
<1>11. /\ f \in Delivery /\ f.hook = d.hook /\ f.failed = d.failed /\ f.noResult = d.noResult
       /\ f.shadow = d.shadow /\ f.resent = d.resent /\ f.attempt = memory
       /\ f.decision = dec
  BY <1>1, <1>9, <1>10 DEF Delivery, dec
<1> HIDE DEF f
<1>12. /\ ok \in Delivery /\ ok.hook = "error" /\ ok.resent = 0 /\ ok.failed /\ ~ ok.noResult
       /\ IF dec.allowed
          THEN /\ ok.pc = "requeue" /\ ok.loaded = newRow /\ ok.decision = dec
               /\ ok.attempt.number = dec.number /\ ~ ok.shadow
          ELSE /\ ok.pc = "emit" /\ ok.event = dec.status
               /\ ok.shadow <=> dec.shadowed
  <2>1. CASE dec.allowed
    BY <1>2, <1>3, <1>8, <1>9, <1>11, <2>1 DEF Delivery, PC
  <2>2. CASE ~ dec.allowed
    <3>1. ok = FinishUndispatched(f, dec)
      BY <2>2
    <3> HIDE DEF ok
    <3>2. /\ ok \in Delivery /\ ok.pc = "emit" /\ ok.event = dec.status
          /\ ok.hook = f.hook /\ ok.failed = f.failed /\ ok.noResult = f.noResult
          /\ ok.resent = f.resent
          /\ ok.shadow <=> f.shadow \/ dec.shadowed
      BY <1>1, <1>11, <3>1, FinishUndispatchedFields
    <3> QED
      BY <1>2, <1>3, <1>11, <2>2, <3>2, Zenon
  <2> QED
    BY <2>1, <2>2
<1>13. row' = Flush(row, row, UpdateTaskStatus(row, dec.status, dec.reason))
  BY <1>4, <1>6 DEF newRow, t
<1> HIDE DEF ok
<1>14. \E e \in Delivery :
          /\ Become(w, e)
          /\ e.hook = "error" /\ e.resent = 0 /\ e.failed /\ ~ e.noResult
          /\ IF dec.allowed
             THEN /\ e.pc = "requeue" /\ e.loaded = row' /\ e.decision = dec
                  /\ e.attempt.number = dec.number /\ ~ e.shadow
             ELSE /\ e.pc = "emit" /\ e.event = dec.status
                  /\ e.shadow <=> dec.shadowed
  BY <1>6, <1>12
<1> HIDE DEF d
<1> QED
  BY <1>1, <1>3, <1>4, <1>5, <1>6, <1>13, <1>14 DEF d, dec

\* The decision is the only change of row and audit: an allowed retry has the next number,
\* which no row claims, and a delivery that is about to send it.
LEMMA RecordErrorStatusCalm ==
    ASSUME AuditInv, CalmInv, Calm', NEW w \in Worker, NEW outcome \in Outcome,
           RecordErrorStatus(w, outcome)
    PROVE  CalmInv'
<1> DEFINE d   == worker[w]
           dec == d.decision
           n   == dec.number
           log == IF dec.allowed THEN ReconcilePending(audit) ELSE audit
           result == IF dec.allowed THEN "PENDING"
                     ELSE IF dec.shadowed THEN "SHADOWED" ELSE "BLOCKED"
           last == [number |-> n, result |-> result]
<1>1. /\ d \in Delivery /\ Leads(d) /\ ~ Dispatching(d)
      /\ row.exists => row.status = "RUNNING"
      /\ dec \in Decision /\ dec.number = row.retries + 1
      /\ dec.should <=> row.exists /\ row.retries < MaxRetries
      /\ dec.allowed <=> dec.should /\ gate = "open"
      /\ dec.shadowed <=> dec.should /\ gate = "shadow"
      /\ dec.status = IF dec.allowed \/ dec.shadowed THEN "RETRYING" ELSE "FAILED"
      /\ row' = Flush(row, row, UpdateTaskStatus(row, dec.status, dec.reason))
      /\ audit' = AuditDecision(audit, dec)
      /\ queue' = queue /\ sent' = sent /\ queue = 0
  BY RecordErrorStatusFields
<1>2. PICK e \in Delivery :
         /\ Become(w, e)
         /\ e.hook = "error" /\ e.resent = 0 /\ e.failed /\ ~ e.noResult
         /\ IF dec.allowed
            THEN /\ e.pc = "requeue" /\ e.loaded = row' /\ e.decision = dec
                 /\ e.attempt.number = dec.number /\ ~ e.shadow
            ELSE /\ e.pc = "emit" /\ e.event = dec.status
                 /\ e.shadow <=> dec.shadowed
  BY RecordErrorStatusFields
<1>3. /\ row \in Row /\ audit \in Seq(Attempt) /\ sent \in [Number -> Nat] /\ ClaimsSound
      /\ SentAtMostOnce /\ DispatchedWasSent /\ WriteAheadAudit
  BY CalmFacts DEF AuditInv
<1>4. audit' = IF dec.should THEN Append(log, last) ELSE audit
  BY <1>1 DEF AuditDecision, RecordTaskAttempt
<1> HIDE DEF dec
<1>5. /\ row'.exists = row.exists
      /\ row'.status = IF row.exists THEN dec.status ELSE row.status
      /\ row'.retries = IF row.exists /\ dec.status = "RETRYING" THEN row.retries + 1
                                                                ELSE row.retries
  BY <1>1, <1>3, OwnFlush DEF Decision
\* The delivery.
<1>6. n \in Nat /\ (dec.should => n \in Number)
  BY <1>1, <1>3, MaxRetriesAssumption DEF Row, Number
<1>7. \A m \in Number : sent[m] > 0 => m <= row.retries
  BY <1>3 DEF WriteAheadAudit, ClaimsSound, ClaimedRows, AllClaimed
<1>8. dec.allowed => sent[n] = 0
  BY <1>1, <1>3, <1>6, <1>7 DEF Row
<1>9. Untroubled(e)
  BY <1>1, <1>2 DEF Untroubled, Dispatching
<1>10. LeadSound(e, row', sent')
  BY <1>1, <1>2, <1>5, <1>8 DEF LeadSound, StatusFor
\* The audit.
<1>11. \A i \in DOMAIN audit : audit[i].result # "DISPATCH_FAILED"
  BY <1>1, <1>3 DEF ClaimsSound
<1>12. \A v \in Worker : Dispatching(worker[v]) => worker[v].pc = "mark"
  <2> SUFFICES ASSUME NEW v \in Worker, Dispatching(worker[v]), worker[v].pc # "mark"
               PROVE  FALSE
    OBVIOUS
  <2>1. /\ Untroubled(worker[v]) /\ worker[v].resent \in Nat
        /\ worker[v].pc \in {"requeue", "undispatched"}
    BY CalmFacts DEF Delivery, Untroubled, Dispatching
  <2>2. Leads(worker[v])
    BY <2>1 DEF Untroubled, Leads
  <2>3. v = w
    BY <1>1, <2>2 DEF CalmInv, OneLead
  <2> QED
    BY <1>1, <2>3
<1>13. /\ log \in Seq(Attempt) /\ OnlyGrows(audit, log) /\ DOMAIN log = DOMAIN audit
       /\ \A i \in DOMAIN audit :
             /\ log[i].number = audit[i].number
             /\ Claimed(log[i]) <=> Claimed(audit[i])
             /\ log[i].result # "DISPATCH_FAILED"
             /\ log[i].result = "PENDING" => audit[i].result = "PENDING"
             /\ log[i].result = "DISPATCHED" => sent[audit[i].number] > 0
  <2>1. CASE dec.allowed
    BY <1>11, <1>12, <2>1, ReconciledWasSent
  <2>2. CASE ~ dec.allowed
    BY <1>3, <1>11, <2>2, OnlyGrowsReflexive DEF DispatchedWasSent
  <2> QED
    BY <2>1, <2>2
<1>14. /\ result \in DispatchResult \ {"DISPATCHED", "DISPATCH_FAILED"}
       /\ result = "PENDING" <=> dec.allowed
  BY DEF DispatchResult
<1> HIDE DEF log, result
<1>15. /\ audit' \in Seq(Attempt) /\ OnlyGrows(audit, audit')
       /\ DOMAIN audit' = DOMAIN audit \cup (IF dec.should THEN {Len(audit) + 1} ELSE {})
       /\ \A i \in DOMAIN audit :
             /\ audit'[i].number = audit[i].number
             /\ Claimed(audit'[i]) <=> Claimed(audit[i])
             /\ audit'[i].result # "DISPATCH_FAILED"
             /\ audit'[i].result = "PENDING" => audit[i].result = "PENDING"
             /\ audit'[i].result = "DISPATCHED" => sent[audit[i].number] > 0
       /\ dec.should => audit'[Len(audit) + 1] = last
  <2>1. CASE dec.should
    <3>1. last \in Attempt
      BY <1>6, <1>14, <2>1 DEF Attempt
    <3> HIDE DEF last
    <3>2. /\ audit' = Append(log, last) /\ Len(log) = Len(audit)
      BY <1>3, <1>4, <1>13, <2>1
    <3>3. audit' \in Seq(Attempt) /\ OnlyGrows(log, audit')
      BY <1>13, <3>1, <3>2 DEF OnlyGrows
    <3>4. OnlyGrows(audit, audit')
      BY <1>3, <1>13, <3>3, OnlyGrowsTransitive
    <3>5. /\ DOMAIN audit' = DOMAIN audit \cup {Len(audit) + 1}
          /\ \A i \in DOMAIN audit : audit'[i] = log[i]
          /\ audit'[Len(audit) + 1] = last
      BY <1>3, <1>13, <3>1, <3>2
    <3> QED
      BY <1>13, <2>1, <3>3, <3>4, <3>5
  <2>2. CASE ~ dec.should
    <3>1. audit' = audit /\ log = audit
      BY <1>1, <1>4, <2>2 DEF log
    <3> QED
      BY <1>3, <1>13, <2>2, <3>1
  <2> QED
    BY <2>1, <2>2
<1>16. Len(audit) + 1 \notin DOMAIN audit /\ Len(audit) \in Nat
  BY <1>3
<1>17. AllClaimed(audit') = AllClaimed(audit) \cup (IF dec.allowed THEN {Len(audit) + 1} ELSE {})
  <2>1. Claimed(last) <=> dec.allowed
    BY <1>14 DEF Claimed
  <2> HIDE DEF last
  <2> QED
    BY <1>1, <1>15, <1>16, <2>1 DEF AllClaimed
<1>18. ASSUME NEW i \in PendingRows(audit')
       PROVE  PendingExplained(i)'
  <2>1. CASE i \in DOMAIN audit
    <3>1. i \in PendingRows(audit)
      BY <1>15, <1>18, <2>1 DEF PendingRows
    <3> QED
      BY <1>1, <1>2, <1>15, <3>1, StillExplained
  <2>2. CASE i \notin DOMAIN audit
    <3>1. dec.should /\ i = Len(audit) + 1 /\ audit'[i] = last
      BY <1>15, <1>18, <2>2 DEF PendingRows
    <3>2. dec.allowed /\ audit'[i].number = n
      BY <1>14, <1>18, <3>1 DEF PendingRows
    <3>3. worker'[w] = e
      BY <1>2 DEF Become, AuditInv, TypeOK
    <3>4. Dispatching(worker'[w]) /\ worker'[w].decision.number = audit'[i].number
      BY <1>2, <3>2, <3>3 DEF Dispatching
    <3> QED
      BY <3>4 DEF PendingExplained, Dispatching
  <2> QED
    BY <2>1, <2>2
<1>19. ASSUME NEW i \in AllClaimed(audit')
       PROVE  /\ audit'[i].number <= row'.retries
              /\ \A j \in AllClaimed(audit') : audit'[j].number = audit'[i].number => j = i
  <2>1. \A j \in AllClaimed(audit) :
           /\ audit'[j].number = audit[j].number /\ audit[j].number <= row.retries
           /\ audit[j].number \in Nat
    <3>1. ASSUME NEW j \in AllClaimed(audit)
          PROVE  audit[j].number \in Nat
      <4>1. audit[j] \in Attempt
        BY <1>3 DEF AllClaimed
      <4> QED
        BY <4>1, MaxRetriesAssumption DEF Attempt, Number
    <3> QED
      BY <1>3, <1>15, <3>1 DEF AllClaimed, ClaimsSound
  <2>2. dec.allowed => audit'[Len(audit) + 1].number = n /\ n = row.retries + 1
    BY <1>1, <1>15
  <2>3. /\ row.retries \in Nat /\ row'.retries \in Nat /\ row.retries <= row'.retries
        /\ dec.allowed => row'.retries = n
    BY <1>1, <1>3, <1>5, MaxRetriesAssumption DEF Row
  <2>4. \A j, k \in AllClaimed(audit) : audit[j].number = audit[k].number => j = k
    BY <1>3 DEF ClaimsSound
  <2> HIDE DEF n, last
  <2> QED
    BY <1>6, <1>17, <2>1, <2>2, <2>3, <2>4
<1>20. ClaimsSound'
  <2>1. \A i \in DOMAIN audit' : audit'[i].result # "DISPATCH_FAILED"
    BY <1>14, <1>15
  <2>2. \A v \in Worker : worker'[v].pc = "mark" => sent'[worker'[v].decision.number] > 0
    BY <1>1, <1>2, StillSent
  <2> QED
    BY <1>18, <1>19, <2>1, <2>2 DEF ClaimsSound
<1>21. DispatchedWasSent' /\ SentAtMostOnce'
  <2>1. SentAtMostOnce'
    BY <1>1, <1>3 DEF SentAtMostOnce
  <2>2. DispatchedWasSent'
    BY <1>1, <1>14, <1>15 DEF DispatchedWasSent
  <2> QED
    BY <2>1, <2>2
<1>22. queue' \in 0 .. 1 /\ ~ (queue' > 0) /\ ~ (queue' > queue) /\ queue' = 0
  BY <1>1
<1> HIDE DEF n, last
<1> QED
  BY <1>1, <1>2, <1>9, <1>10, <1>20, <1>21, <1>22, CalmFrame

\* While all is calm, every step keeps CalmInv.
LEMMA NextKeepsCalm ==
    ASSUME AuditInv, CalmInv, [Next]_vars, Calm'
    PROVE  CalmInv'
<1>1. CASE UNCHANGED vars
  <2>1. UNCHANGED <<row, audit, queue, worker, sent>>
    BY <1>1 DEF vars
  <2> QED
    BY <2>1 DEF CalmInv, OneLead, ClaimsSound, SentAtMostOnce, DispatchedWasSent,
                AllClaimed, PendingRows, PendingExplained
<1>2. ASSUME NEW w \in Worker, Receive(w)
      PROVE  CalmInv'
  BY <1>2, ReceiveCalm
<1>3. ASSUME NEW w \in Worker, Emit(w)
      PROVE  CalmInv'
  BY <1>3, HooksCalm
<1>4. ASSUME NEW w \in Worker, Work(w)
      PROVE  CalmInv'
  <2>1. ~ (LoadFails(w) \/ UnretriedError(w) \/ RequeueUnconfirmed(w))
    BY NoFailure
  <2>2. CASE Load(w) \/ PostExecuteSkips(w)
    BY <2>2, HooksCalm
  <2>3. CASE OnErrorLoad(w) \/ RecoverDispatch(w)
    BY <2>3, OnErrorLoadCalm
  <2>4. CASE RunTask(w) \/ SaveAndAck(w) \/ GiveBack(w)
    BY <2>4, ReceiverCalm
  <2>5. CASE RequeueSent(w)
    BY <2>5, RequeueSentCalm
  <2>6. CASE RequeueRefused(w)
    BY <2>6, RequeueRefusedCalm
  <2>7. ASSUME NEW outcome \in Outcome, PreExecute(w, outcome) \/ PostExecute(w, outcome)
        PROVE  CalmInv'
    BY <2>7, SetStatusCalm
  <2>8. ASSUME NEW outcome \in Outcome, RecordErrorStatus(w, outcome)
        PROVE  CalmInv'
    BY <2>8, RecordErrorStatusCalm
  <2>9. ASSUME NEW outcome \in Outcome, MarkDispatched(w, outcome)
        PROVE  CalmInv'
    BY <2>9, MarkDispatchedCalm
  <2>10. ASSUME NEW outcome \in Outcome, RetryDispatchFailed(w, outcome)
         PROVE  CalmInv'
    BY <2>10, RetryDispatchFailedCalm
  <2> QED
    BY <1>4, <2>1, <2>2, <2>3, <2>4, <2>5, <2>6, <2>7, <2>8, <2>9, <2>10 DEF Work
<1> QED
  <2>1. \A w \in Worker : ~ Crash(w) /\ ~ ChannelLost(w)
    BY NoFailure
  <2> QED
    BY <1>1, <1>2, <1>3, <1>4, <2>1 DEF Next, Step

\* The task's first message, with or without its row.
LEMMA InitCalm ==
    ASSUME Init
    PROVE  CalmInv
<1>1. /\ audit = << >> /\ queue = 1 /\ row \in {NewRow, NoRow}
      /\ \A w \in Worker : worker[w] = Idle
      /\ \A n \in Number : sent[n] = 0
  BY DEF Init, Fresh
<1>2. \A w \in Worker : worker[w].pc = "idle" /\ Untroubled(worker[w]) /\ ~ Leads(worker[w])
  BY <1>1 DEF Idle, Untroubled, Leads, Dispatching
<1>3. row.exists => row.status = "PENDING"
  BY <1>1 DEF NewRow, NoRow
<1>4. ClaimsSound /\ DispatchedWasSent /\ SentAtMostOnce
  BY <1>1, <1>2 DEF ClaimsSound, DispatchedWasSent, SentAtMostOnce, AllClaimed, PendingRows
<1> QED
  BY <1>1, <1>2, <1>3, <1>4 DEF CalmInv, OneLead

\* While nothing fails but sends that the broker refuses, one delivery at a time has the
\* task, and each retry is claimed once, sent once and accounted for.
THEOREM NominalInvariant == Spec => []NominalInv
<1>1. Init => NominalInv
  BY InitCalm, InitAudit DEF NominalInv
<1>2. AuditInv /\ NominalInv /\ [Next]_vars /\ AuditInv' => NominalInv'
  <2> SUFFICES ASSUME AuditInv, NominalInv, [Next]_vars, AuditInv', Calm'
               PROVE  CalmInv'
    BY DEF NominalInv
  <2>1. Calm
    BY CalmBefore
  <2> QED
    BY <2>1, NextKeepsCalm DEF NominalInv
<1> QED
  BY <1>1, <1>2, AuditInvariant, PTL DEF Spec

(***************************************************************************)
(* What the observers see of a step                                        *)
(***************************************************************************)

\* Only the emit leaves the end of a hook.
LEMMA NotEmitting ==
    ASSUME NEW w, Receive(w) \/ Work(w)
    PROVE  worker[w].pc # "emit"
<1>1. ASSUME NEW outcome,
             \/ PreExecute(w, outcome) \/ RecordErrorStatus(w, outcome)
             \/ MarkDispatched(w, outcome) \/ RetryDispatchFailed(w, outcome)
             \/ PostExecute(w, outcome)
      PROVE  worker[w].pc \in {"write", "mark", "undispatched"}
  <2>1. MarkDispatched(w, outcome) => worker[w].pc = "mark"
    BY DEF MarkDispatched
  <2>2. RetryDispatchFailed(w, outcome) => worker[w].pc = "undispatched"
    BY DEF RetryDispatchFailed
  <2> QED
    BY <1>1, <2>1, <2>2 DEF PreExecute, RecordErrorStatus, PostExecute, At
<1> QED
  BY <1>1 DEF Work, Receive, LoadFails, UnretriedError, Load, OnErrorLoad, RecoverDispatch,
              RequeueSent, RequeueRefused, RequeueUnconfirmed, PostExecuteSkips, RunTask,
              SaveAndAck, GiveBack, At

\* Of an existing row: a step that writes it leaves its delivery about to announce the
\* status written, or to send the retry; any other leaves nothing new to announce but that
\* a retry was sent.
LEMMA CalmMoves ==
    ASSUME AuditInv, CalmInv, Calm', row.exists, NEW w \in Worker, Receive(w) \/ Work(w)
    PROVE  /\ worker[w].pc # "emit"
           /\ \E e \in Delivery :
                 /\ Become(w, e)
                 /\ \/ row' = row /\ ~ (e.pc = "emit" /\ e.resent = 0)
                    \/ /\ Leads(worker[w]) /\ row.status # "COMPLETED"
                       /\ \/ e.pc = "requeue" /\ row'.status = "RETRYING"
                          \/ /\ e.pc = "emit" /\ e.resent = 0 /\ e.event = row'.status
                             /\ row'.status = "COMPLETED" <=> e.hook = "post" /\ ~ e.failed
<1> DEFINE d == worker[w]
           Moves(e) ==
              \/ row' = row /\ ~ (e.pc = "emit" /\ e.resent = 0)
              \/ /\ Leads(worker[w]) /\ row.status # "COMPLETED"
                 /\ \/ e.pc = "requeue" /\ row'.status = "RETRYING"
                    \/ /\ e.pc = "emit" /\ e.resent = 0 /\ e.event = row'.status
                       /\ row'.status = "COMPLETED" <=> e.hook = "post" /\ ~ e.failed
<1>1. /\ d \in Delivery /\ d.resent \in Nat /\ Untroubled(d) /\ row \in Row /\ gate \in Gate
      /\ d.attempt \in OnErrorAttempt
      /\ Leads(d) => LeadSound(d, row, sent)
  BY CalmFacts DEF Delivery
<1>2. d.pc # "emit"
  BY NotEmitting
<1> SUFFICES \E e \in Delivery : Become(w, e) /\ Moves(e)
  BY <1>2
<1>3. ASSUME NEW outcome \in Outcome, PreExecute(w, outcome) \/ PostExecute(w, outcome)
      PROVE  \E e \in Delivery : Become(w, e) /\ Moves(e)
  <2> DEFINE status == IF d.hook = "pre" THEN "RUNNING"
                       ELSE IF d.failed THEN "FAILED" ELSE "COMPLETED"
  <2>1. /\ d.pc = "write" /\ d.hook \in {"pre", "post"} /\ ~ d.shadow /\ Leads(d)
        /\ row.status \in StatusFor(d) /\ row'.status = status
    BY <1>3, SetStatusFields
  <2>2. PICK e \in Delivery :
           /\ Become(w, e)
           /\ e.pc = "emit" /\ e.event = status
           /\ e.hook = d.hook /\ e.failed = d.failed /\ e.resent = 0
    BY <1>3, SetStatusFields
  <2>3. row.status # "COMPLETED"
    BY <2>1 DEF StatusFor
  <2>4. d.failed \in BOOLEAN
    BY <1>1 DEF Delivery
  <2> QED
    BY <2>1, <2>2, <2>3, <2>4
<1>4. ASSUME NEW outcome \in Outcome, RecordErrorStatus(w, outcome)
      PROVE  \E e \in Delivery : Become(w, e) /\ Moves(e)
  <2> DEFINE dec == d.decision
  <2>1. /\ row.status = "RUNNING" /\ dec \in Decision /\ Leads(d)
        /\ dec.status = IF dec.allowed \/ dec.shadowed THEN "RETRYING" ELSE "FAILED"
        /\ dec.should <=> row.exists /\ row.retries < MaxRetries
        /\ dec.allowed <=> dec.should /\ gate = "open"
        /\ dec.shadowed <=> dec.should /\ gate = "shadow"
        /\ row' = Flush(row, row, UpdateTaskStatus(row, dec.status, dec.reason))
    BY <1>4, RecordErrorStatusFields
  <2>2. PICK e \in Delivery :
           /\ Become(w, e) /\ e.hook = "error" /\ e.resent = 0
           /\ IF dec.allowed THEN e.pc = "requeue" ELSE e.pc = "emit" /\ e.event = dec.status
    BY <1>4, RecordErrorStatusFields
  <2>3. /\ dec.status \in Status /\ dec.reason \in Reason
        /\ dec.status \in {"RETRYING", "FAILED"}
        /\ dec.status = "RETRYING" => row.retries < MaxRetries
        /\ dec.allowed => dec.status = "RETRYING"
    BY <2>1 DEF Decision
  <2> HIDE DEF dec
  <2>4. row'.status = dec.status
    BY <1>1, <2>1, <2>3, OwnFlush
  <2> QED
    BY <2>1, <2>2, <2>3, <2>4
<1>5. ASSUME NEW outcome \in Outcome, RetryDispatchFailed(w, outcome)
      PROVE  \E e \in Delivery : Become(w, e) /\ Moves(e)
  <2>1. row.status = "RETRYING" /\ row'.status = "FAILED" /\ Leads(d)
    BY <1>5, RetryDispatchFailedFields
  <2>2. PICK e \in Delivery :
           /\ Become(w, e)
           /\ e.pc = "emit" /\ e.event = "FAILED" /\ e.hook = "error" /\ e.resent = 0
    BY <1>5, RetryDispatchFailedFields
  <2> QED
    BY <2>1, <2>2
<1>6. ASSUME NEW outcome \in Outcome, MarkDispatched(w, outcome)
      PROVE  \E e \in Delivery : Become(w, e) /\ Moves(e)
  <2>1. d.pc = "mark" /\ d.resent > 0
    BY <1>1, <1>6 DEF MarkDispatched, Untroubled
  <2>2. PICK e \in Delivery : Become(w, e) /\ e.resent = d.resent
    <3> DEFINE f == [d EXCEPT !.noResult = TRUE]
    <3>1. ClaimedRows(audit, ClaimNumber(d)) # {} /\ d.decision.status \in Status
      BY <1>1, <2>1, OwnNumber DEF Dispatching, Delivery, Decision
    <3>2. Commit(w, outcome, row, MarkTaskAttemptDispatched(audit, ClaimNumber(d)),
                 Finish(f, d.decision.status), d)
      BY <1>6, <3>1 DEF MarkDispatched
    <3>3. Become(w, Finish(f, d.decision.status))
      BY <3>2, CalmCommit
    <3>4. f \in Delivery /\ f.resent = d.resent
      BY <1>1 DEF Delivery
    <3> HIDE DEF f
    <3>5. /\ Finish(f, d.decision.status) \in Delivery
          /\ Finish(f, d.decision.status).resent = d.resent
      BY <3>1, <3>4, FinishFields
    <3> QED
      BY <3>3, <3>5
  <2>3. row' = row
    BY <1>6 DEF MarkDispatched, Commit
  <2> QED
    BY <1>1, <2>1, <2>2, <2>3
<1>7. CASE OnErrorLoad(w) \/ RecoverDispatch(w)
  <2>1. \E e \in Delivery : Become(w, e) /\ e.pc = "write"
    BY <1>7, OnErrorLoadFields
  <2> QED
    BY <1>7, <2>1 DEF OnErrorLoad, RecoverDispatch
<1>8. CASE \/ Receive(w) \/ RunTask(w) \/ SaveAndAck(w) \/ GiveBack(w)
           \/ Load(w) \/ PostExecuteSkips(w) \/ RequeueSent(w) \/ RequeueRefused(w)
  <2>1. row' = row
    BY <1>8 DEF Receive, RunTask, SaveAndAck, GiveBack, Load, PostExecuteSkips, RequeueSent,
                RequeueRefused
  <2>2. \E e \in Delivery : Become(w, e) /\ e.pc # "emit"
    <3>1. CASE Receive(w)
      <4>1. [Idle EXCEPT !.held = TRUE] \in Delivery /\ "pre" \in Hook
        BY NeutralRecords, Zenon DEF Delivery, Idle, Hook
      <4> QED
        BY <3>1, <4>1, EnterFields DEF Receive
    <3>2. CASE RunTask(w)
      <4>1. PICK erred \in BOOLEAN :
              Become(w, Enter([d EXCEPT !.failed = erred], IF erred THEN "error" ELSE "post"))
        BY <3>2 DEF RunTask
      <4> DEFINE f == [d EXCEPT !.failed = erred]
                 hook == IF erred THEN "error" ELSE "post"
      <4>2. f \in Delivery /\ hook \in Hook /\ Become(w, Enter(f, hook))
        BY <1>1, <4>1 DEF Delivery, Hook
      <4> HIDE DEF f, hook
      <4>3. Enter(f, hook) \in Delivery /\ Enter(f, hook).pc = "load"
        BY <4>2, EnterFields
      <4> QED
        BY <4>2, <4>3
    <3>3. CASE SaveAndAck(w) \/ GiveBack(w)
      BY <3>3, NeutralRecords DEF SaveAndAck, GiveBack, Idle
    <3>4. CASE Load(w)
      <4> DEFINE e == [d EXCEPT !.pc = "write", !.loaded = row]
      <4>1. e \in Delivery /\ e.pc = "write"
        BY <1>1 DEF Delivery, PC
      <4>2. Become(w, e)
        BY <3>4 DEF Load
      <4> HIDE DEF e
      <4> QED
        BY <4>1, <4>2
    <3>5. CASE PostExecuteSkips(w) \/ RequeueRefused(w)
      BY <1>1, <3>5 DEF PostExecuteSkips, RequeueRefused, Delivery, PC
    <3>6. CASE RequeueSent(w)
      <4> DEFINE more == d.resent + 1
      <4>1. more \in Nat /\ Become(w, [d EXCEPT !.pc = "mark", !.resent = more])
        BY <1>1, <3>6 DEF RequeueSent, Delivery
      <4> HIDE DEF more
      <4>2. [d EXCEPT !.pc = "mark", !.resent = more] \in Delivery
        BY <1>1, <4>1 DEF Delivery, PC
      <4>3. [d EXCEPT !.pc = "mark", !.resent = more].pc = "mark"
        BY <1>1 DEF Delivery
      <4> QED
        BY <4>1, <4>2, <4>3
    <3> QED
      BY <1>8, <3>1, <3>2, <3>3, <3>4, <3>5, <3>6
  <2> QED
    BY <2>1, <2>2
<1>9. ~ (LoadFails(w) \/ UnretriedError(w) \/ RequeueUnconfirmed(w))
  BY NoFailure
<1> QED
  BY <1>3, <1>4, <1>5, <1>6, <1>7, <1>8, <1>9 DEF Work

(***************************************************************************)
(* What follows                                                            *)
(***************************************************************************)

\* While nothing fails but sends that the broker refuses, _requeue sends each retry once at
\* most, although the retried delivery overlaps the end of the one that sent it.
THEOREM NoSecondSend == Spec => [](Calm => SentAtMostOnce)
<1>1. NominalInv => (Calm => SentAtMostOnce)
  BY DEF NominalInv, CalmInv
<1> QED
  BY <1>1, NominalInvariant, PTL

\* Meanwhile a row says DISPATCHED, whether its own delivery marked it or a later decision
\* reconciled it, only of a retry that was sent.
THEOREM NoPhantomDispatch == Spec => [](Calm => DispatchedWasSent)
<1>1. NominalInv => (Calm => DispatchedWasSent)
  BY DEF NominalInv, CalmInv
<1> QED
  BY <1>1, NominalInvariant, PTL

\* Meanwhile, when the last delivery is over, a row still says PENDING only of a retry
\* whose send failed, and the audit table says so.
THEOREM AuditSettles == Spec => [](Calm => SettledAudit)
<1>1. NominalInv /\ Calm => SettledAudit
  <2> SUFFICES ASSUME CalmInv, Settled, NEW i \in PendingRows(audit)
               PROVE  \E j \in DOMAIN audit : /\ j > i
                                              /\ audit[j].number = audit[i].number
                                              /\ audit[j].result = "DISPATCH_FAILED"
    BY DEF NominalInv, SettledAudit
  <2>1. PendingExplained(i)
    BY DEF CalmInv, ClaimsSound
  <2>2. \A w \in Worker : ~ Dispatching(worker[w])
    BY DEF Settled, Dispatching
  <2> QED
    BY <2>1, <2>2 DEF PendingExplained
<1> QED
  BY <1>1, NominalInvariant, PTL

\* The steps that write the row: pre_execute starts it, post_execute completes it or finds
\* it failed, on_error retries or fails it, and a failed dispatch fails it.
LEMMA LifecycleStep ==
    ASSUME AuditInv, CalmInv, [Next]_vars, Calm'
    PROVE  [Lifecycle!Next]_<<row.status, row.retries>>
<1> DEFINE Goal == [Lifecycle!Next]_<<row.status, row.retries>>
<1>1. row' = row => Goal
  OBVIOUS
<1>2. ASSUME NEW w \in Worker, NEW outcome \in Outcome,
             PreExecute(w, outcome) \/ PostExecute(w, outcome), row' # row
      PROVE  Goal
  <2> DEFINE d == worker[w]
             status == IF d.hook = "pre" THEN "RUNNING"
                       ELSE IF d.failed THEN "FAILED" ELSE "COMPLETED"
  <2>1. /\ d.pc = "write" /\ d.hook \in {"pre", "post"} /\ ~ d.shadow
        /\ row.status \in StatusFor(d) /\ row'.status = status
        /\ row'.retries = row.retries
    BY <1>2, SetStatusFields
  <2>2. CASE d.hook = "pre"
    <3>1. row.status \in {"PENDING", "RETRYING"} /\ row'.status = "RUNNING"
      BY <2>1, <2>2 DEF StatusFor
    <3> QED
      BY <2>1, <3>1 DEF Lifecycle!Next, Lifecycle!Start
  <2>3. CASE d.hook = "post" /\ ~ d.failed
    <3>1. row.status = "RUNNING" /\ row'.status = "COMPLETED"
      BY <2>1, <2>3 DEF StatusFor
    <3> QED
      BY <2>1, <3>1 DEF Lifecycle!Next, Lifecycle!Complete
  <2>4. CASE d.hook = "post" /\ d.failed
    <3>1. row.status = "FAILED" /\ row'.status = "FAILED"
      BY <2>1, <2>4 DEF StatusFor
    <3> QED
      BY <2>1, <3>1
  <2> QED
    BY <2>1, <2>2, <2>3, <2>4
<1>3. ASSUME NEW w \in Worker, NEW outcome \in Outcome, RecordErrorStatus(w, outcome)
      PROVE  Goal
  <2> DEFINE dec == worker[w].decision
  <2>1. /\ row.exists => row.status = "RUNNING"
        /\ dec \in Decision
        /\ dec.should <=> row.exists /\ row.retries < MaxRetries
        /\ dec.allowed <=> dec.should /\ gate = "open"
        /\ dec.shadowed <=> dec.should /\ gate = "shadow"
        /\ dec.status = IF dec.allowed \/ dec.shadowed THEN "RETRYING" ELSE "FAILED"
        /\ row' = Flush(row, row, UpdateTaskStatus(row, dec.status, dec.reason))
    BY <1>3, RecordErrorStatusFields
  <2>2. /\ row \in Row /\ dec.status \in Status /\ dec.reason \in Reason
        /\ dec.status \in {"RETRYING", "FAILED"}
        /\ dec.status = "RETRYING" => row.exists /\ row.retries < MaxRetries
    BY <1>3, <2>1, CalmFacts DEF Decision
  <2> HIDE DEF dec
  <2>3. /\ row'.status = IF row.exists THEN dec.status ELSE row.status
        /\ row'.retries = IF row.exists /\ dec.status = "RETRYING" THEN row.retries + 1
                                                                  ELSE row.retries
        /\ ~ row.exists => row' = row
    BY <2>1, <2>2, OwnFlush
  <2>4. CASE ~ row.exists
    BY <1>1, <2>3, <2>4
  <2>5. CASE row.exists /\ dec.status = "RETRYING"
    BY <2>1, <2>2, <2>3, <2>5 DEF Lifecycle!Next, Lifecycle!Retry
  <2>6. CASE row.exists /\ dec.status = "FAILED"
    BY <2>1, <2>3, <2>6 DEF Lifecycle!Next, Lifecycle!Fail
  <2> QED
    BY <2>2, <2>4, <2>5, <2>6
<1>4. ASSUME NEW w \in Worker, NEW outcome \in Outcome, RetryDispatchFailed(w, outcome)
      PROVE  Goal
  <2>1. row.status = "RETRYING" /\ row'.status = "FAILED" /\ row'.retries = row.retries
    BY <1>4, RetryDispatchFailedFields
  <2> QED
    BY <2>1 DEF Lifecycle!Next, Lifecycle!Fail
<1>5. ASSUME NEW w \in Worker, NEW outcome \in Outcome, MarkDispatched(w, outcome)
      PROVE  row' = row
  BY <1>5 DEF MarkDispatched, Commit
<1>6. ASSUME NEW w \in Worker,
             \/ Receive(w) \/ Emit(w) \/ Crash(w) \/ ChannelLost(w)
             \/ LoadFails(w) \/ UnretriedError(w) \/ Load(w) \/ OnErrorLoad(w)
             \/ RecoverDispatch(w) \/ RequeueSent(w) \/ RequeueRefused(w)
             \/ RequeueUnconfirmed(w) \/ PostExecuteSkips(w) \/ RunTask(w)
             \/ SaveAndAck(w) \/ GiveBack(w)
      PROVE  row' = row
  BY <1>6 DEF Receive, Emit, Crash, ChannelLost, LoadFails, UnretriedError, Load, OnErrorLoad,
              RecoverDispatch, RequeueSent, RequeueRefused, RequeueUnconfirmed,
              PostExecuteSkips, RunTask, SaveAndAck, GiveBack
<1>7. CASE UNCHANGED vars
  BY <1>1, <1>7 DEF vars
<1> HIDE DEF Goal
<1>8. Next => Goal
  BY <1>1, <1>2, <1>3, <1>4, <1>5, <1>6 DEF Next, Step, Work
<1> QED
  BY <1>7, <1>8 DEF Goal

\* While nothing fails but sends that the broker refuses, the hooks of all deliveries take
\* the row through the documented state machine: each step that an observer of the row
\* sees is one of TaskLifecycle.
THEOREM RowKeepsLifecycle == Spec /\ []Calm => LifecycleSpec
<1>1. Init => Lifecycle!Init
  BY DEF Init, Lifecycle!Init, NewRow, NoRow
<1>2. AuditInv /\ NominalInv /\ Calm /\ Calm' /\ [Next]_vars
         => [Lifecycle!Next]_<<row.status, row.retries>>
  BY LifecycleStep DEF NominalInv
<1>3. <<row.status, row.retries>> = Lifecycle!lifecycle
  BY DEF Lifecycle!lifecycle
<1> QED
  BY <1>1, <1>2, AuditInvariant, NominalInvariant, PTL
  DEF Spec, LifecycleSpec, Lifecycle!Spec, Lifecycle!lifecycle

(***************************************************************************)
(* The marker of a sent retry: crashes and lost channels do not disturb it *)
(***************************************************************************)

\* A delivery that handed a retry to the broker is about to mark it or carries the marker
\* that keeps it out of post_execute.
KeepsOut(d) ==
    /\ d.resent > 0 => d.pc = "mark" \/ d.noResult
    /\ d.pc = "write" /\ d.hook = "post" => ~ d.noResult

MarkerInv == faults.db = 0 => \A w \in Worker : KeepsOut(worker[w])

\* Only a failed commit of the mark takes a delivery that sent a retry out of its hook
\* without the marker.
LEMMA KeepsOutStep ==
    ASSUME NEW d \in Delivery, NEW e \in Delivery, Goes(d, e),
           faults \in FaultCounts, faults'.db = 0, faults.db = 0 => KeepsOut(d)
    PROVE  KeepsOut(e)
<1> USE DEF KeepsOut
<1>1. d.resent \in Nat /\ faults.db \in Nat
  BY DEF Delivery, FaultCounts
<1>2. CASE Received(d, e) \/ Saved(d, e) \/ WasReturned(d, e)
  BY <1>2 DEF Received, Saved, WasReturned, Idle
<1>3. CASE Ran(d, e) \/ Emitted(d, e)
  BY <1>3 DEF Ran, Emitted, Marks
<1>4. CASE SessionFailed(d, e)
  BY <1>1, <1>4 DEF SessionFailed, FaultCounts
<1>5. CASE LostChannel(d, e)
  BY <1>5 DEF LostChannel, Delivery, FaultCounts
<1>6. CASE Loaded(d, e) \/ Skipped(d, e) \/ Recovered(d, e)
  BY <1>6 DEF Loaded, Skipped, Recovered, Steady, Within, Marks
<1>7. CASE Decided(d, e)
  BY <1>7 DEF Decided, Within
<1>8. CASE WasSent(d, e) \/ WasRefused(d, e)
  BY <1>1, <1>8 DEF WasSent, WasRefused, Steady, Marks, FaultCounts
<1>9. ASSUME NEW outcome \in Outcome,
             \/ Wrote(d, e, outcome) \/ Recorded(d, e, outcome)
             \/ Marked(d, e, outcome) \/ GaveUp(d, e, outcome)
      PROVE  KeepsOut(e)
  <2>1. outcome = "committed" /\ faults' = faults
    BY <1>1, <1>9 DEF Wrote, Recorded, Marked, GaveUp, Commits, FaultCounts
  <2> QED
    BY <1>9, <2>1 DEF Wrote, Recorded, Marked, GaveUp, Leaves, Steady, Marks
<1> QED
  BY <1>2, <1>3, <1>4, <1>5, <1>6, <1>7, <1>8, <1>9 DEF Goes

\* With no failing database operation, whoever dies or loses its channel, post_execute
\* never writes over a row whose retry its own on_error handed to the broker.
THEOREM SentRetriesAreKept == Spec => [](faults.db = 0 => SentRetryKept)
<1>1. Init => MarkerInv
  BY DEF Init, Fresh, MarkerInv, KeepsOut, Idle
<1>2. AuditInv /\ MarkerInv /\ [Next]_vars => MarkerInv'
  <2> SUFFICES ASSUME AuditInv, MarkerInv, [Next]_vars, faults'.db = 0, NEW v \in Worker
               PROVE  KeepsOut(worker'[v])
    BY DEF MarkerInv
  <2>1. CASE Next
    <3>1. PICK w \in Worker : /\ Others(w) /\ Goes(worker[w], worker'[w])
                              /\ worker[w] \in Delivery /\ worker'[w] \in Delivery
      BY <2>1, NextGoes
    <3>2. faults \in FaultCounts
      BY DEF AuditInv, TypeOK
    <3>3. KeepsOut(worker'[w])
      BY <3>1, <3>2, KeepsOutStep DEF MarkerInv
    <3>4. faults.db = 0
      BY <3>1, <3>2, FaultsOnlyGrow DEF FaultCounts
    <3> QED
      BY <3>1, <3>3, <3>4 DEF Others, MarkerInv
  <2>2. CASE UNCHANGED vars
    BY <2>2 DEF vars, MarkerInv
  <2> QED
    BY <2>1, <2>2
<1>3. AuditInv /\ MarkerInv => (faults.db = 0 => SentRetryKept)
  <2> SUFFICES ASSUME AuditInv, MarkerInv, faults.db = 0, NEW w \in Worker,
                      At(w, "write", "post")
               PROVE  worker[w].resent = 0
    BY DEF SentRetryKept
  <2>1. worker[w].resent \in Nat
    BY InvFacts DEF Delivery
  <2> QED
    BY <2>1 DEF MarkerInv, KeepsOut, At
<1> QED
  BY <1>1, <1>2, <1>3, AuditInvariant, PTL DEF Spec

\* While nothing fails but sends that the broker refuses, retry_count never goes back,
\* although the retried delivery overlaps the end of the one that sent it.
THEOREM CountGrowsWhileCalm == Spec => [][Calm' => row'.retries >= row.retries]_vars
<1>1. AuditInv /\ NominalInv /\ [Next]_vars => (Calm' => row'.retries >= row.retries)
  <2> SUFFICES ASSUME AuditInv, NominalInv, [Next]_vars, Calm'
               PROVE  row'.retries >= row.retries
    OBVIOUS
  <2>1. Calm
    BY CalmBefore
  <2>2. [Lifecycle!Next]_<<row.status, row.retries>>
    BY <2>1, LifecycleStep DEF NominalInv
  <2>3. row.retries \in Int
    BY DEF AuditInv, TypeOK, Row
  <2> QED
    BY <2>2, <2>3
    DEF Lifecycle!Next, Lifecycle!Start, Lifecycle!Complete, Lifecycle!Fail, Lifecycle!Retry
<1> QED
  BY <1>1, AuditInvariant, NominalInvariant, PTL DEF Spec

(***************************************************************************)
(* One delivery at a time                                                  *)
(***************************************************************************)

\* What a delivery loaded is what is there.
LoadedIsCurrent(d, t) ==
    d.pc \in {"write", "lookup", "requeue", "undispatched"} => d.loaded = t

\* What on_error counted its replay recognises in the row t.
Recognises(d, t) ==
    /\ d.counted <= 1
    /\ d.hook = "pre" \/ d.pc = "run" => d.counted = 0
    /\ d.hook = "error" /\ d.pc \in {"load", "lookup", "write", "requeue", "mark"}
       /\ d.counted > 0 => RetryAlreadyRecorded(t, d.attempt)
    /\ d.pc # "undispatched"

AloneInv ==
    /\ \A w \in Worker : LoadedIsCurrent(worker[w], row)
    /\ faults.send = 0 /\ faults.unconfirmed = 0 =>
          \A w \in Worker : Recognises(worker[w], row)

\* The row is as its only delivery loaded it.
LEMMA AloneStepRow ==
    ASSUME AuditInv, NEW w \in Worker, Goes(worker[w], worker'[w]),
           worker'[w] \in Delivery, LoadedIsCurrent(worker[w], row)
    PROVE  LoadedIsCurrent(worker'[w], row')
<1> DEFINE d == worker[w]
           e == worker'[w]
<1>1. d \in Delivery
  BY InvFacts
<1> USE DEF LoadedIsCurrent
<1>2. CASE \/ Received(d, e) \/ Ran(d, e) \/ Saved(d, e) \/ WasReturned(d, e)
           \/ SessionFailed(d, e) \/ Skipped(d, e) \/ Emitted(d, e)
  BY <1>1, <1>2
  DEF Received, Ran, Saved, WasReturned, SessionFailed, Skipped, Emitted, Idle
<1>3. CASE LostChannel(d, e)
  BY <1>1, <1>3 DEF LostChannel, Delivery
<1>4. CASE Loaded(d, e) \/ Decided(d, e)
  BY <1>1, <1>4 DEF Loaded, Decided
<1>5. CASE Recovered(d, e) \/ WasSent(d, e) \/ WasRefused(d, e)
  BY <1>1, <1>5 DEF Recovered, WasSent, WasRefused
<1>6. ASSUME NEW outcome \in Outcome, Marked(d, e, outcome)
      PROVE  LoadedIsCurrent(e, row')
  BY <1>1, <1>6 DEF Marked, Leaves, Commits
<1>7. ASSUME NEW outcome \in Outcome, Wrote(d, e, outcome) \/ GaveUp(d, e, outcome)
      PROVE  LoadedIsCurrent(e, row')
  BY <1>7 DEF Wrote, GaveUp, Leaves
<1>8. ASSUME NEW outcome \in Outcome, Recorded(d, e, outcome)
      PROVE  LoadedIsCurrent(e, row')
  BY <1>8 DEF Recorded, Leaves, Commits, Outcome
<1> QED
  BY <1>2, <1>3, <1>4, <1>5, <1>6, <1>7, <1>8 DEF Goes

\* What on_error remembers of the retry it just counted is what its replay finds.
LEMMA CountedIsRecognised ==
    ASSUME AuditInv, NEW w \in Worker, worker[w].pc = "write", worker[w].hook = "error",
           worker[w].loaded = row, worker[w].decision.status = "RETRYING"
    PROVE  LET d == worker[w]
               t == UpdateTaskStatus(row, d.decision.status, d.decision.reason)
           IN  RetryAlreadyRecorded(Flush(row, row, t), Remember(d, t))
<1> DEFINE d == worker[w]
           t == UpdateTaskStatus(row, d.decision.status, d.decision.reason)
<1>1. row \in Row /\ row.exists
  BY InvFacts, DecisionParts
<1>2. /\ t.exists = row.exists /\ t.status = d.decision.status
      /\ t.reason = d.decision.reason
  BY <1>1 DEF UpdateTaskStatus, Row
<1> HIDE DEF t
<1>3. LET u == Flush(row, row, t)
      IN  /\ u.exists = row.exists /\ u.status = t.status /\ u.reason = t.reason
          /\ u.retries = t.retries
  BY DEF Flush
<1>4. LET m == Remember(d, t)
      IN  /\ m.status = d.decision.status /\ m.reason = d.decision.reason
          /\ m.retries = t.retries
  BY <1>1 DEF Remember
<1> QED
  BY <1>1, <1>2, <1>3, <1>4 DEF RetryAlreadyRecorded, t

LEMMA AloneStepMemory ==
    ASSUME AuditInv, NEW w \in Worker, Goes(worker[w], worker'[w]),
           worker'[w] \in Delivery, LoadedIsCurrent(worker[w], row),
           Recognises(worker[w], row), faults'.send = 0, faults'.unconfirmed = 0
    PROVE  Recognises(worker'[w], row')
<1> DEFINE d == worker[w]
           e == worker'[w]
<1>1. d \in Delivery /\ d.counted \in Nat /\ faults \in FaultCounts
  BY InvFacts DEF Delivery
<1> USE DEF Recognises
<1>2. CASE Received(d, e) \/ Ran(d, e) \/ Saved(d, e) \/ WasReturned(d, e)
  BY <1>2 DEF Received, Ran, Saved, WasReturned, Idle
<1>3. CASE LostChannel(d, e)
  BY <1>1, <1>3 DEF LostChannel, Delivery
<1>4. CASE SessionFailed(d, e)
  BY <1>4 DEF SessionFailed, Steady, Within, Memory
<1>5. CASE Loaded(d, e) \/ Skipped(d, e) \/ Emitted(d, e)
  BY <1>5 DEF Loaded, Skipped, Emitted, Steady, Within, Memory
<1>6. CASE Decided(d, e) \/ Recovered(d, e)
  BY <1>6 DEF Decided, Recovered, Steady, Within, Memory
<1>7. CASE WasSent(d, e) \/ WasRefused(d, e)
  BY <1>1, <1>7 DEF WasSent, WasRefused, Within, Memory, FaultCounts
<1>8. ASSUME NEW outcome \in Outcome,
             Wrote(d, e, outcome) \/ Marked(d, e, outcome) \/ GaveUp(d, e, outcome)
      PROVE  Recognises(e, row')
  BY <1>8 DEF Wrote, Marked, GaveUp, Leaves, Commits, Steady, Within, Memory
<1>9. ASSUME NEW outcome \in Outcome, Recorded(d, e, outcome)
      PROVE  Recognises(e, row')
  <2> DEFINE dec == d.decision
             t == UpdateTaskStatus(row, dec.status, dec.reason)
  <2>1. /\ d.pc = "write" /\ d.hook = "error" /\ d.loaded = row
        /\ e.hook = "error" /\ e.attempt = Remember(d, t)
        /\ e.pc \in {"requeue", "emit", "load", "stuck"}
        /\ e.counted = d.counted + IF dec.status = "RETRYING" /\ outcome # "rolled_back"
                                   THEN 1 ELSE 0
        /\ row' = IF outcome = "rolled_back" THEN row ELSE Flush(row, row, t)
    BY <1>9 DEF Recorded, Leaves, Commits, Within, LoadedIsCurrent
  <2>2. d.counted = 0
    <3>1. ~ dec.recorded /\ dec = ResolveRetryDecision(row, d.attempt, gate)
      BY <2>1, DecisionParts
    <3>2. ~ RetryAlreadyRecorded(row, d.attempt)
      BY <3>1 DEF ResolveRetryDecision
    <3> QED
      BY <1>1, <2>1, <3>2
  <2>3. e.counted = 0 \/ RetryAlreadyRecorded(row', e.attempt)
    BY <2>1, <2>2, CountedIsRecognised
  <2> HIDE DEF dec, t
  <2> QED
    BY <1>1, <2>1, <2>2, <2>3
<1> QED
  BY <1>2, <1>3, <1>4, <1>5, <1>6, <1>7, <1>8, <1>9 DEF Goes

LEMMA NextKeepsAlone ==
    ASSUME AuditInv, OneDelivery, AloneInv, [Next]_vars
    PROVE  AloneInv'
<1>1. CASE UNCHANGED vars
  BY <1>1 DEF vars, AloneInv
<1>2. CASE Next
  <2>1. PICK w \in Worker : /\ Others(w) /\ Goes(worker[w], worker'[w])
                            /\ worker[w] \in Delivery /\ worker'[w] \in Delivery
    BY <1>2, NextGoes
  <2>2. LoadedIsCurrent(worker'[w], row')
    BY <2>1, AloneStepRow DEF AloneInv
  <2>3. row' = row \/ worker[w].pc # "idle"
    <3> DEFINE d == worker[w]
               e == worker'[w]
    <3>1. ASSUME NEW outcome, \/ Wrote(d, e, outcome) \/ Recorded(d, e, outcome)
                              \/ Marked(d, e, outcome) \/ GaveUp(d, e, outcome)
          PROVE  d.pc # "idle"
      BY <3>1 DEF Wrote, Recorded, Marked, GaveUp
    <3>2. \/ row' = row
          \/ \E outcome : \/ Wrote(d, e, outcome) \/ Recorded(d, e, outcome)
                          \/ Marked(d, e, outcome) \/ GaveUp(d, e, outcome)
      BY <2>1 DEF Goes, Received, Ran, Saved, WasReturned, LostChannel, SessionFailed,
           Loaded, Decided, Recovered, WasSent, WasRefused, Skipped, Emitted
    <3> QED
      BY <3>1, <3>2
  <2>4. ASSUME NEW v \in Worker, v # w
        PROVE  worker'[v] = worker[v] /\ (row' = row \/ worker[v].pc = "idle")
    BY <2>1, <2>3, <2>4 DEF Others, OneDelivery
  <2>5. \A v \in Worker : LoadedIsCurrent(worker'[v], row')
    BY <2>2, <2>4 DEF AloneInv, LoadedIsCurrent
  <2>6. ASSUME faults'.send = 0, faults'.unconfirmed = 0
        PROVE  \A v \in Worker : Recognises(worker'[v], row')
    <3>1. faults \in FaultCounts
      BY DEF AuditInv, TypeOK
    <3>2. faults.send = 0 /\ faults.unconfirmed = 0
      BY <2>1, <2>6, <3>1, FaultsOnlyGrow
    <3>3. \A v \in Worker : Recognises(worker[v], row)
      BY <3>2 DEF AloneInv
    <3>4. Recognises(worker'[w], row')
      BY <2>1, <2>6, <3>3, AloneStepMemory DEF AloneInv
    <3> QED
      BY <2>4, <3>3, <3>4 DEF Recognises
  <2> QED
    BY <2>5, <2>6 DEF AloneInv
<1> QED
  BY <1>1, <1>2

LEMMA InitAlone == Init => AloneInv
BY DEF Init, Fresh, AloneInv, LoadedIsCurrent, Recognises, Idle

\* With one delivery at a time, whatever the database, the workers and the channels do,
\* one on_error invocation counts one retry at most: its replay recognises the retry it
\* recorded, unless a failed send made it record a failure after that.
THEOREM ReplayCountsOnce ==
    Spec /\ []OneDelivery
        => [](faults.send = 0 /\ faults.unconfirmed = 0 => CountedOncePerError)
<1>1. AuditInv /\ OneDelivery /\ AloneInv /\ [Next]_vars => AloneInv'
  BY NextKeepsAlone
<1>2. AloneInv => (faults.send = 0 /\ faults.unconfirmed = 0 => CountedOncePerError)
  BY DEF AloneInv, Recognises, CountedOncePerError
<1> QED
  BY <1>1, <1>2, InitAlone, AuditInvariant, PTL DEF Spec
=============================================================================
