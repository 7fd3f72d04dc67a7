------------------------- MODULE TaskRecordsProofs -------------------------
(***************************************************************************)
(* What the operations on the two tables return, for every row, log and    *)
(* retry limit: the facts the proofs about StateTracking rest on.          *)
(***************************************************************************)
EXTENDS TaskRecords, SequenceTheorems, WellFoundedInduction, TLAPS

\* update_task_status keeps a row a row as long as RETRYING is only written below the
\* retry limit, and counts a retry exactly then.
LEMMA UpdateTaskStatusType ==
    ASSUME NEW t \in Row, NEW status \in Status, NEW reason \in Reason,
           status = "RETRYING" => t.retries < MaxRetries
    PROVE  /\ UpdateTaskStatus(t, status, reason) \in Row
           /\ UpdateTaskStatus(t, status, reason).retries =
                 IF t.exists /\ status = "RETRYING" THEN t.retries + 1 ELSE t.retries
<1> DEFINE u == UpdateTaskStatus(t, status, reason)
<1>1. CASE ~ t.exists
  BY <1>1 DEF UpdateTaskStatus
<1>2. CASE t.exists
  <2>1. u = [exists   |-> t.exists,
             status   |-> status,
             reason   |-> reason,
             retries  |-> IF status = "RETRYING" THEN t.retries + 1 ELSE t.retries,
             started  |-> t.started \/ status = "RUNNING",
             finished |-> t.finished \/ status \in TerminalStatus]
    BY <1>2 DEF UpdateTaskStatus, Row
  <2>2. u.retries \in 0 .. MaxRetries
    BY <2>1, MaxRetriesAssumption DEF Row
  <2>3. u.started \in BOOLEAN /\ u.finished \in BOOLEAN /\ u.exists \in BOOLEAN
    BY <2>1 DEF Row
  <2> QED
    BY <1>2, <2>1, <2>2, <2>3 DEF Row
<1> QED
  BY <1>1, <1>2

\* Flushing a loaded and changed object leaves a row; retry_count is written only when
\* the object's own count changed.
LEMMA FlushType ==
    ASSUME NEW r \in Row, NEW loaded \in Row, NEW dirty \in Row
    PROVE  /\ Flush(r, loaded, dirty) \in Row
           /\ Flush(r, loaded, dirty).retries =
                 IF dirty.retries = loaded.retries THEN r.retries ELSE dirty.retries
BY DEF Flush, Row

\* record_task_attempt appends one row and keeps the others.
LEMMA RecordTaskAttemptKeeps ==
    ASSUME NEW log \in Seq(Attempt), NEW n \in Number, NEW result \in DispatchResult
    PROVE  LET new == RecordTaskAttempt(log, n, result)
           IN  /\ new \in Seq(Attempt)
               /\ OnlyGrows(log, new)
               /\ Len(log) + 1 \in DOMAIN new
               /\ new[Len(log) + 1] = [number |-> n, result |-> result]
BY DEF RecordTaskAttempt, Attempt, OnlyGrows

\* Marking a retry dispatched changes no row but a pending one.
LEMMA MarkTaskAttemptDispatchedKeeps ==
    ASSUME NEW log \in Seq(Attempt), NEW n
    PROVE  /\ MarkTaskAttemptDispatched(log, n) \in Seq(Attempt)
           /\ OnlyGrows(log, MarkTaskAttemptDispatched(log, n))
<1> DEFINE new == MarkTaskAttemptDispatched(log, n)
<1>1. /\ DOMAIN new = 1 .. Len(log)
      /\ \A i \in 1 .. Len(log) :
            \/ new[i] = log[i]
            \/ /\ Claimed(log[i])
               /\ new[i] = [log[i] EXCEPT !.result = "DISPATCHED"]
  BY DEF MarkTaskAttemptDispatched, ClaimedRows
<1>2. \A i \in 1 .. Len(log) : log[i] \in Attempt
  OBVIOUS
<1>3. \A i \in 1 .. Len(log) :
         \/ new[i] = log[i]
         \/ /\ log[i].result = "PENDING"
            /\ new[i] = [log[i] EXCEPT !.result = "DISPATCHED"]
  BY <1>1, <1>2 DEF Claimed, Attempt
<1>4. \A i \in 1 .. Len(log) : new[i] \in Attempt
  <2>1. \A x \in Attempt : [x EXCEPT !.result = "DISPATCHED"] \in Attempt
    BY DEF Attempt, DispatchResult
  <2> QED
    BY <1>2, <1>3, <2>1
<1>5. new \in [1 .. Len(log) -> Attempt]
  <2>1. new = [i \in DOMAIN new |-> new[i]]
    BY DEF MarkTaskAttemptDispatched
  <2> QED
    BY <1>1, <1>4, <2>1
<1>6. new \in Seq(Attempt) /\ Len(new) = Len(log)
  BY <1>1, <1>5, SeqDef
<1> QED
  BY <1>3, <1>6 DEF OnlyGrows

\* The reconciliation of an older pending row is such a marking, or nothing.
LEMMA ReconcilePendingKeeps ==
    ASSUME NEW log \in Seq(Attempt)
    PROVE  /\ ReconcilePending(log) \in Seq(Attempt)
           /\ OnlyGrows(log, ReconcilePending(log))
<1>1. OnlyGrows(log, log)
  BY DEF OnlyGrows
<1> QED
  BY <1>1, MarkTaskAttemptDispatchedKeeps DEF ReconcilePending

\* Growing twice is growing.
LEMMA OnlyGrowsTransitive ==
    ASSUME NEW a \in Seq(Attempt), NEW b \in Seq(Attempt), NEW c \in Seq(Attempt),
           OnlyGrows(a, b), OnlyGrows(b, c)
    PROVE  OnlyGrows(a, c)
<1>1. Len(c) >= Len(a) /\ DOMAIN a \subseteq DOMAIN b
  BY DEF OnlyGrows
<1>2. ASSUME NEW i \in DOMAIN a
      PROVE  \/ c[i] = a[i]
             \/ a[i].result = "PENDING" /\ c[i] = [a[i] EXCEPT !.result = "DISPATCHED"]
  <2>1. a[i] \in Attempt /\ b[i] \in Attempt /\ i \in DOMAIN b
    BY <1>1
  <2>2. \/ b[i] = a[i]
        \/ a[i].result = "PENDING" /\ b[i] = [a[i] EXCEPT !.result = "DISPATCHED"]
    BY <1>2 DEF OnlyGrows
  <2>3. \/ c[i] = b[i]
        \/ b[i].result = "PENDING" /\ c[i] = [b[i] EXCEPT !.result = "DISPATCHED"]
    BY <2>1 DEF OnlyGrows
  <2> QED
    BY <2>1, <2>2, <2>3 DEF Attempt
<1> QED
  BY <1>1, <1>2 DEF OnlyGrows

\* In a log that only grows a claimed row stays claimed under its number, and a shadowed
\* row stays as it is.
LEMMA OnlyGrowsKeepsRows ==
    ASSUME NEW log \in Seq(Attempt), NEW new \in Seq(Attempt), OnlyGrows(log, new)
    PROVE  /\ \A n : ClaimedRows(log, n) \subseteq ClaimedRows(new, n)
           /\ \A i \in DOMAIN log :
                 /\ i \in DOMAIN new
                 /\ new[i].number = log[i].number
                 /\ Claimed(log[i]) => Claimed(new[i])
                 /\ log[i].result = "SHADOWED" => new[i].result = "SHADOWED"
<1>1. ASSUME NEW i \in DOMAIN log
      PROVE  /\ i \in DOMAIN new
             /\ new[i].number = log[i].number
             /\ Claimed(log[i]) => Claimed(new[i])
             /\ log[i].result = "SHADOWED" => new[i].result = "SHADOWED"
  <2>1. log[i] \in Attempt /\ i \in DOMAIN new
    BY DEF OnlyGrows
  <2> QED
    BY <2>1 DEF OnlyGrows, Attempt, Claimed
<1> QED
  BY <1>1 DEF ClaimedRows

\* Of some rows of a log there is a latest one.
LEMMA LatestExists ==
    ASSUME NEW len \in Nat, NEW S \in SUBSET (1 .. len), S # {}
    PROVE  Max(S) \in S /\ \A j \in S : Max(S) >= j
<1> DEFINE R == {ss \in Nat \X Nat : ss[1] < ss[2]}
           T == {len - i : i \in S}
<1>1. IsWellFoundedOn(R, Nat)
  <2>1. R = OpToRel(<, Nat)
    BY DEF OpToRel
  <2> HIDE DEF R
  <2> QED
    BY <2>1, NatLessThanWellFounded
<1> HIDE DEF R, T
<1>2. T \subseteq Nat /\ T # {}
  <2>1. \A i \in S : len - i \in Nat
    BY SMT
  <2>2. T \subseteq Nat
    BY <2>1, Zenon DEF T
  <2>3. PICK i \in S : TRUE
    OBVIOUS
  <2>4. len - i \in T
    BY DEF T
  <2> QED
    BY <2>2, <2>4
<1>3. PICK x \in T : \A y \in T : ~ (<<y, x>> \in R)
  BY <1>1, <1>2, WFMin
<1>4. \A y \in T : ~ (y < x)
  BY <1>2, <1>3 DEF R
<1>5. PICK i \in S : x = len - i
  BY <1>3 DEF T
<1>6. \A j \in S : i >= j
  BY <1>4, <1>5 DEF T
<1> QED
  BY <1>5, <1>6 DEF Max

\* A claimed retry is found PENDING or DISPATCHED, as its latest claimed row says.
LEMMA DispatchStateKnown ==
    ASSUME NEW log \in Seq(Attempt), NEW n, ClaimedRows(log, n) # {}
    PROVE  \E i \in ClaimedRows(log, n) :
              /\ DispatchState(log, n) = log[i].result
              /\ log[i].result \in {"PENDING", "DISPATCHED"}
<1> DEFINE i == Max(ClaimedRows(log, n))
<1>1. ClaimedRows(log, n) \in SUBSET (1 .. Len(log)) /\ Len(log) \in Nat
  BY DEF ClaimedRows
<1>2. i \in ClaimedRows(log, n)
  BY <1>1, LatestExists
<1> QED
  BY <1>2 DEF DispatchState, ClaimedRows, Claimed

\* Marking a retry dispatched claims nothing new and withdraws nothing.
LEMMA MarkKeepsClaims ==
    ASSUME NEW log \in Seq(Attempt), NEW n, NEW m
    PROVE  ClaimedRows(MarkTaskAttemptDispatched(log, n), m) = ClaimedRows(log, m)
<1> DEFINE new == MarkTaskAttemptDispatched(log, n)
<1>1. /\ DOMAIN new = DOMAIN log
      /\ \A i \in DOMAIN log :
            \/ new[i] = log[i]
            \/ /\ Claimed(log[i])
               /\ new[i] = [log[i] EXCEPT !.result = "DISPATCHED"]
  BY DEF MarkTaskAttemptDispatched, ClaimedRows
<1> HIDE DEF new
<1>2. ASSUME NEW i \in DOMAIN log
      PROVE  new[i].number = log[i].number /\ (Claimed(new[i]) <=> Claimed(log[i]))
  <2>1. log[i] \in Attempt
    OBVIOUS
  <2> QED
    BY <1>1, <2>1 DEF Attempt, Claimed
<1> QED
  BY <1>1, <1>2 DEF ClaimedRows, new

\* Nor does the reconciliation of an older pending row.
LEMMA ReconcileKeepsClaims ==
    ASSUME NEW log \in Seq(Attempt), NEW m
    PROVE  ClaimedRows(ReconcilePending(log), m) = ClaimedRows(log, m)
BY MarkKeepsClaims DEF ReconcilePending

\* A new row claims its own number when it is claimed, and nothing else.
LEMMA RecordClaims ==
    ASSUME NEW log \in Seq(Attempt), NEW n \in Number, NEW result \in DispatchResult, NEW m
    PROVE  ClaimedRows(RecordTaskAttempt(log, n, result), m) =
              ClaimedRows(log, m) \cup
                 (IF m = n /\ result \in {"PENDING", "DISPATCHED"}
                  THEN {Len(log) + 1} ELSE {})
<1> DEFINE a   == [number |-> n, result |-> result]
           new == Append(log, a)
<1>1. /\ DOMAIN new = DOMAIN log \cup {Len(log) + 1}
      /\ \A i \in DOMAIN log : new[i] = log[i]
      /\ new[Len(log) + 1] = a
  OBVIOUS
<1>2. new = RecordTaskAttempt(log, n, result)
  BY DEF RecordTaskAttempt
<1> HIDE DEF new
<1>3. a.number = n /\ (Claimed(a) <=> result \in {"PENDING", "DISPATCHED"})
  BY DEF Claimed
<1> HIDE DEF a
<1> QED
  BY <1>1, <1>2, <1>3 DEF ClaimedRows

\* What the flush of a status writes: the columns that the object changed.
LEMMA FlushFields ==
    ASSUME NEW r \in Row, NEW loaded \in Row, NEW status \in Status, NEW reason \in Reason
    PROVE  LET u == Flush(r, loaded, UpdateTaskStatus(loaded, status, reason))
           IN  /\ u.exists = r.exists
               /\ u.status = IF loaded.exists /\ status # loaded.status
                             THEN status ELSE r.status
               /\ u.reason = IF /\ loaded.exists
                                /\ \/ reason # loaded.reason
                                   \/ reason = "retrying" /\ status = "RETRYING"
                             THEN reason ELSE r.reason
               /\ u.retries = IF loaded.exists /\ status = "RETRYING"
                              THEN loaded.retries + 1 ELSE r.retries
<1> DEFINE t == UpdateTaskStatus(loaded, status, reason)
<1>1. loaded.retries \in Nat
  BY MaxRetriesAssumption DEF Row
<1>2. /\ t.status = IF loaded.exists THEN status ELSE loaded.status
      /\ t.reason = IF loaded.exists THEN reason ELSE loaded.reason
      /\ t.retries = IF loaded.exists /\ status = "RETRYING"
                     THEN loaded.retries + 1 ELSE loaded.retries
  BY DEF UpdateTaskStatus, Row
<1> HIDE DEF t
<1>3. LET u == Flush(r, loaded, t)
      IN  /\ u.exists = r.exists
          /\ u.status = IF t.status = loaded.status THEN r.status ELSE t.status
          /\ u.reason = IF t.reason = "retrying" /\ t.retries # loaded.retries
                        THEN "retrying"
                        ELSE IF t.reason = loaded.reason THEN r.reason ELSE t.reason
          /\ u.retries = IF t.retries = loaded.retries THEN r.retries ELSE t.retries
  BY DEF Flush
<1> QED
  BY <1>1, <1>2, <1>3 DEF t

\* A status flushed on the row as it was loaded.
LEMMA OwnFlush ==
    ASSUME NEW r \in Row, NEW status \in Status, NEW reason \in Reason,
           status = "RETRYING" => r.retries < MaxRetries
    PROVE  LET u == Flush(r, r, UpdateTaskStatus(r, status, reason))
           IN  /\ u \in Row /\ u.exists = r.exists
               /\ u.status = IF r.exists THEN status ELSE r.status
               /\ u.retries = IF r.exists /\ status = "RETRYING" THEN r.retries + 1
                                                                ELSE r.retries
               /\ ~ r.exists => u = r
<1> DEFINE t == UpdateTaskStatus(r, status, reason)
<1>1. /\ t \in Row
      /\ t.retries = IF r.exists /\ status = "RETRYING" THEN r.retries + 1 ELSE r.retries
  BY UpdateTaskStatusType
<1>2. t.status = IF r.exists THEN status ELSE r.status
  BY DEF UpdateTaskStatus, Row
<1>3. ~ r.exists => t = r
  BY DEF UpdateTaskStatus
<1> HIDE DEF t
<1>4. Flush(r, r, t) \in Row
  BY <1>1, FlushType
<1>5. /\ Flush(r, r, t).exists = r.exists /\ Flush(r, r, t).status = t.status
      /\ Flush(r, r, t).retries = t.retries
  BY DEF Flush
<1>6. ~ r.exists => Flush(r, r, t) = r
  BY <1>3 DEF Flush, Row
<1> QED
  BY <1>1, <1>2, <1>4, <1>5, <1>6 DEF t
=============================================================================
