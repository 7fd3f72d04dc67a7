---------------------------- MODULE EventStream ----------------------------
(***************************************************************************)
(* The realtime events of one task: StateTracking together with what       *)
(* _emit_status_event hands to realtime/emitter.py.  Each hook emits once, *)
(* after its session; the emit is fire-and-forget, so it is one step of    *)
(* the delivery that nothing can undo.  The messages carry a tenant_id     *)
(* (without one the emit returns before it sends).                         *)
(***************************************************************************)
EXTENDS StateTracking, SequencesExt

VARIABLES events,        \* the statuses emitted, oldest first
          transitions    \* history: the statuses the row committed to, oldest first

eventVars == <<vars, events, transitions>>

EventInit == Init /\ events = << >> /\ transitions = << >>

\* task_completed, task_failed or task_status_changed, by the status it reports.
EmitStatusEvent(w) ==
    /\ Emit(w)
    /\ events' = Append(events, worker[w].event)
    /\ UNCHANGED transitions

\* Every other step emits nothing; a commit that changes the status is a transition.
SilentStep(w) ==
    /\ Receive(w) \/ Work(w) \/ Crash(w) \/ ChannelLost(w)
    /\ transitions' = IF row'.status = row.status THEN transitions
                      ELSE Append(transitions, row'.status)
    /\ UNCHANGED events

EventNext == \E w \in Worker : EmitStatusEvent(w) \/ SilentStep(w)

EventSpec == EventInit /\ [][EventNext]_eventVars

(***************************************************************************)
(* Properties                                                              *)
(***************************************************************************)

Occurrences(seq, status) == Cardinality({i \in DOMAIN seq : seq[i] = status})

\* No event runs ahead of the database: what is announced of an existing row was
\* committed before, whichever replay or fallback of on_error announces it.
EventReportsCommitted ==
    row.exists => ToSet(events) \subseteq ToSet(transitions)

\* When all is settled every start and outcome the row went through was announced, but
\* for one of each status per database failure: the failed commit that took effect is
\* repeated, and announced once.
NoSilentTransition ==
    Settled => \A status \in {"RUNNING", "COMPLETED", "FAILED"} :
                   Occurrences(events, status) + faults.db
                       >= Occurrences(transitions, status)

\* This status is announced, and after it nothing but retries.
LastAnnounced(seq, status) ==
    \E i \in DOMAIN seq :
        /\ seq[i] = status
        /\ \A j \in DOMAIN seq : j > i => seq[j] = "RETRYING"

\* While nothing fails but refused sends, the last event other than RETRYING is the
\* final status: a RETRYING event may be late (its delivery announces it after the
\* retry is already running), an outcome may not.
LastOutcomeEvent ==
    Calm /\ Settled /\ row.exists /\ row.status \in TerminalStatus =>
        LastAnnounced(events, row.status)

\* Realtime events are one to one with the transitions of the row.
EventsOneToOne ==
    Settled /\ row.exists =>
        \A status \in Status : Occurrences(events, status) = Occurrences(transitions, status)
=============================================================================
