----------------------------- MODULE Observers -----------------------------
(***************************************************************************)
(* The realtime events and the metrics of the same deliveries: EventStream *)
(* and TaskMetrics composed.  A step of a delivery is a step of both, and  *)
(* each hears of it in its own way: an emit that ends on_error is also the *)
(* step in which metrics_mw.on_error runs, and so on.  The process keeps   *)
(* running, as in TaskMetrics.                                             *)
(***************************************************************************)
EXTENDS EventStream, TaskMetrics

ObserversInit == EventInit /\ MetricsInit

Emitting(w) == EmitStatusEvent(w) \/ SilentStep(w)

Measured(w) ==
    MetricsPreExecute(w) \/ MetricsOnError(w) \/ MetricsPostExecute(w) \/ Unmeasured(w)

ObserversNext == \E w \in Worker : Emitting(w) /\ Measured(w)

ObserversSpec ==
    ObserversInit /\ [][ObserversNext]_<<vars, events, transitions, metrics>>
=============================================================================
