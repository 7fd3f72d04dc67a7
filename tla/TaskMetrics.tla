---------------------------- MODULE TaskMetrics ----------------------------
(***************************************************************************)
(* middleware/metrics_mw.py around StateTracking: the Prometheus values of *)
(* one worker process for one task name.  The process keeps running here,  *)
(* so Crash is not a step (a new process starts at zero).                  *)
(*                                                                         *)
(* The hooks of the logging, tenant and metrics middleware never await, so *)
(* each is part of the step next to it: before StateTracking in            *)
(* pre_execute, after it in on_error and post_execute, and not at all when *)
(* StateTracking raises.                                                   *)
(***************************************************************************)
EXTENDS StateTracking

VARIABLES started,      \* tasks_started_total
          completed,    \* tasks_completed_total
          failed,       \* tasks_failed_total
          gauge,        \* tasks_in_progress
          handled,      \* history: deliveries whose on_error ran to its end
          abandoned     \* history: deliveries that ended in a hook that raised

metrics == <<started, completed, failed, gauge, handled, abandoned>>

metricsVars == <<vars, metrics>>

MetricsInit ==
    /\ Init
    /\ started = 0 /\ completed = 0 /\ failed = 0 /\ gauge = 0
    /\ handled = 0 /\ abandoned = 0

MetricsPreExecute(w) ==
    /\ Receive(w)
    /\ started' = started + 1
    /\ gauge' = gauge + 1
    /\ UNCHANGED <<completed, failed, handled, abandoned>>

\* The gauge is left to post_execute.
MetricsOnError_KeepsGauge(w) ==
    /\ worker[w].hook = "error"
    /\ Emit(w)
    /\ failed' = failed + 1
    /\ handled' = handled + 1
    /\ UNCHANGED <<started, completed, gauge, abandoned>>

MetricsOnError(w) ==
    /\ worker[w].hook = "error"
    /\ Emit(w)
    /\ gauge' = gauge - 1
    /\ failed' = failed + 1
    /\ handled' = handled + 1
    /\ UNCHANGED <<started, completed, abandoned>>

\* A delivery that on_error handed to a retry counts as completed.
MetricsPostExecute_RetryCompletes(w) ==
    /\ PostExecuteSkips(w) \/ (worker[w].hook = "post" /\ Emit(w))
    /\ gauge' = gauge - 1
    /\ IF worker[w].failed /\ ~ worker[w].noResult
       THEN failed' = failed + 1 /\ UNCHANGED completed
       ELSE completed' = completed + 1 /\ UNCHANGED failed
    /\ UNCHANGED <<started, handled, abandoned>>

\* is_err decides, also for a retried delivery whose error is NoResultError.
MetricsPostExecute(w) ==
    /\ PostExecuteSkips(w) \/ (worker[w].hook = "post" /\ Emit(w))
    /\ gauge' = gauge - 1
    /\ IF worker[w].failed THEN failed' = failed + 1 /\ UNCHANGED completed
                           ELSE completed' = completed + 1 /\ UNCHANGED failed
    /\ UNCHANGED <<started, handled, abandoned>>

\* Every other step leaves the metrics alone, one that raises out of a hook included.
Unmeasured(w) ==
    /\ \/ Work(w) /\ ~ PostExecuteSkips(w)
       \/ worker[w].hook = "pre" /\ Emit(w)
       \/ ChannelLost(w)
    /\ abandoned' = IF worker[w].pc # "stuck" /\ worker'[w].pc = "stuck"
                    THEN abandoned + 1 ELSE abandoned
    /\ UNCHANGED <<started, completed, failed, gauge, handled>>

MetricsNext ==
    \E w \in Worker : \/ MetricsPreExecute(w) \/ MetricsOnError(w)
                      \/ MetricsPostExecute(w) \/ Unmeasured(w)

MetricsSpec == MetricsInit /\ [][MetricsNext]_metricsVars

(***************************************************************************)
(* Properties                                                              *)
(***************************************************************************)

\* The deliveries that are being executed, as the metrics middleware sees it.
Running == {w \in Worker : worker[w].pc \notin {"idle", "save", "stuck"}}

\* How far the gauge is from the number of running deliveries: one too low for each
\* body that failed (both on_error and post_execute decrement it), one too high for
\* each delivery that another middleware's exception ended before post_execute.
GaugeDrift == gauge = Cardinality(Running) + abandoned - handled

\* While nothing fails but refused sends, the counters agree with the records: each
\* message sent was started once, a task completes once at most and exactly when its
\* row says so, and every other run is a failure (which is counted twice).
MetricsMatchRecords ==
    Settled /\ Calm =>
        /\ started = 1 + TotalSent
        /\ row.exists => completed = IF row.status = "COMPLETED" THEN 1 ELSE 0
        /\ failed = 2 * (started - completed)

\* The gauge is the number of tasks currently being executed.
GaugeCountsRunning == gauge = Cardinality(Running)
=============================================================================
