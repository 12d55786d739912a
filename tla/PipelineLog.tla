------------------------------ MODULE PipelineLog ------------------------------
(***************************************************************************)
(* What the harness (harness/pipeline.py) promises to whoever follows a    *)
(* pipeline run by its saved status and its log of events: which status    *)
(* each event carries and when one may follow the end.  What the worker    *)
(* does between two events and where the forwarded ones come from are      *)
(* choices here.  EventProjection implements this module, EventStream      *)
(* reads it.                                                               *)
(***************************************************************************)
EXTENDS Naturals, Sequences

VARIABLES
    status,    \* PipelineRun.status, "none" before the first
    stop,      \* PipelineRun.stop_requested
    log,       \* pipeline_events; the sequence number is the position
    thread,    \* the worker: "off", "queued" or "running"
    owed       \* the status a finished worker has saved and not yet told

logVars == <<status, stop, log, thread, owed>>

Active   == {"queued", "running", "stopping"}
Terminal == {"completed", "failed", "stopped", "interrupted"}
Kinds    == {"own", "evidence", "other"}

LogTypeOK ==
    /\ status \in Active \cup Terminal \cup {"none"}
    /\ stop \in BOOLEAN
    /\ log \in Seq([status : Active \cup Terminal, kind : Kinds])
    /\ thread \in {"off", "queued", "running"}
    /\ owed \in {"none", "completed", "failed", "stopped"}

LogInit ==
    status = "none" /\ stop = FALSE /\ log = <<>> /\ thread = "off" /\ owed = "none"

Own(s) == [status |-> s, kind |-> "own"]

(* _finish_stopped tells a stop once in the life of a run. *)
StopIsTold == \E i \in DOMAIN log : log[i] = Own("stopped")
EndTold(end) == IF end = "stopped" /\ StopIsTold THEN <<>> ELSE <<Own(end)>>

(* submit: a new run, or one that ended early is resumed. *)
LogSubmit ==
    /\ status \notin Active \cup {"completed"}
    /\ status' = "queued" /\ stop' = FALSE /\ thread' = "queued"
    /\ log' = Append(log, Own("queued"))
    /\ UNCHANGED owed

(* request_stop: a worker that has not started is cancelled. *)
LogRequestStop ==
    /\ status \in Active
    /\ stop' = TRUE
    /\ status' = IF thread = "running" THEN "stopping" ELSE "stopped"
    /\ thread' = IF thread = "running" THEN "running" ELSE "off"
    /\ log' = Append(log, Own("stopping"))
              \o (IF thread = "running" THEN <<>> ELSE EndTold("stopped"))
    /\ UNCHANGED owed

(* reconcile_interrupted closes a run whose worker is gone. *)
LogReconciled ==
    IF status \in Active /\ thread = "off"
    THEN LET end == IF stop THEN "stopped" ELSE "interrupted" IN
         /\ status' = end /\ log' = log \o EndTold(end)
         /\ UNCHANGED <<stop, thread, owed>>
    ELSE UNCHANGED logVars

(* The pool has one thread: a resumed run starts after the last is told. *)
LogStarts ==
    /\ thread = "queued" /\ owed = "none" /\ thread' = "running"
    /\ UNCHANGED <<status, stop, log, owed>>

(* _save_run keeps a stop request the worker's copy does not know of. *)
LogSaves ==
    /\ thread = "running"
    /\ status' = IF stop THEN "stopping" ELSE "running"
    /\ UNCHANGED <<stop, log, thread, owed>>

(* An event carries the status of the copy the worker last saved. *)
LogAppends ==
    /\ thread = "running"
    /\ \E s \in {"running"} \cup (IF stop THEN {"stopping"} ELSE {}) :
          log' = Append(log, Own(s))
    /\ UNCHANGED <<status, stop, thread, owed>>

LogEnds ==
    /\ thread = "running" /\ thread' = "off"
    /\ \E end \in {"completed", "failed"} \cup (IF stop THEN {"stopped"} ELSE {}) :
          status' = end /\ owed' = end
    /\ UNCHANGED <<stop, log>>

LogTellsEnd ==
    /\ owed # "none" /\ owed' = "none"
    /\ log' = log \o EndTold(owed)
    /\ UNCHANGED <<status, stop, thread>>

(* A forwarded event carries the status the run has, ended or not. *)
LogForwards ==
    /\ status # "none"
    /\ \E k \in {"evidence", "other"} : log' = Append(log, [status |-> status, kind |-> k])
    /\ UNCHANGED <<status, stop, thread, owed>>

LogCrash ==
    thread' = "off" /\ owed' = "none" /\ UNCHANGED <<status, stop, log>>

LogNext ==
    \/ LogSubmit \/ LogRequestStop \/ LogReconciled
    \/ LogStarts \/ LogSaves \/ LogAppends \/ LogEnds \/ LogTellsEnd
    \/ LogForwards \/ LogCrash

LogSpec == LogInit /\ [][LogNext]_logVars
=============================================================================
