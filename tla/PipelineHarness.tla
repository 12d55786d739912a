--------------------------- MODULE PipelineHarness ---------------------------
(***************************************************************************)
(* ResearchPipelineHarness (harness/pipeline.py): the control plane that   *)
(* takes one analysis task through planning, researching, analyzing and    *)
(* reporting.  One PipelineRun record is shared by                         *)
(*   - the pool thread that runs _execute (the actor "worker"),            *)
(*   - the API threads: submit, request_stop, the status and SSE handlers  *)
(*     that reconcile, and the manual stage endpoints (the actor "manual"  *)
(*     runs the analysis and reporting services),                          *)
(*   - the research coordinator, of which ResearchService is the contract. *)
(*                                                                         *)
(* Granularity.  Every save of the run and every save of an artifact is a  *)
(* step.  The worker loads the run without the lock and saves it under the *)
(* lock, so a load and the save it feeds are different steps: "local" is   *)
(* the worker's Python variable and may be stale when it is saved.  A load *)
(* is the last thing of the step before the one that saves.  The API       *)
(* methods hold the lock from load to save and are one step each.          *)
(***************************************************************************)
EXTENDS ResearchService, Sequences, FiniteSets

CONSTANTS
    MaxResumes,         \* bound: resubmissions of the run
    MaxManual,          \* bound: manual analysis and reporting requests
    MaxCrashes,         \* bound: process restarts
    DirectResearch,     \* may the user drive the coordinator directly?
    WRITER_MAX_ATTEMPTS \* research_reporting.py

ASSUME BoundsAssumption ==
    /\ MaxResumes \in Nat /\ MaxManual \in Nat /\ MaxCrashes \in Nat
    /\ DirectResearch \in BOOLEAN
    /\ WRITER_MAX_ATTEMPTS \in Nat \ {0}

VARIABLES
    \* persisted
    run,         \* the PipelineRun record
    artifacts,   \* the kinds of artifact saved for the task
    handoffs,    \* agent_handoffs: the idempotency keys, in order
    checkpoints, \* pipeline_checkpoints: stage and completed stages
    \* memory of the process
    future,      \* self._futures[task_id]
    pc,          \* where each actor's thread is
    local,       \* the worker's own copy of the run
    at,          \* the stage _execute is at, "end" after the last
    hop,         \* handoffs of this stage the worker has made
    tries,       \* writer attempts of each actor's call
    \* history
    begun,       \* stages begun since a stop was requested
    paid,        \* analyst calls whose result was saved
    manual,      \* manual requests made
    crashes      \* process restarts

workerVars == <<future, pc, local, at, hop, tries>>
storeVars  == <<artifacts, handoffs, checkpoints>>
countVars  == <<paid, manual, crashes>>
vars == <<run, artifacts, handoffs, checkpoints, future, pc, local, at, hop,
          tries, begun, paid, manual, crashes, researchVars>>

Stages   == {"planning", "researching", "analyzing", "reporting"}
Active   == {"queued", "running", "stopping"}
Terminal == {"completed", "failed", "stopped", "interrupted"}
Actors   == {"worker", "manual"}

Run == [status  : Active \cup Terminal \cup {"none"},
        stop    : BOOLEAN,               \* stop_requested
        stage   : Stages \cup {"queued", "completed"},
        done    : SUBSET Stages,         \* completed_stages
        marked  : Nat,                   \* last_checkpoint_id, 0 for none
        resumes : Nat]                   \* resume_count

NoRun == [status |-> "none", stop |-> FALSE, stage |-> "queued", done |-> {},
          marked |-> 0, resumes |-> 0]

Artifacts == {"plan", "board", "portfolio", "claims", "citations",
              "report", "statements", "review", "gate"}

ReportingDone == {"report", "statements", "review", "gate"}

NextStage == [planning |-> "researching", researching |-> "analyzing",
              analyzing |-> "reporting", reporting |-> "end"]

(* The handoffs of a stage, named after sender and recipient. *)
StageHandoffs ==
    [planning    |-> <<"planner_to_research">>,
     researching |-> <<"research_to_analyst">>,
     analyzing   |-> <<"analyst_to_citation", "citation_to_writer">>,
     reporting   |-> <<"writer_to_reviewer", "reviewer_to_gate">>]

HandoffKeys == {"planner_to_research", "research_to_analyst",
                "analyst_to_citation", "citation_to_writer",
                "writer_to_reviewer", "reviewer_to_gate"}

Points ==
    {"off", "start", "check", "enter", "begin", "resume", "plan",
     "save_board", "reconcile", "submit", "poll", "status", "recheck",
     "analyze", "call_analysis", "analyst", "save_claims", "cite",
     "report", "call_reporting", "write", "save_statements", "statements", "review", "gate",
     "handoff", "complete", "checkpoint", "mark", "settle",
     "except", "stop", "fail"}

(* Where a thread holds the class lock of the analysis, of the reporting   *)
(* service.                                                                *)
InAnalysis  == {"analyst", "save_claims", "cite"}
InReporting == {"write", "save_statements", "statements", "review", "gate"}

Init ==
    /\ run = NoRun /\ local = NoRun
    /\ artifacts = {} /\ handoffs = <<>> /\ checkpoints = <<>>
    /\ future = "none" /\ pc = [a \in Actors |-> "off"]
    /\ at = "planning" /\ hop = 0 /\ tries = [a \in Actors |-> 0]
    /\ begun = 0 /\ paid = 0 /\ manual = 0 /\ crashes = 0
    /\ ResearchInit

-----------------------------------------------------------------------------
(* The run record. *)

\* Fault: the last writer wins.
SavedFaulty(item, new) == new

(* _save_run: a copy that does not know of a requested stop is saved with  *)
(* it, unless it is the explicit resume of a terminal run.                 *)
ExplicitResume(item, new) ==
    /\ item.status \in Terminal
    /\ new.status = "queued"
    /\ new.resumes > item.resumes

Saved(item, new) ==
    IF item.stop /\ ~new.stop /\ ~ExplicitResume(item, new)
    THEN [new EXCEPT !.stop = TRUE,
                     !.status = IF @ \in {"queued", "running"}
                                THEN "stopping" ELSE @]
    ELSE new

(* The copies the methods save. *)
Stopping(r)    == [r EXCEPT !.status = "stopping", !.stop = TRUE]
Stopped(r)     == [r EXCEPT !.status = "stopped", !.stop = TRUE]
Interrupted(r) == [r EXCEPT !.status = "interrupted"]
Resumed(r)     == [r EXCEPT !.status = "queued", !.stop = FALSE,
                            !.resumes = r.resumes + 1]

IsActive(r) == r.status \in Active
WorkerGone  == future \in {"none", "done"}

\* Fault: a stopping run that lost its worker is reported as interrupted.
ReconciledFaulty(r) ==
    IF ~IsActive(r) \/ ~WorkerGone THEN r ELSE Saved(r, Interrupted(r))

(* What reconcile_interrupted makes of the run. *)
Reconciled(r) ==
    IF ~IsActive(r) \/ ~WorkerGone THEN r
    ELSE IF r.stop \/ r.status = "stopping" THEN Saved(r, Stopped(r))
    ELSE Saved(r, Interrupted(r))

-----------------------------------------------------------------------------
(* The API threads. *)

(* submit: an active run with a live worker and a completed run are        *)
(* returned as they are; a run that lost its worker is reconciled first.   *)
Submit ==
    LET latest == Reconciled(run) IN
    /\ ~IsActive(latest)
    /\ latest.status # "completed"
    /\ IF latest.status = "none"
       THEN run' = [NoRun EXCEPT !.status = "queued"]
       ELSE /\ latest.resumes < MaxResumes
            /\ run' = Saved(latest, Resumed(latest))
    /\ future' = "queued"
    /\ begun' = 0
    /\ UNCHANGED <<storeVars, pc, local, at, hop, tries, countVars,
                   researchVars>>

(* request_stop: saved, forwarded to an active coordinator when the run is *)
(* researching, and final at once when the worker never started.           *)
RequestStop ==
    /\ IsActive(run)
    /\ LET stopping == Saved(run, Stopping(run)) IN
       IF future \in {"none", "queued"}
       THEN /\ run' = Saved(stopping, Stopped(stopping))
            /\ future' = IF future = "none" THEN "none" ELSE "done"
       ELSE run' = stopping /\ UNCHANGED future
    /\ IF run.stage = "researching" /\ ResearchIsActive
       THEN ResearchStopRequested ELSE UNCHANGED researchVars
    /\ UNCHANGED <<storeVars, pc, local, at, hop, tries, begun, countVars>>

(* reconcile_interrupted: the status and the SSE handlers call it. *)
ReconcileInterrupted ==
    /\ IsActive(run) /\ WorkerGone
    /\ run' = Reconciled(run)
    /\ UNCHANGED <<storeVars, workerVars, begun, countVars, researchVars>>

\* Fault: a report is taken for a finished reporting stage.
ReconcileCompletedFaulty ==
    /\ run.status \in Terminal \ {"completed"}
    /\ "report" \in artifacts
    /\ run' = [run EXCEPT !.status = "completed", !.stage = "completed",
                          !.done = Stages]
    /\ UNCHANGED <<storeVars, workerVars, begun, countVars, researchVars>>

(* reconcile_completed_artifacts: the status handler closes a run that did *)
(* not complete when the manual endpoints left a complete report.          *)
ReconcileCompleted ==
    /\ run.status \in Terminal \ {"completed"}
    /\ ReportingDone \subseteq artifacts
    /\ LET recovered == Saved(run, [run EXCEPT !.status = "completed",
                                               !.stage = "completed",
                                               !.done = Stages])
       IN /\ checkpoints' = Append(checkpoints, [stage |-> "reporting",
                                                 done  |-> recovered.done])
          /\ run' = Saved(recovered, [recovered EXCEPT
                                         !.marked = Len(checkpoints) + 1])
    /\ UNCHANGED <<artifacts, handoffs, workerVars, begun, countVars,
                   researchVars>>

(* The manual endpoints run the same services in a thread of their own. *)
ManualRequest(service) ==
    /\ pc["manual"] = "off" /\ manual < MaxManual
    /\ manual' = manual + 1
    /\ pc' = [pc EXCEPT !["manual"] = service]
    /\ UNCHANGED <<run, storeVars, future, local, at, hop, tries, begun,
                   paid, crashes, researchVars>>

(* The research endpoints drive the coordinator without the harness (the   *)
(* one that starts it is modelled once a plan exists).                     *)
DirectResearchRequest ==
    /\ DirectResearch
    /\ \/ ResearchStopRequested
       \/ "board" \in artifacts /\ ResearchSubmitted
       \/ ResearchReconciled
    /\ UNCHANGED <<run, storeVars, workerVars, begun, countVars>>

(* The backend process dies; what is on disk stays. *)
Crash ==
    /\ crashes < MaxCrashes
    /\ crashes' = crashes + 1
    /\ future' = "none"
    /\ pc' = [a \in Actors |-> "off"]
    /\ ResearchCrashed
    /\ UNCHANGED <<run, storeVars, local, at, hop, tries, begun, paid, manual>>

-----------------------------------------------------------------------------
(* The worker: _execute and the helpers it calls. *)

Goto(a, point) == pc' = [pc EXCEPT ![a] = point]
WorkerAt(point) == pc["worker"] = point

(* The pool thread starts: the run is loaded. *)
WorkerStarts ==
    /\ future = "queued" /\ WorkerAt("off")
    /\ future' = "running"
    /\ local' = run
    /\ Goto("worker", "start")
    /\ UNCHANGED <<run, storeVars, at, hop, tries, begun, countVars,
                   researchVars>>

(* It is saved as running; the stages are then gone through from the first. *)
SaveRunning ==
    /\ WorkerAt("start")
    /\ run' = Saved(run, [local EXCEPT !.status = "running"])
    /\ local' = run'
    /\ at' = "planning"
    /\ Goto("worker", "check")
    /\ UNCHANGED <<storeVars, future, hop, tries, begun, countVars,
                   researchVars>>

(* _stop_if_requested, before a stage or before the final save (check) and *)
(* between the research and its completion (recheck).  The copy it loads   *)
(* is kept only to stop.                                                   *)
StopCheck(point, next) ==
    /\ WorkerAt(point)
    /\ IF run.stop
       THEN local' = run /\ Goto("worker", "stop")
       ELSE UNCHANGED local /\ Goto("worker", next)
    /\ UNCHANGED <<run, storeVars, future, at, hop, tries, begun, countVars,
                   researchVars>>

CheckBeforeStage == at # "end" /\ StopCheck("check", "enter")
CheckBeforeEnd   == at = "end" /\ StopCheck("check", "settle")

(* _finish_stopped. *)
FinishStopped ==
    /\ WorkerAt("stop")
    /\ run' = Saved(run, Stopped(local))
    /\ local' = run'
    /\ future' = "done"
    /\ Goto("worker", "off")
    /\ UNCHANGED <<storeVars, at, hop, tries, begun, countVars, researchVars>>

(* _stage_is_complete decides; _begin_stage or _resume_stage loads. *)
EnterStage ==
    /\ WorkerAt("enter")
    /\ Goto("worker", IF at \in local.done THEN "resume" ELSE "begin")
    /\ local' = run
    /\ UNCHANGED <<run, storeVars, future, at, hop, tries, begun, countVars,
                   researchVars>>

(* _begin_stage saves. *)
StageWork == [planning |-> "plan", researching |-> "reconcile",
              analyzing |-> "analyze", reporting |-> "report"]

BeginStage ==
    /\ WorkerAt("begin")
    /\ run' = Saved(run, [local EXCEPT
                !.status = IF local.stop THEN "stopping" ELSE "running",
                !.stage  = at])
    /\ local' = run'
    /\ begun' = IF run.stop THEN begun + 1 ELSE begun
    /\ hop' = 0
    /\ Goto("worker", StageWork[at])
    /\ UNCHANGED <<storeVars, future, at, tries, countVars, researchVars>>

(* What follows a stage: a stop check, except after the research, whose    *)
(* successor is entered at once.                                           *)
Proceed ==
    /\ at' = NextStage[at]
    /\ Goto("worker", IF at = "researching" THEN "enter" ELSE "check")

(* _resume_stage saves: a stage completed by an earlier attempt is skipped. *)
ResumeStage ==
    /\ WorkerAt("resume")
    /\ run' = Saved(run, [local EXCEPT !.stage = at])
    /\ local' = run'
    /\ Proceed
    /\ UNCHANGED <<storeVars, future, hop, tries, begun, countVars,
                   researchVars>>

\* Fault: the completed stage is only saved with its checkpoint's id.
CompleteStageFaulty ==
    /\ WorkerAt("complete")
    /\ local' = [local EXCEPT !.done = @ \cup {at}]
    /\ Goto("worker", "checkpoint")
    /\ UNCHANGED <<run, storeVars, future, at, hop, tries, begun, countVars,
                   researchVars>>

(* _complete_stage saves the stage as completed ... *)
CompleteStage ==
    /\ WorkerAt("complete")
    /\ run' = Saved(run, [local EXCEPT !.done = @ \cup {at}])
    /\ local' = run'
    /\ Goto("worker", "checkpoint")
    /\ UNCHANGED <<storeVars, future, at, hop, tries, begun, countVars,
                   researchVars>>

(* ... _checkpoint appends a snapshot ... *)
AppendCheckpoint ==
    /\ WorkerAt("checkpoint")
    /\ checkpoints' = Append(checkpoints, [stage |-> at, done |-> local.done])
    /\ Goto("worker", "mark")
    /\ UNCHANGED <<run, artifacts, handoffs, future, local, at, hop, tries,
                   begun, countVars, researchVars>>

(* ... and the run is saved with its id.  Planning and researching make    *)
(* their handoff now, the other stages made theirs before they completed.  *)
MarkCheckpoint ==
    /\ WorkerAt("mark")
    /\ run' = Saved(run, [local EXCEPT !.marked = Len(checkpoints)])
    /\ local' = run'
    /\ IF at \in {"planning", "researching"}
       THEN Goto("worker", "handoff") /\ UNCHANGED at
       ELSE Proceed
    /\ UNCHANGED <<storeVars, future, hop, tries, begun, countVars,
                   researchVars>>

(* _handoff: appended unless its idempotency key is there.  After the last *)
(* one of the stage analyzing and reporting load the run to complete it.   *)
Handoff ==
    /\ WorkerAt("handoff")
    /\ LET keys == StageHandoffs[at]
           key  == keys[hop + 1]
           last == hop + 1 = Len(keys)
           late == at \in {"planning", "researching"}
       IN /\ handoffs' = IF \E i \in 1..Len(handoffs) : handoffs[i] = key
                         THEN handoffs ELSE Append(handoffs, key)
          /\ hop' = hop + 1
          /\ IF ~last THEN UNCHANGED <<pc, local, at>>
             ELSE IF late THEN Proceed /\ UNCHANGED local
             ELSE /\ local' = run /\ Goto("worker", "complete")
                  /\ UNCHANGED at
    /\ UNCHANGED <<run, artifacts, checkpoints, future, tries, begun,
                   countVars, researchVars>>

(* The final save. *)
Settle ==
    /\ WorkerAt("settle")
    /\ run' = Saved(run, [local EXCEPT !.status = "completed",
                                       !.stage = "completed"])
    /\ local' = run'
    /\ future' = "done"
    /\ Goto("worker", "off")
    /\ UNCHANGED <<storeVars, at, hop, tries, begun, countVars, researchVars>>

\* Fault: an exception during a stop ends the thread without a final save.
ExceptFaulty ==
    /\ WorkerAt("except")
    /\ IF run.stop
       THEN Goto("worker", "off") /\ future' = "done" /\ UNCHANGED local
       ELSE Goto("worker", "fail") /\ local' = run /\ UNCHANGED future
    /\ UNCHANGED <<run, storeVars, at, hop, tries, begun, countVars,
                   researchVars>>

(* except Exception: a requested stop wins over the failure. *)
Except ==
    /\ WorkerAt("except")
    /\ local' = run
    /\ Goto("worker", IF run.stop THEN "stop" ELSE "fail")
    /\ UNCHANGED <<run, storeVars, future, at, hop, tries, begun, countVars,
                   researchVars>>

SaveFailed ==
    /\ WorkerAt("fail")
    /\ run' = Saved(run, [local EXCEPT !.status = "failed"])
    /\ local' = run'
    /\ future' = "done"
    /\ Goto("worker", "off")
    /\ UNCHANGED <<storeVars, at, hop, tries, begun, countVars, researchVars>>

-----------------------------------------------------------------------------
(* The work of the stages. *)

Saves(kind) == artifacts' = artifacts \cup {kind}

(* ResearchPlanningService.build: a plan that exists is kept, and returned *)
(* with its task board, which must exist too.  A new plan is saved before  *)
(* its research tasks and the board.                                       *)
BuildPlan ==
    /\ WorkerAt("plan")
    /\ \/ /\ {"plan", "board"} \subseteq artifacts
          /\ local' = run /\ Goto("worker", "complete")
          /\ UNCHANGED artifacts
       \/ /\ "plan" \notin artifacts
          /\ Saves("plan") /\ Goto("worker", "save_board")
          /\ UNCHANGED local
       \/ /\ ~({"plan", "board"} \subseteq artifacts)
          /\ Goto("worker", "except")
          /\ UNCHANGED <<artifacts, local>>
    /\ UNCHANGED <<run, handoffs, checkpoints, future, at, hop, tries, begun,
                   countVars, researchVars>>

SaveBoard ==
    /\ WorkerAt("save_board")
    /\ CreateTasks
    /\ Saves("board")
    /\ local' = run /\ Goto("worker", "complete")
    /\ UNCHANGED <<run, handoffs, checkpoints, future, at, hop, tries, begun,
                   countVars>>

(* _run_research reconciles the coordinator, submits unless its last run   *)
(* completed, and polls. *)
ReconcileResearch ==
    /\ WorkerAt("reconcile")
    /\ ResearchReconciled
    /\ Goto("worker", IF rStatus' = "completed" THEN "poll" ELSE "submit")
    /\ UNCHANGED <<run, storeVars, future, local, at, hop, tries, begun,
                   countVars>>

SubmitResearch ==
    /\ WorkerAt("submit")
    /\ \/ ResearchSubmitted /\ Goto("worker", "poll")
       \/ ResearchRefused /\ Goto("worker", "except")
    /\ UNCHANGED <<run, storeVars, future, local, at, hop, tries, begun,
                   countVars>>

(* One turn of the loop: load the run and forward a requested stop ...     *)
PollRun ==
    /\ WorkerAt("poll")
    /\ local' = run
    /\ IF run.stop THEN ResearchStopRequested ELSE UNCHANGED researchVars
    /\ Goto("worker", "status")
    /\ UNCHANGED <<run, storeVars, future, at, hop, tries, begun, countVars>>

\* Fault: the loop does not end when the research failed.
PollResearchStuck ==
    /\ WorkerAt("status")
    /\ Goto("worker",
            IF rStatus = "completed" \/ (rStatus = "stopped" /\ local.stop)
            THEN "recheck"
            ELSE IF rStatus = "stopped" THEN "except" ELSE "poll")
    /\ UNCHANGED <<run, storeVars, future, local, at, hop, tries, begun,
                   countVars, researchVars>>

(* ... then read the coordinator's status and judge it by the run loaded   *)
(* before.                                                                 *)
PollResearch ==
    /\ WorkerAt("status")
    /\ Goto("worker",
            IF rStatus = "completed" \/ (rStatus = "stopped" /\ local.stop)
            THEN "recheck"
            ELSE IF rStatus \in {"stopped", "failed"} THEN "except"
            ELSE "poll")
    /\ UNCHANGED <<run, storeVars, future, local, at, hop, tries, begun,
                   countVars, researchVars>>

RecheckStop ==
    /\ WorkerAt("recheck")
    /\ local' = run
    /\ Goto("worker", IF run.stop THEN "stop" ELSE "complete")
    /\ UNCHANGED <<run, storeVars, future, at, hop, tries, begun, countVars,
                   researchVars>>

(* A service call returns to, or raises in, the thread that made it. *)
Returns(a) == Goto(a, IF a = "worker" THEN "handoff" ELSE "off")
Raises(a)  == Goto(a, IF a = "worker" THEN "except" ELSE "off")

unchangedByWork ==
    <<run, handoffs, checkpoints, future, local, at, hop, begun, manual,
      crashes, researchVars>>

(* The harness asks get_payload, without the service's lock, whether the   *)
(* analysis exists.                                                        *)
AskAnalysis ==
    /\ WorkerAt("analyze")
    /\ IF "portfolio" \in artifacts THEN Returns("worker")
       ELSE Goto("worker", "call_analysis")
    /\ UNCHANGED <<unchangedByWork, artifacts, tries, paid>>

(* ResearchAnalysisService.run_once takes the lock and asks again; it also *)
(* refuses to analyse without a plan, a board and verified evidence.       *)
LockAnalysis(a) ==
    /\ pc[a] = "call_analysis"
    /\ \A b \in Actors : pc[b] \notin InAnalysis
    /\ IF /\ "portfolio" \notin artifacts
          /\ {"plan", "board"} \subseteq artifacts /\ evidence
       THEN Goto(a, "analyst") ELSE Raises(a)
    /\ UNCHANGED <<unchangedByWork, artifacts, tries, paid>>

(* The analyst's LLM calls fail, or its result is saved: the portfolio     *)
(* first, by which the analysis counts as completed ...                    *)
RunAnalyst(a) ==
    /\ pc[a] = "analyst"
    /\ \/ Raises(a) /\ UNCHANGED <<artifacts, paid>>
       \/ Saves("portfolio") /\ paid' = paid + 1 /\ Goto(a, "save_claims")
    /\ UNCHANGED <<unchangedByWork, tries>>

(* ... and its claims after it.  The checks that follow may still fail.    *)
SaveClaims(a) ==
    /\ pc[a] = "save_claims"
    /\ Saves("claims")
    /\ Goto(a, "cite") \/ Raises(a)
    /\ UNCHANGED <<unchangedByWork, tries, paid>>

(* _run_citation. *)
RunCitation(a) ==
    /\ pc[a] = "cite"
    /\ \/ Saves("citations") /\ Returns(a)
       \/ Raises(a) /\ UNCHANGED artifacts
    /\ UNCHANGED <<unchangedByWork, tries, paid>>

AskReporting ==
    /\ WorkerAt("report")
    /\ IF ReportingDone \subseteq artifacts THEN Returns("worker")
       ELSE Goto("worker", "call_reporting")
    /\ UNCHANGED <<unchangedByWork, artifacts, tries, paid>>

\* Fault: the writer is started whether the citations are checked or not.
LockReportingFaulty(a) ==
    /\ pc[a] = "call_reporting"
    /\ \A b \in Actors : pc[b] \notin InReporting
    /\ Goto(a, IF "report" \in artifacts THEN "statements" ELSE "write")
    /\ tries' = [tries EXCEPT ![a] = 0]
    /\ UNCHANGED <<unchangedByWork, artifacts, paid>>

(* ResearchReportingService.run takes the lock, validates its inputs and   *)
(* resumes at the first artifact that is missing.                          *)
LockReporting(a) ==
    /\ pc[a] = "call_reporting"
    /\ \A b \in Actors : pc[b] \notin InReporting
    /\ IF ~({"claims", "citations"} \subseteq artifacts) THEN Raises(a)
       ELSE IF ReportingDone \subseteq artifacts THEN Returns(a)
       ELSE Goto(a, IF "report" \in artifacts THEN "statements" ELSE "write")
    /\ tries' = [tries EXCEPT ![a] = 0]
    /\ UNCHANGED <<unchangedByWork, artifacts, paid>>

(* _run_writer: the report is saved before its statements.  Only a failed  *)
(* validation is tried again, at most WRITER_MAX_ATTEMPTS times in all.    *)
WriteReport(a) ==
    /\ pc[a] = "write"
    /\ tries' = [tries EXCEPT ![a] = @ + 1]
    /\ \/ Saves("report") /\ Goto(a, "save_statements")
       \/ tries[a] + 1 < WRITER_MAX_ATTEMPTS /\ UNCHANGED <<artifacts, pc>>
       \/ Raises(a) /\ UNCHANGED artifacts
    /\ UNCHANGED <<unchangedByWork, paid>>

SaveStatements(a) ==
    /\ pc[a] = "save_statements"
    /\ Saves("statements") /\ Goto(a, "statements")
    /\ UNCHANGED <<unchangedByWork, tries, paid>>

(* _ensure_report_statements rebuilds what a crash left out. *)
EnsureStatements(a) ==
    /\ pc[a] = "statements"
    /\ Saves("statements")
    /\ Goto(a, IF "review" \in artifacts THEN "gate" ELSE "review")
    /\ UNCHANGED <<unchangedByWork, tries, paid>>

RunReviewer(a) ==
    /\ pc[a] = "review"
    /\ \/ Saves("review") /\ Goto(a, "gate")
       \/ Raises(a) /\ UNCHANGED artifacts
    /\ UNCHANGED <<unchangedByWork, tries, paid>>

RunQualityGate(a) ==
    /\ pc[a] = "gate"
    /\ \/ Saves("gate") /\ Returns(a)
       \/ Raises(a) /\ UNCHANGED artifacts
    /\ UNCHANGED <<unchangedByWork, tries, paid>>

-----------------------------------------------------------------------------
ServiceStep(a) ==
    \/ LockAnalysis(a) \/ RunAnalyst(a) \/ SaveClaims(a) \/ RunCitation(a)
    \/ LockReporting(a) \/ WriteReport(a) \/ SaveStatements(a)
    \/ EnsureStatements(a) \/ RunReviewer(a) \/ RunQualityGate(a)

Worker ==
    \/ WorkerStarts \/ SaveRunning
    \/ CheckBeforeStage \/ CheckBeforeEnd \/ FinishStopped
    \/ EnterStage \/ BeginStage \/ ResumeStage
    \/ CompleteStage \/ AppendCheckpoint \/ MarkCheckpoint \/ Handoff
    \/ BuildPlan \/ SaveBoard
    \/ ReconcileResearch \/ SubmitResearch \/ PollRun \/ PollResearch
    \/ RecheckStop
    \/ AskAnalysis \/ AskReporting \/ ServiceStep("worker")
    \/ Settle \/ Except \/ SaveFailed

Research ==
    /\ ResearchWorker
    /\ UNCHANGED <<run, storeVars, workerVars, begun, countVars>>

ResearchGoesForward ==
    /\ ResearchProgress /\ (ghosts = 0 \/ rStop)
    /\ UNCHANGED <<run, storeVars, workerVars, begun, countVars>>

User ==
    \/ Submit \/ RequestStop
    \/ ManualRequest("call_analysis") \/ ManualRequest("call_reporting")
    \/ DirectResearchRequest

Status == ReconcileInterrupted \/ ReconcileCompleted

(* The run is closed and every thread rests; nobody is waiting. *)
Rest ==
    /\ run.status \in Terminal /\ ~ResearchIsLive
    /\ \A a \in Actors : pc[a] = "off"
    /\ UNCHANGED vars

Next ==
    \/ Worker \/ ServiceStep("manual") \/ Research
    \/ User \/ Status \/ Crash \/ Rest

(* The threads make progress: pools schedule them and every LLM and HTTP   *)
(* call has a timeout.  The status page and the event stream poll.  Users, *)
(* failures and crashes are not fair.  A coordinator with a ghost task may *)
(* go round for ever until it is stopped; any other ends (checked of        *)
(* ResearchCoordinator: SettlesUnlessGhost, StopSettles).                  *)
Fairness ==
    /\ WF_vars(Worker)
    /\ WF_vars(ServiceStep("manual"))
    /\ WF_vars(ResearchGoesForward)
    /\ WF_vars(ReconcileInterrupted)

Spec == Init /\ [][Next]_vars /\ Fairness

-----------------------------------------------------------------------------
(* Properties. *)

(* Types; also the range of every history variable. *)
TypeOK ==
    /\ run \in Run /\ local \in Run
    /\ artifacts \subseteq Artifacts
    /\ handoffs \in Seq(HandoffKeys)
    /\ checkpoints \in Seq([stage : Stages, done : SUBSET Stages])
    /\ future \in Futures
    /\ pc \in [Actors -> Points]
    /\ at \in Stages \cup {"end"}
    /\ hop \in 0..2
    /\ tries \in [Actors -> 0..WRITER_MAX_ATTEMPTS]
    /\ begun \in Nat /\ paid \in Nat
    /\ manual \in 0..MaxManual /\ crashes \in 0..MaxCrashes
    /\ ResearchTypeOK

(* A requested stop is only withdrawn by the explicit resume of a run that *)
(* has ended: no stale copy the worker saves, and no restart, loses it.    *)
StopIsSticky ==
    [][run.stop /\ ~run'.stop
         => /\ Reconciled(run).status \in Terminal
            /\ run'.status = "queued" /\ run'.resumes = run.resumes + 1]_vars

(* Between a stop request and the end of the run at most one more stage    *)
(* begins: the one that was being entered when the request came.           *)
OneStageAfterStop == begun <= 1

(* A run that was asked to stop is never reported as interrupted, whatever *)
(* restarts come between the request and the end.                          *)
StopOutlivesRestart == run.status = "interrupted" => ~run.stop

(* An active run has a thread behind it, or none because the process was   *)
(* restarted: a thread never ends leaving its run active.                  *)
NoOrphanedRun == future = "done" => run.status \in Terminal

(* A completed run has every stage done and the whole evidence chain on    *)
(* disk, also when stages were skipped, retried or recovered by hand.      *)
CompletedIsGrounded ==
    run.status = "completed" =>
        /\ run.done = Stages
        /\ {"claims", "citations"} \cup ReportingDone \subseteq artifacts

(* A report is never written from claims whose citations are unchecked.    *)
ReportIsCitationChecked ==
    "report" \in artifacts => {"claims", "citations"} \subseteq artifacts

(* The analyst's result is saved, and billed, once, although the pipeline  *)
(* and a manual request may both find it missing.                          *)
OneAnalysis == paid <= 1

(* Over all resumes the handoffs follow the pipeline, each made once: a    *)
(* stage that is entered again repeats none of those it made before.       *)
HandoffOrder ==
    [planner_to_research |-> 1, research_to_analyst |-> 2,
     analyst_to_citation |-> 3, citation_to_writer  |-> 4,
     writer_to_reviewer  |-> 5, reviewer_to_gate    |-> 6]

HandoffsInOrder ==
    \A i, j \in 1..Len(handoffs) :
        i < j => HandoffOrder[handoffs[i]] < HandoffOrder[handoffs[j]]

(* Completed stages are never lost, by a stale copy or by a resume. *)
ProgressIsKept == [][run.done \subseteq run'.done]_vars

(* A checkpoint never claims more than the run that is saved: the run is    *)
(* written first, and neither a crash nor a resume takes a stage back.      *)
CheckpointsAreTrue ==
    \A i \in 1..Len(checkpoints) : checkpoints[i].done \subseteq run.done

(* A completed run is final. *)
CompletedIsFinal ==
    [][run.status = "completed" => run'.status = "completed"]_vars

(* Research does not outlive the run: when the run has ended, no research  *)
(* thread is queued or running (the user drives the coordinator only       *)
(* through the pipeline here).                                             *)
NoResearchAfterTheEnd == run.status \in Terminal => ~ResearchIsLive

(* The stages, what is recorded of them, a stop and the research behind    *)
(* them keep step; see the four parts. *)
RunIsOrderly ==
    /\ TypeOK
    /\ CheckpointsAreTrue /\ HandoffsInOrder /\ OneStageAfterStop /\ NoResearchAfterTheEnd

(* A run only loses a stop by a resume, and never progress or completion. *)
RunsMoveForward == StopIsSticky /\ ProgressIsKept /\ CompletedIsFinal

(* Claims are paid once and checked before a report is written from them. *)
ReportIsChecked == ReportIsCitationChecked /\ OneAnalysis

(* Every run that was submitted ends, stopped or not, crashed or not,      *)
(* unless a restart left the coordinator a ghost task; a run that was      *)
(* asked to stop ends even then (it may be resubmitted in the same step).  *)
EveryRunSettles ==
    /\ run.status \in Active ~> (run.status \in Terminal \/ ghosts > 0)
    /\ run.status = "stopping" ~> run.status # "stopping"
=============================================================================
