------------------------------- MODULE Execution -------------------------------
(***************************************************************************)
(* The authorised execution of an analysis task on a frozen dataset        *)
(* (Step6D): ExecutionPlanningService (intake/planning.py) builds a plan   *)
(* and authorises it, which publishes a task board; ExecutionRunner        *)
(* (execution/runner.py) runs the task once in a pool thread;              *)
(* TaskBoardDrivenDAGExecutor (workflow/dynamic_dag.py) schedules the      *)
(* records of the board (workflow/taskboard.py) and the quality gate       *)
(* (workflow/quality_gate.py) closes the work.                             *)
(*                                                                         *)
(* The API threads of the planner take no lock and save the task, the plan *)
(* and the authorisation one after the other, from copies they read        *)
(* before.  Nor does the task board: every operation of it loads the board *)
(* and saves it again, so the executor may save over a board an API thread *)
(* published in between.                                                   *)
(***************************************************************************)
EXTENDS Naturals

CONSTANTS
    NumSteps,     \* the records of the board, in the order of the board
    DependsOn,    \* depends_on of each
    Requests,     \* API threads that build a plan, authorise or submit it
    MaxRequests,  \* bound: how many such requests are made
    MaxCrashes    \* bound: how often the process dies

Steps == 1..NumSteps

ASSUME ExecutionAssumption ==
    /\ NumSteps \in Nat \ {0}
    /\ DependsOn \in [Steps -> SUBSET Steps]
    /\ MaxRequests \in Nat /\ MaxCrashes \in Nat

VARIABLES
    \* saved
    task,      \* the AnalysisTask: authorised, started, execution_status
    plan,      \* the status of the latest ExecutionPlan
    auth,      \* whether an ExecutionAuthorization is saved
    board,     \* the status of every record of the task board
    run,       \* the status of the ExecutionRun, "none" before it
    gate,      \* the QualityGateDecision
    \* memory of the process
    req,       \* each API thread: where it is and the task it read
    future,    \* self._futures[task_id]
    pc,        \* where the worker is
    job,       \* the task it was given
    copy,      \* the board as it last saved it
    nodes,     \* the status of the DAG nodes
    cur,       \* the record it runs
    ok,        \* what the agent of that record returned
    \* history
    ran,       \* how often the agent of each record was run
    done,      \* the records whose agent has succeeded
    resets,    \* boards published after the run was submitted
    requests, crashes

planVars   == <<task, plan, auth, req, requests>>
workerVars == <<pc, job, copy, nodes, cur, ok>>
workVars   == <<board, gate, ran, done, resets>>
vars == <<planVars, workVars, run, future, workerVars, crashes>>

Active   == {"queued", "running"}
Terminal == {"completed", "failed"}
Statuses == {"pending", "ready", "claimed", "running", "completed", "failed"}
NoTask   == [authorized |-> FALSE, started |-> FALSE, state |-> "new"]
Idle     == [at |-> "idle", task |-> NoTask]

(* _build_task_records: the first record is ready. *)
FreshBoard == [t \in Steps |-> IF t = 1 THEN "ready" ELSE "pending"]
NoBoard    == [t \in Steps |-> "pending"]

Init ==
    /\ task = NoTask /\ plan = "none" /\ auth = FALSE
    /\ board = NoBoard /\ run = "none" /\ gate = "none"
    /\ req = [r \in Requests |-> Idle]
    /\ future = "none" /\ pc = "off" /\ job = NoTask /\ copy = NoBoard
    /\ nodes = NoBoard /\ cur = 1 /\ ok = FALSE
    /\ ran = [t \in Steps |-> 0] /\ done = {}
    /\ resets = 0 /\ requests = 0 /\ crashes = 0

-----------------------------------------------------------------------------
(* The planner's requests. *)

Reads(r, point) ==
    /\ req[r].at = "idle" /\ requests < MaxRequests
    /\ requests' = requests + 1
    /\ req' = [req EXCEPT ![r] = [at |-> point, task |-> task]]

Proceeds(r, point) == req' = [req EXCEPT ![r] = IF point = "idle" THEN Idle
                                             ELSE [@ EXCEPT !.at = point]]

(* build_plan refuses a task that is authorised or started.  The plan is    *)
(* blocked when the dataset does not fit the task.                         *)
BuildPlan(r) ==
    /\ ~task.started /\ ~task.authorized
    /\ Reads(r, "plan_task")
    /\ UNCHANGED <<task, plan, auth, workVars, run, future, workerVars, crashes>>

BuildSavesTask(r) ==
    /\ req[r].at = "plan_task"
    /\ task' = [req[r].task EXCEPT !.started = FALSE, !.state = "planned"]
    /\ Proceeds(r, "plan_plan")
    /\ UNCHANGED <<plan, auth, requests, workVars, run, future, workerVars, crashes>>

BuildSavesPlan(r) ==
    /\ req[r].at = "plan_plan"
    /\ plan' \in {"ready", "blocked"}
    /\ Proceeds(r, "idle")
    /\ UNCHANGED <<task, auth, requests, workVars, run, future, workerVars, crashes>>

(* authorize: a plan that is authorised is returned as it is, or an error  *)
(* raised when its authorisation is missing; one that is ready is          *)
(* authorised.                                                             *)
Authorize(r) ==
    /\ plan = "ready"
    /\ Reads(r, "auth_board")
    /\ UNCHANGED <<task, plan, auth, workVars, run, future, workerVars, crashes>>

AuthorizeSavesBoard(r) ==
    /\ req[r].at = "auth_board"
    /\ board' = FreshBoard
    /\ resets' = resets + (IF run = "none" THEN 0 ELSE 1)
    /\ Proceeds(r, "auth_task")
    /\ UNCHANGED <<task, plan, auth, requests, gate, ran, done, run, future,
                   workerVars, crashes>>

AuthorizeSavesTask(r) ==
    /\ req[r].at = "auth_task"
    /\ task' = [authorized |-> TRUE, started |-> FALSE, state |-> "queued"]
    /\ Proceeds(r, "auth_plan")
    /\ UNCHANGED <<plan, auth, requests, workVars, run, future, workerVars, crashes>>

AuthorizeSavesPlan(r) ==
    /\ req[r].at = "auth_plan"
    /\ plan' = "authorized"
    /\ Proceeds(r, "auth_auth")
    /\ UNCHANGED <<task, auth, requests, workVars, run, future, workerVars, crashes>>

AuthorizeSavesAuth(r) ==
    /\ req[r].at = "auth_auth"
    /\ auth' = TRUE
    /\ Proceeds(r, "idle")
    /\ UNCHANGED <<task, plan, requests, workVars, run, future, workerVars, crashes>>

Planner(r) ==
    \/ BuildPlan(r) \/ BuildSavesTask(r) \/ BuildSavesPlan(r)
    \/ Authorize(r) \/ AuthorizeSavesBoard(r) \/ AuthorizeSavesTask(r)
    \/ AuthorizeSavesPlan(r) \/ AuthorizeSavesAuth(r)

-----------------------------------------------------------------------------
(* The runner's API. *)

(* submit reads the task before it takes the lock, and hands that copy to   *)
(* the worker; the plan and the authorisation it reads next are taken as    *)
(* they are under the lock.                                                *)
Submit(r) ==
    /\ Reads(r, "submit")
    /\ UNCHANGED <<task, plan, auth, workVars, run, future, workerVars, crashes>>

(* A task is run once: an active run is returned as it is and a terminal    *)
(* one refused.                                                            *)
SubmitQueues(r) ==
    /\ req[r].at = "submit"
    /\ auth /\ plan = "authorized"
    /\ run = "none"
    /\ run' = "queued" /\ future' = "queued" /\ job' = req[r].task
    /\ Proceeds(r, "idle")
    /\ UNCHANGED <<task, plan, auth, requests, workVars, pc, copy, nodes, cur, ok,
                   crashes>>

SubmitRefused(r) ==
    /\ req[r].at = "submit"
    /\ ~auth \/ plan # "authorized" \/ run # "none"
    /\ Proceeds(r, "idle")
    /\ UNCHANGED <<task, plan, auth, requests, workVars, run, future, workerVars,
                   crashes>>

Submitter(r) == Submit(r) \/ SubmitQueues(r) \/ SubmitRefused(r)

\* Fault: a run is closed only when its finished thread is still known.
ReconcileFaulty ==
    /\ run \in Active /\ future = "done"
    /\ run' = "failed"
    /\ UNCHANGED <<planVars, workVars, future, workerVars, crashes>>

(* reconcile_interrupted, which the status page calls. *)
ReconcileInterrupted ==
    /\ run \in Active /\ future \notin Active
    /\ run' = "failed"
    /\ UNCHANGED <<planVars, workVars, future, workerVars, crashes>>

Crash ==
    /\ crashes < MaxCrashes
    /\ crashes' = crashes + 1
    /\ req' = [r \in Requests |-> Idle]
    /\ future' = "none" /\ pc' = "off" /\ job' = NoTask /\ copy' = board
    /\ nodes' = NoBoard /\ cur' = 1 /\ ok' = FALSE
    /\ UNCHANGED <<task, plan, auth, requests, workVars, run>>

-----------------------------------------------------------------------------
(* The worker, ExecutionRunner._execute. *)

Goto(point) == pc' = point

Start ==
    /\ future = "queued" /\ pc = "off"
    /\ future' = "running" /\ run' = "running"
    /\ Goto("tstate")
    /\ UNCHANGED <<planVars, workVars, job, copy, nodes, cur, ok, crashes>>

(* _save_task_state, from the task the worker was given at the submit. *)
TaskState(state) ==
    task' = [job EXCEPT !.started = TRUE, !.state = state]

SaveTaskState ==
    /\ pc = "tstate"
    /\ TaskState("running")
    /\ copy' = board
    /\ Goto("build")
    /\ UNCHANGED <<plan, auth, req, requests, workVars, run, future, job, nodes,
                   cur, ok, crashes>>

(* An operation of the board loads it after the executor's last save and    *)
(* before its own: it works on that board, or on one published since.       *)
Loaded == {copy, board}
Saves(b) == board' = b /\ copy' = b

(* reuse_task_board: the board that is saved is taken over, with one DAG    *)
(* node for every record.                                                   *)
MaterializeNodes ==
    /\ pc = "build"
    /\ \E b \in Loaded :
          /\ Saves(b)
          /\ nodes' = [t \in Steps |-> IF b[t] \in {"running", "completed", "failed"}
                                       THEN b[t] ELSE "pending"]
    /\ Goto("mark")
    /\ UNCHANGED <<planVars, gate, ran, done, resets, run, future, job, cur, ok,
                   crashes>>

\* Fault: a record that is completed is made ready again.
MarkReadyAgain(b) ==
    [t \in Steps |->
        IF b[t] \in {"claimed", "running", "failed"} THEN b[t]
        ELSE IF \A d \in DependsOn[t] : b[d] = "completed"
        THEN "ready" ELSE "pending"]

(* mark_ready_tasks: what is neither active nor terminal is ready when its  *)
(* dependencies are completed.                                              *)
MarkReady(b) ==
    [t \in Steps |->
        IF b[t] \in {"pending", "ready"}
        THEN IF \A d \in DependsOn[t] : b[d] = "completed"
             THEN "ready" ELSE "pending"
        ELSE b[t]]

Ready(b)    == {t \in Steps : b[t] = "ready"}
Finished(b) == \/ \E t \in Steps : b[t] = "failed"
               \/ \A t \in Steps : b[t] = "completed"

(* One turn of execute: the first ready record of the board is run.  When   *)
(* there is none the board is marked as blocked and the loop ends too.      *)
Schedule ==
    /\ pc = "mark"
    /\ \E b \in Loaded :
          LET marked == MarkReady(b) IN
          /\ Saves(marked)
          /\ IF Finished(marked) \/ Ready(marked) = {}
             THEN Goto("gate") /\ UNCHANGED cur
             ELSE /\ Goto("claim")
                  /\ cur' \in Ready(marked)
                  /\ \A t \in Ready(marked) : cur' <= t
    /\ UNCHANGED <<planVars, gate, ran, done, resets, run, future, job, nodes, ok,
                   crashes>>

(* _run_record: the record is claimed, running, and its attempt counted,    *)
(* each by an operation on the board.                                       *)
RecordBecomes(point, status, next) ==
    /\ pc = point
    /\ \E b \in Loaded : Saves([b EXCEPT ![cur] = status])
    /\ Goto(next)
    /\ UNCHANGED <<planVars, gate, ran, done, resets, run, future, job, nodes, cur,
                   ok, crashes>>

Claim        == RecordBecomes("claim", "claimed", "running")
SetRunning   == RecordBecomes("running", "running", "attempt")
CountAttempt == RecordBecomes("attempt", "running", "began")

(* on_progress("running"), then the agent, whose exceptions AgentRuntime    *)
(* turns into a failed result.                                              *)
Began ==
    /\ pc = "began"
    /\ run' = "running"
    /\ Goto("act")
    /\ UNCHANGED <<planVars, workVars, future, job, copy, nodes, cur, ok, crashes>>

RunAgent ==
    /\ pc = "act"
    /\ ran' = [ran EXCEPT ![cur] = @ + 1]
    /\ ok' \in BOOLEAN
    /\ done' = IF ok' THEN done \cup {cur} ELSE done
    /\ nodes' = [nodes EXCEPT ![cur] = IF ok' THEN "completed" ELSE "failed"]
    /\ Goto("close")
    /\ UNCHANGED <<planVars, board, gate, resets, run, future, job, copy, cur, crashes>>

\* Fault: the record is completed whatever its agent returned.
CloseFaulty == RecordBecomes("close", "completed", "ended")

Close == RecordBecomes("close", IF ok THEN "completed" ELSE "failed", "ended")

(* on_progress("completed" or "failed"). *)
Ended ==
    /\ pc = "ended"
    /\ run' = IF ok THEN "running" ELSE "failed"
    /\ Goto("mark")
    /\ UNCHANGED <<planVars, workVars, future, job, copy, nodes, cur, ok, crashes>>

\* Fault: what counts is that the executor came to an end of the board.
AllNodesCompletedFaulty == Ready(copy) = {}

(* The gate and the pipeline_status of the summary judge the nodes of the   *)
(* executor; the gate, and what comes after it, may raise.                  *)
AllNodesCompleted == \A t \in Steps : nodes[t] = "completed"

Judge ==
    /\ pc = "gate"
    /\ IF AllNodesCompleted
       THEN \/ gate' \in {"passed", "blocked"} /\ pc' \in Terminal
            \/ UNCHANGED gate /\ Goto("failed")
       ELSE UNCHANGED gate /\ Goto("failed")
    /\ UNCHANGED <<planVars, board, ran, done, resets, run, future, job, copy, nodes,
                   cur, ok, crashes>>

SaveOutcome ==
    /\ pc \in Terminal
    /\ run' = pc
    /\ Goto("over")
    /\ UNCHANGED <<planVars, workVars, future, job, copy, nodes, cur, ok, crashes>>

SaveFinalState ==
    /\ pc = "over"
    /\ TaskState(run)
    /\ future' = "done"
    /\ Goto("off")
    /\ UNCHANGED <<plan, auth, req, requests, workVars, run, job, copy, nodes, cur,
                   ok, crashes>>

(* The clients of the LLM cannot be configured.                             *)
ConfigurationFails ==
    /\ pc = "build"
    /\ Goto("failed")
    /\ UNCHANGED <<planVars, workVars, run, future, job, copy, nodes, cur, ok, crashes>>

Worker ==
    \/ Start \/ SaveTaskState \/ ConfigurationFails \/ MaterializeNodes \/ Schedule
    \/ Claim \/ SetRunning \/ CountAttempt \/ Began \/ RunAgent \/ Close \/ Ended
    \/ Judge \/ SaveOutcome \/ SaveFinalState

Next ==
    \/ \E r \in Requests : Planner(r) \/ Submitter(r)
    \/ ReconcileInterrupted \/ Worker \/ Crash

(* The pool runs its thread, whose agents end, and the status page polls.   *)
Spec == Init /\ [][Next]_vars /\ WF_vars(Worker) /\ WF_vars(ReconcileInterrupted)

-----------------------------------------------------------------------------
(* Properties. *)

RequestPoints == {"idle", "plan_task", "plan_plan", "auth_board", "auth_task",
                  "auth_plan", "auth_auth", "submit"}
Points == {"off", "tstate", "build", "mark", "claim", "running", "attempt",
           "began", "act", "close", "ended", "gate", "completed", "failed", "over"}
Tasks  == [authorized : BOOLEAN, started : BOOLEAN,
           state : {"new", "planned", "queued", "running", "completed", "failed"}]
Plans  == {"none", "ready", "blocked", "authorized"}
Board  == [Steps -> Statuses]

(* Every variable has its type. *)
TypeOK ==
    /\ task \in Tasks /\ job \in Tasks
    /\ plan \in Plans /\ auth \in BOOLEAN
    /\ req \in [Requests -> [at : RequestPoints, task : Tasks]]
    /\ board \in Board /\ copy \in Board /\ nodes \in Board
    /\ run \in {"none"} \cup Active \cup Terminal
    /\ gate \in {"none", "passed", "blocked"}
    /\ future \in {"none", "queued", "running", "done"}
    /\ pc \in Points /\ cur \in Steps /\ ok \in BOOLEAN
    /\ ran \in [Steps -> Nat] /\ done \subseteq Steps
    /\ resets \in Nat /\ requests \in 0..MaxRequests /\ crashes \in 0..MaxCrashes

(* A record is only run when the agents of all it depends on have          *)
(* succeeded, also on a board that was published again in the meantime.    *)
DependenciesFirst == pc = "act" => DependsOn[cur] \subseteq done

(* A record is run once, and once more at most for every board that an     *)
(* authorisation published after the start.                                *)
RepeatsNeedReset == \A t \in Steps : ran[t] <= 1 + resets

(* A completed run has run all its records with success, in this run of    *)
(* the executor, and has passed through the quality gate.                  *)
CompletedIsWhole == run = "completed" => done = Steps /\ gate # "none"

(* A run that ended stays as it ended, although the outcome of a failed    *)
(* record is saved as the run's before the worker ends.  Only a board      *)
(* published again brings a failed run back.                               *)
EndIsFinal ==
    [][(run \in Terminal /\ resets = 0) => run' = run]_vars

(* Every run that is submitted ends, whatever restarts and requests come   *)
(* in between.                                                             *)
EveryRunSettles == run \in Active ~> run \in Terminal

(* Types, and the order of the board. *)
BoardIsSound == TypeOK /\ DependenciesFirst

(* A run ends, and its end stays. *)
RunsEnd == EveryRunSettles /\ EndIsFinal
=============================================================================
