------------------------- MODULE ResearchCoordinator -------------------------
(***************************************************************************)
(* ResearchAgentCoordinator with the mission service and the coverage      *)
(* refresh it calls: execution/research_agent_coordinator.py,              *)
(* execution/research_mission.py and the gap tasks of intake/step6e4.py.   *)
(*                                                                         *)
(* The worker runs the research tasks round by round.  After a round it    *)
(* recomputes the coverage, which creates the tasks of the next round, and *)
(* asks the supervisor of every mission whether to go on.  What the agents *)
(* find, how coverage is judged and which need a supervisor picks are      *)
(* choices.  A research task is a slot: a need in a round, since           *)
(* _deduplicated_research_tasks admits one task per round and scope.       *)
(* supplement_enabled is on, as everywhere but in evaluations.             *)
(***************************************************************************)
EXTENDS Naturals, FiniteSets, FiniteSetsExt

CONSTANTS
    Needs,                      \* information needs, one per scope
    Missions,                   \* one per competitor
    MissionOf,                  \* the mission of a need
    MaxRounds,                  \* budget.max_collection_rounds of the plan
    MAX_TRANSIENT_TASK_RESUMES,
    MaxCrashes                  \* bound: how often the process may die

ASSUME CoordinatorAssumption ==
    /\ IsFiniteSet(Needs) /\ Needs # {}
    /\ MissionOf \in [Needs -> Missions]
    /\ MaxRounds \in Nat \ {0}
    /\ MAX_TRANSIENT_TASK_RESUMES \in Nat
    /\ MaxCrashes \in Nat

VARIABLES
    \* saved, or shared by the threads
    rStatus,       \* status of the latest run, "none" before the first
    rFuture,       \* its future
    rStop,         \* it is in self._stop_requested
    task,          \* the state of each slot
    resumes,       \* metadata.transient_resume_count of a slot's task
    results,       \* worker results of a slot merged into its mission
    found,         \* slots whose verified evidence is saved
    cov,           \* needs whose evidence_coverage is sufficient
    finished,      \* missions with status "finished"
    spent,         \* the budget that is used up, if any
    \* the worker thread
    pc,
    todo,          \* slots of this round still to run
    cur,           \* the slot that runs
    curRound,      \* round_number
    unsupervised,  \* missions still to ask after this round
    \* history and bounds
    begun,         \* tasks begun since the stop was requested, up to 2
    crashes

runVars      == <<rStatus, rFuture, rStop>>
taskVars     == <<task, resumes, results, found, cov, finished>>
workerVars   == <<pc, todo, cur, curRound, unsupervised>>
boundVars    == <<begun, crashes>>
vars         == <<runVars, taskVars, spent, workerVars, boundVars>>

ACTIVE_STATUSES   == {"queued", "running", "stopping"}
TERMINAL_STATUSES == {"completed", "failed", "stopped"}

Slots  == Needs \X (1..MaxRounds)
NoSlot == <<>>

(* What a slot's task can be.  The last three of waiting_for_collector are *)
(* one status to the code: a ghost's agent run has ended already, and the  *)
(* result of a stuck one is merged as well.                                *)
Waiting    == {"waiting", "ghost", "stuck"}
TaskStates == Waiting \cup {"none", "done", "transient", "failed"}

MissionTasks(m) == {s \in Slots : MissionOf[s[1]] = m}
Exists          == {s \in Slots : task[s] # "none"}
RoundsOf(n)     == {r \in 1..MaxRounds : task[<<n, r>>] # "none"}
CurrentRound    == Max({1} \cup {s[2] : s \in Exists})
HasEvidence(n)  == \E r \in 1..MaxRounds : <<n, r>> \in found
HasResult(m)    == \E s \in MissionTasks(m) : results[s] > 0
Units(m)        == MapThenSumSet(LAMBDA s : results[s], MissionTasks(m))
AllCovered      == cov = Needs

(* _runnable_research_tasks *)
Runnable == {s \in Slots : task[s] \in Waiting /\ MissionOf[s[1]] \notin finished}
Ghosts   == {s \in Runnable : task[s] # "waiting"}

Init ==
    /\ rStatus = "none" /\ rFuture = "none" /\ rStop = FALSE
    /\ task = [s \in Slots |-> "none"]
    /\ resumes = [s \in Slots |-> 0] /\ results = [s \in Slots |-> 0]
    /\ found = {} /\ cov = {} /\ finished = {} /\ spent = "no"
    /\ pc = "off" /\ todo = {} /\ cur = NoSlot /\ curRound = 1
    /\ unsupervised = {} /\ begun = 0 /\ crashes = 0

-----------------------------------------------------------------------------
(* The API threads. *)

(* The planner saves the first round; some of its tasks are covered by a   *)
(* snapshot and never run.                                                 *)
Plan ==
    /\ Exists = {} /\ rStatus = "none"
    /\ \E covered \in SUBSET Needs :
          task' = [s \in Slots |-> IF s[2] # 1 THEN "none"
                                   ELSE IF s[1] \in covered THEN "done"
                                   ELSE "waiting"]
    /\ UNCHANGED <<runVars, resumes, results, found, cov, finished, spent,
                   workerVars, boundVars>>

(* _requeue_transient_research_tasks: only the latest task of a scope that *)
(* is still uncovered.                                                     *)
Requeueable ==
    {s \in Slots : /\ rStatus = "failed"
                   /\ task[s] = "transient"
                   /\ s[2] = Max(RoundsOf(s[1]))
                   /\ s[1] \notin cov
                   /\ resumes[s] < MAX_TRANSIENT_TASK_RESUMES}

\* Fault: a run without a task to run is queued.
SubmitFaulty ==
    /\ rStatus \notin ACTIVE_STATUSES /\ Exists # {} /\ Runnable = {}
    /\ rStatus' = "queued" /\ rFuture' = "queued"
    /\ UNCHANGED <<rStop, taskVars, spent, workerVars, boundVars>>

(* submit.  The action budget is computed anew, the sources only grow.     *)
Submit ==
    /\ rStatus \notin ACTIVE_STATUSES
    /\ task' = [s \in Slots |-> IF s \in Requeueable THEN "waiting" ELSE task[s]]
    /\ resumes' = [s \in Slots |-> IF s \in Requeueable THEN resumes[s] + 1
                                   ELSE resumes[s]]
    /\ finished' = finished \ {MissionOf[s[1]] : s \in Requeueable}
    /\ Runnable' # {}
    /\ spent' \in (IF spent = "sources" THEN {"sources"}
                   ELSE {"no", "actions", "sources"})
    /\ rStatus' = "queued" /\ rFuture' = "queued"
    /\ UNCHANGED <<rStop, results, found, cov, workerVars, boundVars>>

(* request_stop: a worker that is still queued is cancelled. *)
RequestStop ==
    /\ rStatus \in {"queued", "running"}
    /\ begun' = 0
    /\ IF rFuture \in {"none", "queued"}
       THEN /\ rStatus' = "stopped" /\ rStop' = FALSE
            /\ rFuture' = IF rFuture = "none" THEN "none" ELSE "done"
       ELSE /\ rStatus' = "stopping" /\ rStop' = TRUE
            /\ UNCHANGED rFuture
    /\ UNCHANGED <<taskVars, spent, workerVars, crashes>>

(* reconcile_interrupted: an active run whose worker is gone is closed. *)
Reconcile ==
    /\ rStatus \in ACTIVE_STATUSES
    /\ rFuture \notin {"queued", "running"}
    /\ rStatus' = IF rStatus = "stopping" THEN "stopped" ELSE "failed"
    /\ rStop' = IF rStatus = "stopping" THEN FALSE ELSE rStop
    /\ UNCHANGED <<rFuture, taskVars, spent, workerVars, boundVars>>

WorkerGone ==
    /\ pc' = "off" /\ todo' = {} /\ cur' = NoSlot /\ curRound' = 1
    /\ unsupervised' = {}

(* The process dies.  The task that ran stays waiting, its agent run may   *)
(* have ended.                                                             *)
Crash ==
    /\ crashes < MaxCrashes
    /\ crashes' = crashes + 1
    /\ rFuture' = "none" /\ rStop' = FALSE
    /\ WorkerGone
    /\ begun' = 0
    /\ \/ UNCHANGED task
       \/ /\ pc = "run" /\ task[cur] = "waiting"
          /\ task' = [task EXCEPT ![cur] = "ghost"]
    /\ UNCHANGED <<rStatus, resumes, results, found, cov, finished, spent>>

-----------------------------------------------------------------------------
(* The worker, _execute. *)

(* _finish: a requested stop overrides every outcome but a failure. *)
Finish(outcome) ==
    /\ rStatus' = IF rStop /\ outcome # "failed" THEN "stopped" ELSE outcome
    /\ rStop' = FALSE
    /\ rFuture' = "done"
    /\ WorkerGone
    /\ begun' = 0
    /\ UNCHANGED <<taskVars, spent, crashes>>

(* _stop_if_requested *)
StopCheck == rStop /\ Finish("stopped")

GoOn(p) ==
    /\ ~rStop
    /\ pc' = p
    /\ UNCHANGED <<runVars, taskVars, spent, todo, cur, curRound, unsupervised,
                   boundVars>>

PickedUp ==
    /\ rFuture = "queued"
    /\ rFuture' = "running" /\ pc' = "start"
    /\ UNCHANGED <<rStatus, rStop, taskVars, spent, todo, cur, curRound,
                   unsupervised, boundVars>>

CheckBeforeStart == pc = "start" /\ (StopCheck \/ GoOn("save"))

\* Fault: the worker's copy is saved over a stop that came in between.
SaveRunningFaulty ==
    /\ pc = "save"
    /\ rStatus' = "running" /\ pc' = "loop"
    /\ UNCHANGED <<rFuture, rStop, taskVars, spent, todo, cur, curRound,
                   unsupervised, boundVars>>

(* A stop that is saved in between survives the save, see _save_run. *)
SaveRunning ==
    /\ pc = "save"
    /\ rStatus' = IF rStatus = "stopping" THEN "stopping" ELSE "running"
    /\ pc' = "loop"
    /\ UNCHANGED <<rFuture, rStop, taskVars, spent, todo, cur, curRound,
                   unsupervised, boundVars>>

CheckBeforeRound == pc = "loop" /\ (StopCheck \/ GoOn("choose"))

\* Fault: every runnable task is run, of whatever round.
ChooseRoundFaulty ==
    /\ pc = "choose"
    /\ IF spent # "no" \/ Runnable = {}
       THEN Finish("completed")
       ELSE /\ curRound' = Min({s[2] : s \in Runnable})
            /\ todo' = Runnable
            /\ pc' = "check"
            /\ UNCHANGED <<runVars, taskVars, spent, cur, unsupervised, boundVars>>

(* The next round is the earliest one that has a runnable task. *)
ChooseRound ==
    /\ pc = "choose"
    /\ IF spent # "no" \/ Runnable = {}
       THEN Finish("completed")
       ELSE /\ curRound' = Min({s[2] : s \in Runnable})
            /\ todo' = {s \in Runnable : s[2] = curRound'}
            /\ pc' = "check"
            /\ UNCHANGED <<runVars, taskVars, spent, cur, unsupervised, boundVars>>

(* The check before a task and after it. *)
CheckBeforeTask ==
    /\ pc = "check"
    /\ \/ StopCheck
       \/ GoOn(IF todo = {} THEN "refresh" ELSE "begin")

(* _run_research_task, unless the budget is used up. *)
BeginTask ==
    /\ pc = "begin"
    /\ IF spent # "no"
       THEN pc' = "refresh" /\ todo' = {} /\ UNCHANGED <<cur, begun>>
       ELSE \E s \in todo :
               /\ cur' = s /\ todo' = todo \ {s} /\ pc' = "run"
               /\ begun' = IF rStop /\ begun < 2 THEN begun + 1 ELSE begun
    /\ UNCHANGED <<runVars, taskVars, spent, curRound, unsupervised, crashes>>

(* The agent saves verified evidence. *)
Collect ==
    /\ pc = "run" /\ cur \notin found /\ task[cur] = "waiting"
    /\ found' = found \cup {cur}
    /\ spent' \in {spent, "sources"}
    /\ UNCHANGED <<runVars, task, resumes, results, cov, finished, workerVars,
                   boundVars>>

(* Coverage is judged from the verified evidence that is saved; that of a  *)
(* finished mission has not changed.                                       *)
Judged(n) == MissionOf[n] \notin finished
Coverages ==
    {c \in SUBSET Needs : \A n \in Needs : IF Judged(n) THEN n \in c => HasEvidence(n)
                                           ELSE n \in c <=> n \in cov}

(* run_once: the task's status is saved and the coverage projected.  A run *)
(* that is terminal already is returned as it is, its task stays waiting.  *)
TaskEnds ==
    /\ pc = "run"
    /\ task' = [task EXCEPT ![cur] = IF @ = "waiting" THEN "done" ELSE @]
    /\ cov' \in Coverages
    /\ spent' \in {spent} \cup (IF spent = "no" THEN {"actions"} ELSE {})
    /\ pc' = "merge"
    /\ UNCHANGED <<runVars, resumes, results, found, finished, todo, cur, curRound,
                   unsupervised, boundVars>>

\* Fault: a run is merged whenever its task is run.
MergedFaulty(s) == [results EXCEPT ![s] = @ + 1]

(* merge_worker: a run that was merged is not counted again. *)
Merged(s) == [results EXCEPT ![s] = IF task[s] = "stuck" THEN @ ELSE @ + 1]

MergeResult ==
    /\ pc = "merge"
    /\ results' = Merged(cur)
    /\ task' = [task EXCEPT ![cur] = IF @ = "ghost" THEN "stuck" ELSE @]
    /\ pc' = "check" /\ cur' = NoSlot
    /\ UNCHANGED <<runVars, resumes, found, cov, finished, spent, todo, curRound,
                   unsupervised, boundVars>>

\* Fault: a failed task is not recorded.
TaskFailsFaulty ==
    /\ pc \in {"run", "merge"}
    /\ pc' = "check" /\ cur' = NoSlot
    /\ UNCHANGED <<runVars, taskVars, spent, todo, curRound, unsupervised,
                   boundVars>>

(* _record_research_task_failure takes the evidence back.  Only the run of *)
(* the agent itself can have met a transport error.                        *)
TaskFails ==
    /\ pc \in {"run", "merge"}
    /\ \E outcome \in {"failed"} \cup
             (IF pc = "run" /\ task[cur] = "waiting" THEN {"transient"} ELSE {}) :
          task' = [task EXCEPT ![cur] = outcome]
    /\ found' = found \ {cur}
    /\ results' = Merged(cur)
    /\ pc' = "check" /\ cur' = NoSlot
    /\ UNCHANGED <<runVars, resumes, cov, finished, spent, todo, curRound,
                   unsupervised, boundVars>>

(* build_step6e4_research_tasks: the gaps get a task in the next round,    *)
(* unless the current one still has one waiting.                           *)
Supplements(covered) ==
    {s \in Slots : /\ s[1] \notin covered
                   /\ s[2] = CurrentRound + 1
                   /\ spent # "sources"
                   /\ task[<<s[1], CurrentRound>>] \notin Waiting}

(* The coverage refresh of a round. *)
RefreshCoverage ==
    /\ pc = "refresh"
    /\ \E covered \in Coverages :
          /\ cov' = covered
          /\ task' = [s \in Slots |->
                         IF s \in Supplements(covered) THEN "waiting" ELSE task[s]]
    /\ unsupervised' = {m \in Missions : /\ spent = "no" /\ m \notin finished
                                         /\ HasResult(m)}
    /\ pc' = "supervise"
    /\ UNCHANGED <<runVars, resumes, results, found, finished, spent, todo, cur,
                   curRound, boundVars>>

(* The gate of _supervise_missions, which overrules the supervisor both    *)
(* ways: a bounded mission finishes, any other goes on.                    *)
Bounded(m) ==
    \/ \A n \in Needs : MissionOf[n] = m => n \in cov
    \/ curRound >= MaxRounds
    \/ Units(m) >= Cardinality({n \in Needs : MissionOf[n] = m}) * MaxRounds

(* materialize_research_unit: the task of that round is reused if there is *)
(* one, and a second one of its scope would not be admitted.               *)
Supervise(m) ==
    /\ pc = "supervise" /\ m \in unsupervised
    /\ unsupervised' = unsupervised \ {m}
    /\ IF Bounded(m)
       THEN finished' = finished \cup {m} /\ UNCHANGED task
       ELSE /\ \E n \in Needs :
                  /\ MissionOf[n] = m
                  /\ task' = [task EXCEPT ![<<n, curRound + 1>>] =
                                 IF @ = "none" THEN "waiting" ELSE @]
            /\ UNCHANGED finished
    /\ UNCHANGED <<runVars, resumes, results, found, cov, spent, pc, todo, cur,
                   curRound, boundVars>>

(* _post_coverage_stop *)
PostCoverage ==
    /\ pc = "supervise" /\ unsupervised = {}
    /\ IF AllCovered \/ spent # "no" \/ Runnable = {}
       THEN Finish("completed")
       ELSE /\ pc' = "loop"
            /\ UNCHANGED <<runVars, taskVars, spent, todo, cur, curRound,
                           unsupervised, boundVars>>

(* The refresh or a supervisor raises. *)
LoopFails == pc \in {"refresh", "supervise"} /\ Finish("failed")

Worker ==
    \/ PickedUp \/ CheckBeforeStart \/ SaveRunning
    \/ CheckBeforeRound \/ ChooseRound \/ CheckBeforeTask \/ BeginTask
    \/ Collect \/ TaskEnds \/ MergeResult \/ TaskFails
    \/ RefreshCoverage \/ (\E m \in Missions : Supervise(m)) \/ PostCoverage
    \/ LoopFails

Next == Plan \/ Submit \/ RequestStop \/ Reconcile \/ Crash \/ Worker

Spec == Init /\ [][Next]_vars

(* The pool runs its thread, and the status page, which is polled while a  *)
(* run is active, reconciles.  Nobody has to submit, stop or crash.        *)
FairSpec == Spec /\ WF_vars(Worker) /\ WF_vars(Reconcile)

-----------------------------------------------------------------------------
(* Properties. *)

Points == {"off", "start", "save", "loop", "choose", "check", "begin", "run",
           "merge", "refresh", "supervise"}

(* Every variable has its type; a slot is resumed at most                  *)
(* MAX_TRANSIENT_TASK_RESUMES times.                                       *)
TypeOK ==
    /\ rStatus \in ACTIVE_STATUSES \cup TERMINAL_STATUSES \cup {"none"}
    /\ rFuture \in {"none", "queued", "running", "done"}
    /\ rStop \in BOOLEAN
    /\ task \in [Slots -> TaskStates]
    /\ resumes \in [Slots -> 0..MAX_TRANSIENT_TASK_RESUMES]
    /\ results \in [Slots -> Nat]
    /\ found \subseteq Slots /\ cov \subseteq Needs /\ finished \subseteq Missions
    /\ spent \in {"no", "actions", "sources"}
    /\ pc \in Points
    /\ todo \subseteq Slots
    /\ cur \in Slots \cup {NoSlot}
    /\ curRound \in 1..MaxRounds
    /\ unsupervised \subseteq Missions
    /\ begun \in 0..2 /\ crashes \in 0..MaxCrashes

(* A stop request that comes between the check and the start of a task     *)
(* lets that one task run, and none after it.                              *)
OneTaskAfterStop == begun <= 1

(* The flag in memory and the saved status agree: a stop is never left     *)
(* behind for the next run, nor a stopping run without its flag while its  *)
(* worker lives.                                                           *)
StopFlagIsCurrent ==
    /\ rStop => rStatus = "stopping" /\ rFuture = "running"
    /\ rStatus = "stopping" /\ rFuture = "running" => rStop

(* A run that is stopping becomes stopped, or failed: no save of the       *)
(* worker's older copy revives it and no outcome hides the stop.           *)
StopWins ==
    [][rStatus = "stopping" => rStatus' \in {"stopping", "stopped", "failed"}]_vars

(* "Collection rounds are global phases": a task only runs when no earlier *)
(* round has one left, and never in a mission that is finished.            *)
RoundsAreGlobalPhases ==
    pc \in {"begin", "run", "merge"} =>
        /\ \A s \in todo : s \in Runnable /\ s[2] = curRound
        /\ cur # NoSlot => MissionOf[cur[1]] \notin finished
        /\ \A s \in Runnable : s[2] >= curRound

(* What a stop and a round hold back stays held back. *)
ResearchIsOrderly == TypeOK /\ RoundsAreGlobalPhases /\ OneTaskAfterStop

(* However often a task is run, resumed, interrupted or found to be over,  *)
(* each of its agent runs counts once in the units of its mission.         *)
OneResultPerRun == \A s \in Slots : results[s] <= 1 + resumes[s]

(* A run only completes because everything is covered by evidence that is  *)
(* still saved, a budget is used up or no task can be run any more.        *)
CompletedForAReason ==
    [][rStatus # "completed" /\ rStatus' = "completed" =>
          \/ cov = Needs /\ \A n \in Needs : HasEvidence(n)
          \/ spent # "no"
          \/ Runnable = {}]_vars

(* A stop is never overridden, and a run does not complete without reason. *)
EndsAreTrue == StopWins /\ CompletedForAReason

(* What the process remembers agrees with what is saved. *)
MemoryIsTrue == OneResultPerRun /\ StopFlagIsCurrent

(* The coordinator implements what the pipeline relies on. *)
Service == INSTANCE ResearchService WITH
    MaxTasks  <- Cardinality(Slots),
    waiting   <- Cardinality(Runnable),
    ghosts    <- Cardinality(Ghosts),
    transient <- Cardinality({s \in Slots : task[s] = "transient"}),
    room      <- IF Exists = {} THEN 0 ELSE Cardinality(Slots \ Exists),
    evidence  <- found # {}
ImplementsService == Service!ResearchSpec

(* Every submitted run ends, unless it keeps finding a task whose agent    *)
(* had ended before a crash.                                               *)
SettlesUnlessGhost ==
    rStatus \in ACTIVE_STATUSES ~> rStatus \in TERMINAL_STATUSES \/ Ghosts # {}

(* A requested stop is always carried out. *)
StopSettles == rStatus = "stopping" ~> rStatus \in TERMINAL_STATUSES

(* Both: no run of the research goes on for ever. *)
ResearchEnds == SettlesUnlessGhost /\ StopSettles

(* Research is "always bound by budget, state and stop conditions".        *)
ResearchSettles == rStatus \in ACTIVE_STATUSES ~> rStatus \in TERMINAL_STATUSES
=============================================================================
