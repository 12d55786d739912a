--------------------------- MODULE ResearchService ---------------------------
(***************************************************************************)
(* What ResearchAgentCoordinator promises to the rest of the backend       *)
(* (execution/research_agent_coordinator.py): the life of its run record,  *)
(* of its worker thread and of the research tasks that are still runnable. *)
(* How a round is scheduled, what a task finds and how coverage is judged  *)
(* are choices here; ResearchCoordinator models them and implements this   *)
(* module.  PipelineHarness drives it.                                     *)
(*                                                                         *)
(* Every operator below is one critical section of the coordinator (its    *)
(* RLock serialises submit, request_stop, reconcile_interrupted, _finish   *)
(* and _save_run) or one step of its worker.                               *)
(***************************************************************************)
EXTENDS Naturals

CONSTANTS
    MaxTasks     \* research tasks there may ever be: needs times rounds

ASSUME TasksAssumption == MaxTasks \in Nat \ {0}

VARIABLES
    rStatus,     \* ResearchAgentCoordinatorRun.status, "none" before the first
    rFuture,     \* self._futures[task_id] of the coordinator
    rStop,       \* task_id \in self._stop_requested (memory only)
    waiting,     \* how many tasks _runnable_research_tasks returns
    ghosts,      \* those of them whose agent run has already ended
    transient,   \* tasks failed by a transport error that may be requeued
    room,        \* tasks the remaining collection rounds may still create
    evidence     \* some verified evidence is saved

researchVars ==
    <<rStatus, rFuture, rStop, waiting, transient, room, ghosts, evidence>>

ResearchActive   == {"queued", "running", "stopping"}
ResearchTerminal == {"completed", "failed", "stopped"}
Futures          == {"none", "queued", "running", "done"}

ResearchTypeOK ==
    /\ rStatus \in ResearchActive \cup ResearchTerminal \cup {"none"}
    /\ rFuture \in Futures
    /\ rStop \in BOOLEAN
    /\ waiting \in Nat
    /\ transient \in Nat
    /\ room \in Nat
    /\ ghosts \in Nat
    /\ evidence \in BOOLEAN

ResearchInit ==
    /\ rStatus = "none" /\ rFuture = "none" /\ rStop = FALSE
    /\ waiting = 0 /\ transient = 0 /\ room = 0 /\ ghosts = 0 /\ evidence = FALSE

ResearchIsActive == rStatus \in ResearchActive
ResearchIsLive   == rFuture \in {"queued", "running"}

-----------------------------------------------------------------------------
(* The planner saves the research tasks of the first round; those that a   *)
(* snapshot covers are not runnable.  Each may be followed up in the later *)
(* rounds.                                                                 *)
CreateTasks ==
    /\ \E n \in 0..MaxTasks :
          waiting' = n /\ \E more \in 0..(MaxTasks - n) : room' = more
    /\ UNCHANGED <<rStatus, rFuture, rStop, transient, ghosts, evidence>>

(* submit: an active run is returned as it is; a failed one first gets the  *)
(* tasks back that only a transport error failed.                          *)
Requeueable == IF rStatus = "failed" THEN 0..transient ELSE {0}

(* A task that is given back makes its mission active again and with it    *)
(* the tasks the mission had left waiting.                                 *)
Requeued(k) ==
    /\ transient' = transient - k
    /\ IF k = 0 THEN UNCHANGED <<waiting, ghosts>>
       ELSE /\ waiting' \in (waiting + k)..(MaxTasks - room - transient')
            /\ ghosts' \in ghosts..(waiting' - k)

ResearchSubmitted ==
    \/ ResearchIsActive /\ UNCHANGED researchVars
    \/ /\ ~ResearchIsActive
       /\ \E k \in Requeueable : Requeued(k)
       /\ waiting' > 0
       /\ rStatus' = "queued" /\ rFuture' = "queued"
       /\ UNCHANGED <<rStop, room, evidence>>

(* submit raises ValueError: nothing is left to research. *)
ResearchRefused ==
    /\ ~ResearchIsActive /\ waiting = 0
    /\ UNCHANGED researchVars

(* request_stop.  Future.cancel succeeds only while the worker is queued.  *)
ResearchStopRequested ==
    IF rStatus \in {"queued", "running"}
    THEN IF rFuture \in {"none", "queued"}
         THEN /\ rStatus' = "stopped" /\ rStop' = FALSE
              /\ rFuture' = IF rFuture = "none" THEN "none" ELSE "done"
              /\ UNCHANGED <<waiting, transient, room, ghosts, evidence>>
         ELSE /\ rStatus' = "stopping" /\ rStop' = TRUE
              /\ UNCHANGED <<rFuture, waiting, transient, room, ghosts, evidence>>
    ELSE UNCHANGED researchVars

(* reconcile_interrupted: an active run whose worker is gone is closed. *)
ResearchReconciled ==
    IF ResearchIsActive /\ ~ResearchIsLive
    THEN /\ rStatus' = IF rStatus = "stopping" THEN "stopped" ELSE "failed"
         /\ rStop' = IF rStatus = "stopping" THEN FALSE ELSE rStop
         /\ UNCHANGED <<rFuture, waiting, transient, room, ghosts, evidence>>
    ELSE UNCHANGED researchVars

-----------------------------------------------------------------------------
(* The worker, _execute. *)

(* The pool thread takes the run: from here on it cannot be cancelled. *)
ResearchPickedUp ==
    /\ rFuture = "queued"
    /\ rFuture' = "running"
    /\ UNCHANGED <<rStatus, rStop, waiting, transient, room, ghosts, evidence>>

(* It is saved as running, unless it became stopping in between. *)
ResearchStarts ==
    /\ rFuture = "running" /\ rStatus = "queued"
    /\ rStatus' = "running"
    /\ UNCHANGED <<rFuture, rStop, waiting, transient, room, ghosts, evidence>>

ResearchGoesOn == rFuture = "running" /\ rStatus # "queued"

(* The agent of the task that runs saves verified evidence. *)
ResearchCollects ==
    /\ ResearchGoesOn /\ waiting > 0
    /\ evidence' = TRUE
    /\ UNCHANGED <<rStatus, rFuture, rStop, waiting, transient, room, ghosts>>

(* One research task is done, or it fails, for good or by a transport      *)
(* error, and its evidence is taken back.  A ghost is returned as done     *)
(* without its status being saved: it stays waiting.                       *)
ResearchTaskRun ==
    /\ ResearchGoesOn /\ waiting > ghosts
    /\ waiting' = waiting - 1
    /\ \/ UNCHANGED <<transient, evidence>>
       \/ /\ transient' \in {transient, transient + 1}
          /\ evidence' \in {evidence, FALSE}
    /\ UNCHANGED <<rStatus, rFuture, rStop, room, ghosts>>

ResearchGhostFails ==
    /\ ResearchGoesOn /\ ghosts > 0 /\ waiting > 0
    /\ waiting' = waiting - 1 /\ ghosts' = ghosts - 1
    /\ evidence' \in {evidence, FALSE}
    /\ UNCHANGED <<rStatus, rFuture, rStop, transient, room>>

(* A task that fails after it was saved as done loses its evidence. *)
ResearchTakesBack ==
    /\ ResearchGoesOn
    /\ evidence' \in {evidence, FALSE}
    /\ UNCHANGED <<rStatus, rFuture, rStop, waiting, transient, room, ghosts>>

(* The end of a round: tasks of the next one are created, and the tasks of *)
(* a mission that is finished are no longer runnable.                      *)
ResearchRoundEnds ==
    /\ ResearchGoesOn
    /\ \E new \in 0..room :
          /\ room' = room - new
          /\ waiting' \in 0..(waiting + new)
    /\ ghosts' \in {g \in 0..ghosts : g <= waiting'}
    /\ UNCHANGED <<rStatus, rFuture, rStop, transient, evidence>>

(* _finish: a requested stop overrides every outcome but a failure. *)
ResearchFinishes(outcome) ==
    /\ rFuture = "running"
    /\ rStatus' = IF rStop /\ outcome # "failed" THEN "stopped" ELSE outcome
    /\ rStop' = FALSE
    /\ rFuture' = "done"
    /\ UNCHANGED <<waiting, transient, room, ghosts, evidence>>

(* The steps that move the loop of _execute on.  What happens to the        *)
(* evidence in between is finite: a task collects in bounded turns and      *)
(* takes back at most once.                                                 *)
ResearchProgress ==
    \/ ResearchPickedUp
    \/ ResearchStarts
    \/ ResearchTaskRun
    \/ ResearchGhostFails
    \/ ResearchRoundEnds
    \/ \E outcome \in {"completed", "failed"} : ResearchFinishes(outcome)

ResearchWorker == ResearchProgress \/ ResearchCollects \/ ResearchTakesBack

(* The process dies: futures and the stop set are memory, the rest is on   *)
(* disk.  The task that was running stays waiting; it is a ghost when its  *)
(* agent had ended and the status was not saved yet.                       *)
ResearchCrashed ==
    /\ rFuture' = "none" /\ rStop' = FALSE
    /\ \/ UNCHANGED ghosts
       \/ ResearchGoesOn /\ waiting > ghosts /\ ghosts' = ghosts + 1
    /\ UNCHANGED <<rStatus, waiting, transient, room, evidence>>

(* What ResearchCoordinator implements. *)
ResearchNext ==
    \/ CreateTasks \/ ResearchSubmitted \/ ResearchStopRequested
    \/ ResearchReconciled \/ ResearchWorker \/ ResearchCrashed

ResearchSpec == ResearchInit /\ [][ResearchNext]_researchVars
=============================================================================
