---------------------- MODULE ResearchCoordinator_proofs ----------------------
(***************************************************************************)
(* Theorems about ResearchCoordinator, for every value of its constants.   *)
(***************************************************************************)
EXTENDS ResearchCoordinator, TLAPS, FiniteSetTheorems, WellFoundedInduction

(* The earliest and the latest round of some tasks. *)
LEMMA MinExists ==
    ASSUME NEW S \in SUBSET Nat, S # {}
    PROVE  /\ Min(S) \in S
           /\ \A y \in S : Min(S) <= y
<1> DEFINE R == OpToRel(<, Nat)
<1>1. \E x \in S : \A y \in S : ~(<<y, x>> \in R)
  BY NatLessThanWellFounded, WFMin
<1>2. \E x \in S : \A y \in S : x <= y
  <2>1. ASSUME NEW x \in Nat, NEW y \in Nat, y < x PROVE <<y, x>> \in R
    BY <2>1 DEF OpToRel
  <2>2. PICK x \in S : \A y \in S : ~(<<y, x>> \in R)
    BY <1>1
  <2>3. \A y \in S : ~(y < x)
    BY <2>1, <2>2
  <2> QED BY <2>3
<1> QED BY <1>2 DEF Min

LEMMA MaxExists ==
    ASSUME NEW b \in Nat, NEW S \in SUBSET (0..b), S # {}
    PROVE  /\ Max(S) \in S
           /\ \A y \in S : y <= Max(S)
<1> DEFINE T == {n \in 0..b : b - n \in S}
<1>1. PICK x \in S : TRUE
  OBVIOUS
<1>2. b - x \in T
  BY <1>1
<1>3. PICK m \in T : \A n \in T : m <= n
  <2>1. T \in SUBSET Nat /\ T # {}
    BY <1>2
  <2> HIDE DEF T
  <2> QED BY <2>1, MinExists
<1>4. \A y \in S : b - y \in T
  OBVIOUS
<1>5. b - m \in S /\ \A y \in S : y <= b - m
  BY <1>3, <1>4
<1> QED BY <1>5 DEF Max

-----------------------------------------------------------------------------
(* The inductive invariant. *)

(* The worker's thread, its future, the saved status and the tasks there   *)
(* are belong together.                                                    *)
ThreadInv ==
    /\ pc # "off" <=> rFuture = "running"
    /\ rFuture = "queued" => rStatus = "queued"
    /\ rFuture = "running" => rStatus \in ACTIVE_STATUSES
    /\ rFuture = "done" => rStatus \in TERMINAL_STATUSES
    /\ pc \in {"start", "save"} => rStatus \in {"queued", "stopping"}
    /\ pc \notin {"off", "start", "save"} => rStatus # "queued"
    /\ rStatus # "none" => Exists # {}
    /\ pc \in {"run", "merge"} <=> cur # NoSlot

(* A task that begins although a stop was requested is the last. *)
StopInv == begun > 0 => begun = 1 /\ rStop /\ pc \in {"run", "merge", "check"}

(* While a round is gone through, what it still has to run can be run, and *)
(* the slot that runs is not among it.                                     *)
RoundPoints == {"check", "begin", "run", "merge"}
RoundInv ==
    pc \in RoundPoints =>
        /\ \A s \in todo : s \in Runnable /\ s[2] = curRound
        /\ \A s \in Runnable : s[2] >= curRound
        /\ cur \notin todo
        /\ cur # NoSlot => MissionOf[cur[1]] \notin finished
        /\ pc = "run" => task[cur] \in Waiting
        /\ pc = "merge" => task[cur] \in {"done", "ghost", "stuck"}

(* A task whose agent run is not merged yet has one result less than it    *)
(* was given attempts.                                                     *)
Unmerged(s) == \/ task[s] \in {"none", "waiting", "ghost"}
               \/ pc = "merge" /\ cur = s /\ task[s] = "done"
ResultInv ==
    \A s \in Slots : results[s] <= (IF Unmerged(s) THEN 0 ELSE 1) + resumes[s]

(* Coverage is backed by saved evidence when the missions are supervised,  *)
(* and for good once the mission is finished; in between it may be stale.  *)
CoverInv ==
    \A n \in cov : pc = "supervise" \/ MissionOf[n] \in finished => HasEvidence(n)

CoordinatorInv ==
    /\ TypeOK /\ ThreadInv /\ StopFlagIsCurrent /\ StopInv
    /\ RoundInv /\ ResultInv /\ CoverInv

-----------------------------------------------------------------------------
(* Facts about slots. *)

LEMMA SlotFacts ==
    /\ NoSlot \notin Slots
    /\ \A s \in Slots : s[1] \in Needs /\ s[2] \in 1..MaxRounds /\ s = <<s[1], s[2]>>
    /\ \A n \in Needs, r \in 1..MaxRounds : <<n, r>> \in Slots
    /\ MaxRounds \in Nat \ {0} /\ 1 \in 1..MaxRounds
    /\ \A n \in Needs : MissionOf[n] \in Missions
BY CoordinatorAssumption DEF Slots, NoSlot

(* The round that is chosen is that of a runnable task, and none is earlier. *)
LEMMA EarliestRound ==
    ASSUME Runnable # {}
    PROVE  LET r == Min({s[2] : s \in Runnable}) IN
           r \in 1..MaxRounds /\ \A s \in Runnable : s[2] >= r
<1> DEFINE S == {s[2] : s \in Runnable}
<1>1. S \in SUBSET (1..MaxRounds) /\ S # {}
  BY SlotFacts DEF Runnable
<1>2. S \in SUBSET Nat
  BY <1>1, SlotFacts
<1>3. \A s \in Runnable : s[2] \in S
  OBVIOUS
<1> HIDE DEF S
<1>4. Min(S) \in S /\ \A y \in S : Min(S) <= y
  BY <1>1, <1>2, MinExists
<1> QED BY <1>1, <1>3, <1>4, SlotFacts DEF S

(* The gaps of the current round are followed up where no task is yet. *)
LEMMA SupplementsAreNew ==
    ASSUME TypeOK, NEW covered
    PROVE  \A s \in Supplements(covered) : s \in Slots /\ task[s] = "none"
<1> DEFINE S == {1} \cup {s[2] : s \in Exists}
<1>1. S \in SUBSET (0..MaxRounds) /\ S # {}
  BY SlotFacts DEF Exists
<1>2. Max(S) \in S /\ \A y \in S : y <= Max(S)
  BY <1>1, MaxExists, SlotFacts
<1>3. \A s \in Exists : s[2] \in S
  OBVIOUS
<1> HIDE DEF S
<1>4. \A s \in Exists : s[2] <= CurrentRound /\ CurrentRound \in Nat
  BY <1>1, <1>2, <1>3, SlotFacts DEF CurrentRound, S
<1>5. ASSUME NEW s \in Slots, s[2] = CurrentRound + 1, s \in Exists PROVE FALSE
  BY <1>4, <1>5, SlotFacts
<1> QED BY <1>5 DEF Supplements, Exists

-----------------------------------------------------------------------------
(* Types. *)

LEMMA TypeStep == CoordinatorInv /\ [Next]_vars => TypeOK'
<1> SUFFICES ASSUME CoordinatorInv, [Next]_vars PROVE TypeOK'
  OBVIOUS
<1> USE DEF TypeOK, ACTIVE_STATUSES, TERMINAL_STATUSES, Points, taskVars, runVars,
            boundVars, TaskStates, Waiting
<1>0. /\ TypeOK
      /\ pc \in {"run", "merge"} => cur \in Slots
  BY DEF CoordinatorInv, ThreadInv, NoSlot
<1>1. ASSUME NEW o \in {"completed", "failed", "stopped"}, Finish(o) PROVE TypeOK'
  <2>1. rStatus' \in {o, "stopped"} /\ begun' \in 0..2
    BY <1>1 DEF Finish
  <2> QED BY <1>0, <1>1, <2>1, SlotFacts DEF Finish, WorkerGone
<1>2. ASSUME NEW p \in Points, GoOn(p) PROVE TypeOK'
  BY <1>0, <1>2 DEF GoOn
<1>3. CASE Plan
  BY <1>0, <1>3 DEF Plan, workerVars
<1>4. CASE Submit
  <2>1. \A s \in Requeueable : resumes[s] + 1 \in 0..MAX_TRANSIENT_TASK_RESUMES
    BY <1>0, CoordinatorAssumption DEF Requeueable
  <2>2. resumes' \in [Slots -> 0..MAX_TRANSIENT_TASK_RESUMES]
    BY <1>0, <1>4, <2>1 DEF Submit
  <2>3. spent' \in {"no", "actions", "sources"}
    BY <1>4 DEF Submit
  <2> QED BY <1>0, <1>4, <2>2, <2>3 DEF Submit, workerVars
<1>5. CASE RequestStop
  <2>1. rStop' = FALSE \/ rStop' = TRUE
    BY <1>5, Zenon DEF RequestStop
  <2>2. begun' \in 0..2
    BY <1>5 DEF RequestStop
  <2> QED BY <1>0, <1>5, <2>1, <2>2 DEF RequestStop, workerVars
<1>6. CASE Reconcile
  BY <1>0, <1>6 DEF Reconcile, workerVars
<1>7. CASE Crash
  <2>1. crashes' \in 0..MaxCrashes
    BY <1>0, <1>7, CoordinatorAssumption DEF Crash
  <2>2. task' \in [Slots -> TaskStates]
    BY <1>0, <1>7 DEF Crash
  <2>3. begun' \in 0..2 /\ curRound' \in 1..MaxRounds
    BY <1>7, SlotFacts DEF Crash, WorkerGone
  <2> QED BY <1>0, <1>7, <2>1, <2>2, <2>3 DEF Crash, WorkerGone
<1>8. CASE PickedUp \/ SaveRunning
  BY <1>0, <1>8 DEF PickedUp, SaveRunning
<1>9. CASE CheckBeforeStart \/ CheckBeforeRound \/ CheckBeforeTask
  BY <1>1, <1>2, <1>9 DEF CheckBeforeStart, CheckBeforeRound, CheckBeforeTask, StopCheck
<1>10. CASE ChooseRound
  <2>1. CASE Finish("completed")
    BY <1>1, <2>1
  <2>2. CASE Runnable # {} /\ ~Finish("completed")
    BY <1>0, <1>10, <2>2, EarliestRound DEF ChooseRound, Runnable
  <2> QED BY <1>10, <2>1, <2>2 DEF ChooseRound
<1>11. CASE BeginTask
  BY <1>0, <1>11 DEF BeginTask
<1>12. CASE Collect
  BY <1>0, <1>12 DEF Collect, workerVars
<1>13. CASE TaskEnds
  BY <1>0, <1>13 DEF TaskEnds, Coverages
<1>14. CASE MergeResult \/ TaskFails
  <2>1. task' \in [Slots -> TaskStates] /\ results' \in [Slots -> Nat]
    BY <1>0, <1>14 DEF MergeResult, TaskFails, Merged
  <2> QED BY <1>0, <1>14, <2>1 DEF MergeResult, TaskFails
<1>15. CASE RefreshCoverage
  <2>1. task' \in [Slots -> TaskStates] /\ cov' \subseteq Needs
    BY <1>0, <1>15 DEF RefreshCoverage, Coverages
  <2> QED BY <1>0, <1>15, <2>1 DEF RefreshCoverage
<1>16. ASSUME NEW m \in Missions, Supervise(m) PROVE TypeOK'
  <2>1. task' \in [Slots -> TaskStates] /\ finished' \subseteq Missions
    BY <1>0, <1>16 DEF Supervise
  <2> QED BY <1>0, <1>16, <2>1 DEF Supervise
<1>17. CASE PostCoverage \/ LoopFails
  BY <1>0, <1>1, <1>17 DEF PostCoverage, LoopFails
<1>18. CASE UNCHANGED vars
  BY <1>0, <1>18 DEF vars, workerVars
<1> QED
  BY <1>3, <1>4, <1>5, <1>6, <1>7, <1>8, <1>9, <1>10, <1>11, <1>12, <1>13,
     <1>14, <1>15, <1>16, <1>17, <1>18 DEF Next, Worker

-----------------------------------------------------------------------------
(* The thread, the stop flag and the tasks begun after a stop. *)

ControlInv == ThreadInv /\ StopFlagIsCurrent /\ StopInv

(* No step takes a task back to where it does not exist. *)
LEMMA TasksStay == TypeOK /\ ThreadInv /\ [Next]_vars => Exists \subseteq Exists'
<1> SUFFICES ASSUME TypeOK, ThreadInv, [Next]_vars, NEW s \in Slots, task[s] # "none"
             PROVE  task'[s] # "none"
  BY DEF Exists
<1> USE DEF TypeOK
<1>1. CASE task' = task
  BY <1>1
<1>2. CASE Plan
  BY <1>2 DEF Plan, Exists
<1>3. CASE Submit
  BY <1>3 DEF Submit
<1>4. CASE Crash
  BY <1>4 DEF Crash
<1>5. CASE TaskEnds \/ MergeResult \/ TaskFails
  BY <1>5 DEF TaskEnds, MergeResult, TaskFails
<1>6. CASE RefreshCoverage
  BY <1>6 DEF RefreshCoverage
<1>7. CASE \E m \in Missions : Supervise(m)
  <2>1. \/ task' = task
        \/ \E n \in Needs : task' = [task EXCEPT ![<<n, curRound + 1>>] =
                                        IF @ = "none" THEN "waiting" ELSE @]
    BY <1>7 DEF Supervise
  <2> QED BY <2>1
<1> QED
  BY <1>1, <1>2, <1>3, <1>4, <1>5, <1>6, <1>7
  DEF Next, Worker, vars, taskVars, RequestStop, Reconcile, PickedUp,
      CheckBeforeStart, SaveRunning, CheckBeforeRound, ChooseRound,
      CheckBeforeTask, BeginTask, Collect, PostCoverage, LoopFails, StopCheck,
      GoOn, Finish

LEMMA ControlStep == CoordinatorInv /\ [Next]_vars => ControlInv'
<1> SUFFICES ASSUME CoordinatorInv, [Next]_vars PROVE ControlInv'
  OBVIOUS
<1> USE DEF ControlInv, ThreadInv, StopFlagIsCurrent, StopInv, ACTIVE_STATUSES,
            TERMINAL_STATUSES, taskVars, runVars, boundVars, workerVars
<1>0. /\ TypeOK /\ ThreadInv /\ StopFlagIsCurrent /\ StopInv
      /\ Exists \subseteq Exists'
      /\ cur \in Slots => cur # NoSlot
      /\ \A s \in Slots : s # NoSlot
  BY TasksStay, SlotFacts DEF CoordinatorInv
<1>1. ASSUME NEW o \in {"completed", "failed", "stopped"}, Finish(o), pc # "off"
      PROVE ControlInv'
  <2>1. rStatus' \in {o, "stopped"} /\ rFuture' = "done" /\ rStop' = FALSE
        /\ pc' = "off" /\ cur' = NoSlot /\ begun' = 0
    BY <1>1 DEF Finish, WorkerGone
  <2>2. rStatus # "none"
    BY <1>0, <1>1
  <2> QED BY <1>0, <2>1, <2>2
<1>2. ASSUME NEW p \in Points, GoOn(p), pc \notin {"off", "run", "merge"},
             p \notin {"off", "start", "run", "merge"},
             p = "save" => pc = "start",
             pc = "start" => p = "save", pc # "save" PROVE ControlInv'
  BY <1>0, <1>2 DEF GoOn
<1>3. CASE Plan
  BY <1>0, <1>3 DEF Plan
<1>4. CASE Submit
  <2>1. Exists' # {}
    BY <1>4 DEF Submit, Runnable, Exists, Waiting
  <2> QED BY <1>0, <1>4, <2>1 DEF Submit
<1>5. CASE RequestStop
  <2>1. CASE rFuture \in {"none", "queued"}
    BY <1>0, <1>5, <2>1 DEF RequestStop
  <2>2. CASE rFuture \notin {"none", "queued"}
    <3>1. rStatus' = "stopping" /\ rStop' = TRUE /\ rFuture' = rFuture
      BY <1>5, <2>2 DEF RequestStop
    <3>2. rFuture = "running"
      BY <1>0, <1>5, <2>2, <3>1 DEF RequestStop, TypeOK
    <3> QED BY <1>0, <1>5, <3>1, <3>2 DEF RequestStop
  <2> QED BY <2>1, <2>2
<1>6. CASE Reconcile
  BY <1>0, <1>6 DEF Reconcile
<1>7. CASE Crash
  BY <1>0, <1>7 DEF Crash, WorkerGone
<1>8. CASE PickedUp \/ SaveRunning
  BY <1>0, <1>8 DEF PickedUp, SaveRunning
<1>9. CASE CheckBeforeStart \/ CheckBeforeRound \/ CheckBeforeTask
  BY <1>1, <1>2, <1>9
  DEF CheckBeforeStart, CheckBeforeRound, CheckBeforeTask, StopCheck, Points
<1>10. CASE ChooseRound
  BY <1>0, <1>1, <1>10 DEF ChooseRound
<1>11. CASE BeginTask
  BY <1>0, <1>11 DEF BeginTask, TypeOK
<1>12. CASE Collect \/ TaskEnds \/ MergeResult \/ TaskFails \/ RefreshCoverage
  BY <1>0, <1>12 DEF Collect, TaskEnds, MergeResult, TaskFails, RefreshCoverage
<1>13. CASE \E m \in Missions : Supervise(m)
  BY <1>0, <1>13 DEF Supervise
<1>14. CASE PostCoverage \/ LoopFails
  BY <1>0, <1>1, <1>14 DEF PostCoverage, LoopFails
<1>15. CASE UNCHANGED vars
  BY <1>0, <1>15 DEF vars
<1> QED
  BY <1>3, <1>4, <1>5, <1>6, <1>7, <1>8, <1>9, <1>10, <1>11, <1>12, <1>13,
     <1>14, <1>15 DEF Next, Worker

-----------------------------------------------------------------------------
(* The rounds. *)

(* What can be run only changes where a task or a mission does. *)
LEMMA RunnableFrame ==
    UNCHANGED <<task, finished>> => Runnable' = Runnable /\ Ghosts' = Ghosts
BY DEF Runnable, Ghosts

LEMMA RoundStep == CoordinatorInv /\ [Next]_vars => RoundInv'
<1> SUFFICES ASSUME CoordinatorInv, [Next]_vars PROVE RoundInv'
  OBVIOUS
<1> USE DEF RoundInv, RoundPoints, taskVars, workerVars
<1>0. /\ TypeOK /\ ThreadInv /\ RoundInv
      /\ pc \in {"run", "merge"} => cur \in Slots
      /\ \A s \in Slots : s # NoSlot
      /\ curRound \in Nat /\ \A s \in Slots : s[2] \in Nat
  BY SlotFacts DEF CoordinatorInv, ThreadInv, TypeOK
<1>1. ASSUME pc' \notin RoundPoints PROVE RoundInv'
  BY <1>1
<1>2. ASSUME NEW p \in {"refresh", "begin"}, GoOn(p), pc = "check" PROVE RoundInv'
  BY <1>0, <1>2, RunnableFrame DEF GoOn, ThreadInv
<1>3. CASE Plan \/ Submit
  <2>1. pc' = pc /\ pc = "off"
    BY <1>0, <1>3 DEF Plan, Submit, ThreadInv, ACTIVE_STATUSES
  <2> QED BY <2>1
<1>4. CASE RequestStop \/ Reconcile \/ UNCHANGED vars
  <2>1. UNCHANGED <<task, finished, pc, todo, cur, curRound>>
    BY <1>4 DEF RequestStop, Reconcile, vars
  <2> QED BY <1>0, <2>1, RunnableFrame
<1>5. CASE Crash \/ PickedUp \/ SaveRunning \/ RefreshCoverage
  BY <1>5 DEF Crash, WorkerGone, PickedUp, SaveRunning, RefreshCoverage
<1>6. CASE CheckBeforeStart \/ CheckBeforeRound \/ PostCoverage \/ LoopFails
  BY <1>6 DEF CheckBeforeStart, CheckBeforeRound, StopCheck, Finish, WorkerGone,
              GoOn, PostCoverage, LoopFails
<1>7. CASE CheckBeforeTask
  BY <1>0, <1>2, <1>7 DEF CheckBeforeTask, StopCheck, Finish, WorkerGone
<1>8. CASE ChooseRound
  <2>1. CASE Finish("completed")
    BY <2>1 DEF Finish, WorkerGone
  <2>2. CASE Runnable # {} /\ ~Finish("completed")
    <3>1. /\ curRound' = Min({s[2] : s \in Runnable})
          /\ todo' = {s \in Runnable : s[2] = curRound'}
          /\ pc' = "check" /\ UNCHANGED <<task, finished, cur>>
      BY <1>8, <2>2 DEF ChooseRound
    <3>2. cur = NoSlot
      BY <1>0, <1>8 DEF ThreadInv, ChooseRound
    <3>3. \A s \in Runnable : s \in Slots /\ s[2] >= curRound'
      BY <2>2, <3>1, EarliestRound DEF Runnable
    <3> QED BY <1>0, <3>1, <3>2, <3>3, RunnableFrame
  <2> QED BY <1>8, <2>1, <2>2 DEF ChooseRound
<1>9. CASE BeginTask
  <2>1. CASE spent # "no"
    BY <1>9, <2>1 DEF BeginTask
  <2>2. CASE spent = "no"
    <3>1. PICK s \in todo : cur' = s /\ todo' = todo \ {s} /\ pc' = "run"
      BY <1>9, <2>2 DEF BeginTask
    <3>2. UNCHANGED <<task, finished, curRound>> /\ s \in Runnable
      BY <1>0, <1>9, <3>1 DEF BeginTask
    <3>3. Runnable' = Runnable /\ task'[cur'] \in Waiting
          /\ MissionOf[cur'[1]] \notin finished'
      BY <3>1, <3>2, RunnableFrame DEF Runnable
    <3> QED BY <1>0, <1>9, <3>1, <3>2, <3>3 DEF BeginTask
  <2> QED BY <2>1, <2>2
<1>10. CASE Collect
  <2>1. UNCHANGED <<task, finished, pc, todo, cur, curRound>>
    BY <1>10 DEF Collect
  <2> QED BY <1>0, <2>1, RunnableFrame
<1>11. CASE TaskEnds \/ MergeResult \/ TaskFails
  <2>1. /\ pc \in {"run", "merge"} /\ pc' \in {"merge", "check"}
        /\ UNCHANGED <<todo, curRound, finished>> /\ cur' \in {cur, NoSlot}
        /\ pc' = "check" => cur' = NoSlot
    BY <1>11 DEF TaskEnds, MergeResult, TaskFails
  <2>2. /\ task' \in [Slots -> TaskStates]
        /\ \A s \in Slots : s # cur => task'[s] = task[s]
        /\ task'[cur] \in Waiting => task[cur] \in Waiting
    BY <1>0, <1>11 DEF TaskEnds, MergeResult, TaskFails, TypeOK, Waiting, TaskStates
  <2>3. /\ Runnable' \subseteq Runnable
        /\ \A s \in todo : s \in Runnable'
    BY <1>0, <2>1, <2>2 DEF Runnable
  <2>4. pc' = "merge" => task'[cur'] \in {"done", "ghost", "stuck"}
    BY <1>0, <1>11 DEF TaskEnds, MergeResult, TaskFails, TypeOK, Waiting
  <2> QED BY <1>0, <2>1, <2>3, <2>4, SlotFacts DEF TypeOK
<1>12. CASE \E m \in Missions : Supervise(m)
  BY <1>12 DEF Supervise
<1> QED
  BY <1>3, <1>4, <1>5, <1>6, <1>7, <1>8, <1>9, <1>10, <1>11, <1>12 DEF Next, Worker

-----------------------------------------------------------------------------
(* The results of a mission. *)

LEMMA ResultStep == CoordinatorInv /\ [Next]_vars => ResultInv'
<1> SUFFICES ASSUME CoordinatorInv, [Next]_vars, NEW s \in Slots
             PROVE  results'[s] <= (IF Unmerged(s)' THEN 0 ELSE 1) + resumes'[s]
  BY DEF ResultInv
<1> USE DEF Unmerged, taskVars, workerVars
<1>0. /\ TypeOK /\ ThreadInv /\ RoundInv
      /\ pc \in {"run", "merge"} => cur \in Slots
      /\ s # NoSlot
      /\ results[s] \in Nat /\ resumes[s] \in Nat
      /\ results[s] <= (IF Unmerged(s) THEN 0 ELSE 1) + resumes[s]
  BY SlotFacts DEF CoordinatorInv, ThreadInv, TypeOK, ResultInv
<1>1. CASE UNCHANGED <<task, resumes, results>> /\ (pc' # "merge" \/ UNCHANGED <<pc, cur>>)
           /\ (pc = "merge" => UNCHANGED <<pc, cur>> \/ task[cur] # "done")
  BY <1>0, <1>1
<1>2. CASE Plan
  BY <1>0, <1>2 DEF Plan, ThreadInv, Exists, TypeOK
<1>3. CASE Submit
  <2>1. /\ UNCHANGED <<results, pc, cur>>
        /\ task'[s] = IF s \in Requeueable THEN "waiting" ELSE task[s]
        /\ resumes'[s] = IF s \in Requeueable THEN resumes[s] + 1 ELSE resumes[s]
    BY <1>3 DEF Submit
  <2> QED BY <1>0, <2>1
<1>4. CASE Crash
  <2>1. UNCHANGED <<results, resumes>> /\ pc' = "off"
    BY <1>4 DEF Crash, WorkerGone
  <2>2. \/ task' = task
        \/ pc = "run" /\ task[cur] = "waiting" /\ task' = [task EXCEPT ![cur] = "ghost"]
    BY <1>4 DEF Crash
  <2> QED BY <1>0, <2>1, <2>2 DEF TypeOK
<1>5. CASE TaskEnds
  <2>1. UNCHANGED <<results, resumes, cur>> /\ pc = "run" /\ pc' = "merge"
        /\ task' = [task EXCEPT ![cur] = IF @ = "waiting" THEN "done" ELSE @]
    BY <1>5 DEF TaskEnds
  <2>2. task[cur] \in Waiting
    BY <1>0, <2>1 DEF RoundInv, RoundPoints
  <2> QED BY <1>0, <2>1, <2>2 DEF TypeOK, Waiting
<1>6. CASE MergeResult
  <2>1. /\ pc = "merge" /\ pc' = "check" /\ UNCHANGED resumes
        /\ results' = [results EXCEPT ![cur] = IF task[cur] = "stuck" THEN @ ELSE @ + 1]
        /\ task' = [task EXCEPT ![cur] = IF @ = "ghost" THEN "stuck" ELSE @]
    BY <1>6 DEF MergeResult, Merged
  <2>2. task[cur] \in {"done", "ghost", "stuck"}
    BY <1>0, <2>1 DEF RoundInv, RoundPoints
  <2> QED BY <1>0, <2>1, <2>2 DEF TypeOK
<1>7. CASE TaskFails
  <2>1. /\ pc \in {"run", "merge"} /\ pc' = "check" /\ UNCHANGED resumes
        /\ results' = [results EXCEPT ![cur] = IF task[cur] = "stuck" THEN @ ELSE @ + 1]
        /\ task'[s] = task[s] \/ s = cur
    BY <1>0, <1>7 DEF TaskFails, Merged, TypeOK
  <2>2. \/ pc = "run" /\ task[cur] \in Waiting
        \/ pc = "merge" /\ task[cur] \in {"done", "ghost", "stuck"}
    BY <1>0, <2>1 DEF RoundInv, RoundPoints
  <2>3. CASE s # cur
    BY <1>0, <2>1, <2>3 DEF TypeOK
  <2>4. CASE s = cur
    <3>1. task[s] = "stuck" \/ results[s] <= resumes[s]
      BY <1>0, <2>2, <2>4 DEF Waiting
    <3>2. results'[s] <= 1 + resumes[s]
      BY <1>0, <2>1, <2>4, <3>1 DEF TypeOK
    <3>3. task'[s] \in {"failed", "transient"}
      BY <1>0, <1>7, <2>4 DEF TaskFails, TypeOK
    <3> QED BY <2>1, <3>2, <3>3
  <2> QED BY <2>3, <2>4
<1>8. CASE RefreshCoverage
  <2>1. UNCHANGED <<results, resumes>> /\ pc = "refresh" /\ pc' = "supervise"
        /\ (task'[s] = task[s] \/ task[s] = "none")
    BY <1>0, <1>8, SupplementsAreNew DEF RefreshCoverage
  <2> QED BY <1>0, <2>1
<1>9. CASE \E m \in Missions : Supervise(m)
  <2>1. UNCHANGED <<results, resumes, pc>> /\ pc = "supervise"
    BY <1>9 DEF Supervise
  <2>2. \/ task' = task
        \/ \E n \in Needs : task' = [task EXCEPT ![<<n, curRound + 1>>] =
                                        IF @ = "none" THEN "waiting" ELSE @]
    BY <1>9 DEF Supervise
  <2>3. task'[s] = task[s] \/ task[s] = "none"
    BY <1>0, <2>2 DEF TypeOK
  <2> QED BY <1>0, <2>1, <2>3
<1>10. CASE RequestStop \/ Reconcile \/ PickedUp \/ SaveRunning \/ ChooseRound
            \/ CheckBeforeStart \/ CheckBeforeRound \/ CheckBeforeTask
            \/ PostCoverage \/ LoopFails
  <2>1. \/ UNCHANGED <<task, resumes, results>> /\ pc # "merge" /\ pc' # "merge"
        \/ UNCHANGED <<task, resumes, results, pc, cur>>
    BY <1>0, <1>10
    DEF ThreadInv, RequestStop, Reconcile, PickedUp, SaveRunning, ChooseRound, CheckBeforeStart,
        CheckBeforeRound, CheckBeforeTask, PostCoverage, LoopFails, StopCheck, GoOn,
        Finish, WorkerGone
  <2> QED BY <1>1, <2>1
<1>11. CASE BeginTask \/ Collect \/ UNCHANGED vars
  BY <1>1, <1>11 DEF BeginTask, Collect, vars
<1> QED
  BY <1>2, <1>3, <1>4, <1>5, <1>6, <1>7, <1>8, <1>9, <1>10, <1>11 DEF Next, Worker

-----------------------------------------------------------------------------
(* Coverage. *)

LEMMA CoverStep == CoordinatorInv /\ [Next]_vars => CoverInv'
<1> SUFFICES ASSUME CoordinatorInv, [Next]_vars, NEW n \in cov',
                    pc' = "supervise" \/ MissionOf[n] \in finished'
             PROVE  HasEvidence(n)'
  BY DEF CoverInv
<1> USE DEF HasEvidence, taskVars, workerVars
<1>0. /\ TypeOK /\ ThreadInv /\ RoundInv /\ CoverInv
      /\ pc \in {"run", "merge"} => cur \in Slots
  BY SlotFacts DEF CoordinatorInv, ThreadInv, TypeOK
<1>1. CASE UNCHANGED <<found, cov>> /\ finished' \subseteq finished
           /\ (pc' # "supervise" \/ pc = "supervise")
  BY <1>0, <1>1 DEF CoverInv
<1>2. CASE Collect
  BY <1>0, <1>2 DEF Collect, CoverInv
<1>3. CASE TaskEnds \/ RefreshCoverage
  <2>1. cov' \in Coverages /\ UNCHANGED <<finished, found>>
    BY <1>3 DEF TaskEnds, RefreshCoverage
  <2>2. n \in Needs /\ (HasEvidence(n) \/ (n \in cov /\ MissionOf[n] \in finished))
    <3> HIDE DEF HasEvidence
    <3>1. n \in Needs /\ IF Judged(n) THEN n \in cov' => HasEvidence(n)
                         ELSE n \in cov' <=> n \in cov
      BY <2>1, Zenon DEF Coverages
    <3> QED BY <3>1 DEF Judged
  <2> QED BY <1>0, <2>1, <2>2 DEF CoverInv
<1>4. CASE TaskFails
  <2>1. UNCHANGED <<cov, finished>> /\ found' = found \ {cur} /\ pc' = "check"
        /\ pc \in {"run", "merge"}
    BY <1>4 DEF TaskFails
  <2>2. MissionOf[cur[1]] \notin finished
    BY <1>0, <2>1 DEF RoundInv, RoundPoints, ThreadInv
  <2>3. \A r \in 1..MaxRounds : <<n, r>> # cur
    BY <1>0, <2>1, <2>2
  <2> QED BY <1>0, <2>1, <2>3 DEF CoverInv
<1>5. CASE \E m \in Missions : Supervise(m)
  BY <1>0, <1>5 DEF Supervise, CoverInv
<1> QED
  BY <1>0, <1>1, <1>2, <1>3, <1>4, <1>5
  DEF Next, Worker, vars, Plan, Submit, RequestStop, Reconcile, Crash, PickedUp,
      CheckBeforeStart, SaveRunning, CheckBeforeRound, ChooseRound,
      CheckBeforeTask, BeginTask, MergeResult, PostCoverage, LoopFails, StopCheck,
      GoOn, Finish, WorkerGone

-----------------------------------------------------------------------------
LEMMA InvInit == Init => CoordinatorInv
<1> SUFFICES ASSUME Init PROVE CoordinatorInv
  OBVIOUS
<1>1. TypeOK
  <2>1. resumes \in [Slots -> 0..MAX_TRANSIENT_TASK_RESUMES] /\ crashes \in 0..MaxCrashes
    BY CoordinatorAssumption DEF Init
  <2>2. task \in [Slots -> TaskStates] /\ results \in [Slots -> Nat]
    BY DEF Init, TaskStates
  <2>3. cur \in Slots \cup {NoSlot} /\ begun \in 0..2
    BY DEF Init
  <2> QED BY <2>1, <2>2, <2>3, SlotFacts
      DEF Init, TypeOK, Points, ACTIVE_STATUSES, TERMINAL_STATUSES
<1>2. ThreadInv /\ StopFlagIsCurrent /\ StopInv /\ RoundInv /\ CoverInv
  BY DEF Init, ThreadInv, StopFlagIsCurrent, StopInv, RoundInv, RoundPoints,
         CoverInv
<1>3. ResultInv
  BY DEF Init, ResultInv, Unmerged
<1> QED BY <1>1, <1>2, <1>3 DEF CoordinatorInv

LEMMA InvStep == CoordinatorInv /\ [Next]_vars => CoordinatorInv'
BY TypeStep, ControlStep, RoundStep, ResultStep, CoverStep
DEF CoordinatorInv, ControlInv

LEMMA InvAlways == Spec => []CoordinatorInv
<1>1. CoordinatorInv /\ [Next]_vars => CoordinatorInv'
  BY InvStep
<1> QED BY InvInit, <1>1, PTL DEF Spec

(* The research goes round by round, whatever the agents find and however  *)
(* often it is stopped, fails or is resumed (_execute, README "collection  *)
(* rounds are global phases"): no task is run before those of an earlier   *)
(* round or in a finished mission, and at most the one task that was being *)
(* begun when the stop came is run after it.                               *)
THEOREM ResearchKeepsItsOrder == Spec => []ResearchIsOrderly
<1>1. CoordinatorInv => ResearchIsOrderly
  <2> SUFFICES ASSUME CoordinatorInv PROVE ResearchIsOrderly
    OBVIOUS
  <2>1. OneTaskAfterStop
    BY DEF CoordinatorInv, StopInv, TypeOK, OneTaskAfterStop
  <2>2. RoundsAreGlobalPhases
    BY DEF CoordinatorInv, RoundInv, RoundPoints, RoundsAreGlobalPhases
  <2> QED BY <2>1, <2>2 DEF CoordinatorInv, ResearchIsOrderly
<1> QED BY InvAlways, <1>1, PTL

(* Every agent run counts once in its mission, over all resumes and        *)
(* restarts, and the stop flag in memory agrees with the saved status      *)
(* (merge_worker, request_stop and _finish).                               *)
THEOREM MemoryStaysTrue == Spec => []MemoryIsTrue
<1>1. CoordinatorInv => MemoryIsTrue
  <2> SUFFICES ASSUME CoordinatorInv PROVE OneResultPerRun
    BY DEF CoordinatorInv, MemoryIsTrue
  <2>1. \A s \in Slots : results[s] \in Nat /\ resumes[s] \in Nat
    BY DEF CoordinatorInv, TypeOK
  <2> QED BY <2>1 DEF CoordinatorInv, ResultInv, OneResultPerRun
<1> QED BY InvAlways, <1>1, PTL

(* A step that completes the run, and what a run that is stopping becomes. *)
LEMMA EndStep ==
    ASSUME CoordinatorInv, [Next]_vars
    PROVE  /\ rStatus = "stopping" => rStatus' \in {"stopping", "stopped", "failed"}
           /\ rStatus # "completed" /\ rStatus' = "completed" =>
                \/ cov = Needs /\ \A n \in Needs : HasEvidence(n)
                \/ spent # "no"
                \/ Runnable = {}
<1> USE DEF runVars, ACTIVE_STATUSES
<1>0. ThreadInv /\ StopFlagIsCurrent /\ CoverInv
  BY DEF CoordinatorInv
<1>1. ASSUME NEW o \in {"completed", "failed", "stopped"}, Finish(o), pc # "off",
             o = "stopped" => rStop
      PROVE  /\ rStatus = "stopping" => rStatus' \in {"stopped", "failed"}
             /\ rStatus' = "completed" => o = "completed"
  BY <1>0, <1>1 DEF Finish, ThreadInv, StopFlagIsCurrent
<1>2. CASE Plan \/ Submit \/ RequestStop \/ Reconcile \/ Crash
  BY <1>2 DEF Plan, Submit, RequestStop, Reconcile, Crash
<1>3. CASE CheckBeforeStart \/ CheckBeforeRound \/ CheckBeforeTask
  BY <1>1, <1>3 DEF CheckBeforeStart, CheckBeforeRound, CheckBeforeTask, StopCheck, GoOn
<1>4. CASE ChooseRound
  BY <1>1, <1>4 DEF ChooseRound
<1>5. CASE PostCoverage
  BY <1>0, <1>1, <1>5 DEF PostCoverage, AllCovered, CoverInv
<1>6. CASE LoopFails
  BY <1>1, <1>6 DEF LoopFails
<1>7. CASE \E m \in Missions : Supervise(m)
  BY <1>7 DEF Supervise
<1>8. CASE \/ PickedUp \/ SaveRunning \/ BeginTask \/ Collect \/ TaskEnds \/ MergeResult
           \/ TaskFails \/ RefreshCoverage \/ UNCHANGED vars
  BY <1>8 DEF PickedUp, SaveRunning, BeginTask, Collect, TaskEnds, MergeResult,
              TaskFails, RefreshCoverage, vars
<1> QED BY <1>2, <1>3, <1>4, <1>5, <1>6, <1>7, <1>8 DEF Next, Worker

(* No save of the worker's older copy revives a run that is stopping, no   *)
(* outcome hides the stop, and a run completes because all is covered by   *)
(* evidence that is still saved, a budget is used up or nothing can be run *)
(* (_finish, _save_run and _post_coverage_stop).                           *)
THEOREM EndsStayTrue == Spec => EndsAreTrue
<1>1. CoordinatorInv /\ [Next]_vars =>
        [rStatus = "stopping" => rStatus' \in {"stopping", "stopped", "failed"}]_vars
  BY EndStep
<1>2. CoordinatorInv /\ [Next]_vars =>
        [rStatus # "completed" /\ rStatus' = "completed" =>
          \/ cov = Needs /\ \A n \in Needs : HasEvidence(n)
          \/ spent # "no"
          \/ Runnable = {}]_vars
  BY EndStep
<1>3. Spec => StopWins
  BY InvAlways, <1>1, PTL DEF Spec, StopWins
<1>4. Spec => CompletedForAReason
  BY InvAlways, <1>2, PTL DEF Spec, CompletedForAReason
<1> QED BY <1>3, <1>4 DEF EndsAreTrue

-----------------------------------------------------------------------------
(* The coordinator implements ResearchService. *)

(* Sets of slots can be counted. *)
LEMMA SlotsAreFinite ==
    /\ Cardinality(Slots) \in Nat \ {0}
    /\ \A A \in SUBSET Slots : IsFiniteSet(A) /\ Cardinality(A) \in Nat
<1>1. IsFiniteSet(Slots)
  <2>1. IsFiniteSet(1..MaxRounds)
    BY SlotFacts, FS_Interval
  <2> QED BY <2>1, FS_Product, CoordinatorAssumption DEF Slots
<1>2. \A A \in SUBSET Slots : IsFiniteSet(A) /\ Cardinality(A) \in Nat
  BY <1>1, FS_Subset, FS_CardinalityType
<1>3. Slots # {}
  BY SlotFacts, CoordinatorAssumption
<1>4. Cardinality(Slots) # 0
  BY <1>1, <1>3, FS_EmptySet
<1> QED BY <1>1, <1>2, <1>4, FS_CardinalityType

LEMMA CountMore ==
    ASSUME NEW A \in SUBSET Slots, NEW B \in SUBSET Slots, A \subseteq B
    PROVE  Cardinality(A) <= Cardinality(B)
BY SlotsAreFinite, FS_Subset

LEMMA CountBoth ==
    ASSUME NEW A \in SUBSET Slots, NEW B \in SUBSET Slots, A \cap B = {}
    PROVE  Cardinality(A \cup B) = Cardinality(A) + Cardinality(B)
<1>1. IsFiniteSet(A) /\ IsFiniteSet(B) /\ Cardinality({}) = 0
  BY SlotsAreFinite, FS_EmptySet
<1>2. Cardinality(A \cup B) = Cardinality(A) + Cardinality(B) - Cardinality(A \cap B)
  BY <1>1, FS_Union
<1>3. Cardinality(A \cap B) = 0
  BY <1>1
<1> QED BY <1>2, <1>3, SlotsAreFinite

LEMMA CountWithout ==
    ASSUME NEW A \in SUBSET Slots, NEW s \in A
    PROVE  Cardinality(A \ {s}) = Cardinality(A) - 1 /\ Cardinality(A) > 0
<1>1. Cardinality(A \ {s}) = Cardinality(A) - 1
  BY SlotsAreFinite, FS_RemoveElement
<1>2. Cardinality(A \ {s}) \in Nat /\ Cardinality(A) \in Nat
  BY SlotsAreFinite
<1> QED BY <1>1, <1>2

LEMMA CountWith ==
    ASSUME NEW A \in SUBSET Slots, NEW s \in Slots \ A
    PROVE  Cardinality(A \cup {s}) = Cardinality(A) + 1
BY SlotsAreFinite, FS_AddElement

(* The state of the service. *)
Transient == {s \in Slots : task[s] = "transient"}
Room      == IF Exists = {} THEN 0 ELSE Cardinality(Slots \ Exists)
mapped    == <<Cardinality(Runnable), Cardinality(Ghosts), Cardinality(Transient), Room,
               found # {}>>

LEMMA MappedFrame ==
    UNCHANGED <<task, finished, found>> => UNCHANGED mapped
BY RunnableFrame DEF mapped, Transient, Room, Exists

LEMMA ServiceInit == Init => Service!ResearchInit
<1> SUFFICES ASSUME Init PROVE Service!ResearchInit
  OBVIOUS
<1>1. Runnable = {} /\ Ghosts = {} /\ Transient = {} /\ Exists = {}
  BY DEF Init, Runnable, Ghosts, Transient, Exists, Waiting
<1> QED BY <1>1, FS_EmptySet DEF Init, Service!ResearchInit, Transient

(* What the API threads and a restart do. *)
LEMMA StopImplements ==
    ASSUME CoordinatorInv, RequestStop
    PROVE  Service!ResearchStopRequested
BY MappedFrame
DEF RequestStop, Service!ResearchStopRequested, mapped, Transient, Room, taskVars

LEMMA ReconcileImplements ==
    ASSUME CoordinatorInv, Reconcile
    PROVE  Service!ResearchReconciled
BY MappedFrame
DEF Reconcile, Service!ResearchReconciled, mapped, Transient, Room, taskVars,
    Service!ResearchIsActive, Service!ResearchIsLive, Service!ResearchActive, ACTIVE_STATUSES

LEMMA FinishImplements ==
    ASSUME CoordinatorInv, pc # "off", NEW o \in {"completed", "failed", "stopped"},
           Finish(o), o = "stopped" => rStop
    PROVE  \E outcome \in {"completed", "failed"} : Service!ResearchFinishes(outcome)
<1>1. UNCHANGED mapped /\ rFuture = "running"
  BY MappedFrame DEF Finish, taskVars, CoordinatorInv, ThreadInv
<1>2. CASE o = "stopped"
  BY <1>1, <1>2 DEF Finish, Service!ResearchFinishes, mapped, Transient, Room
<1>3. CASE o # "stopped"
  BY <1>1, <1>3 DEF Finish, Service!ResearchFinishes, mapped, Transient, Room
<1> QED BY <1>2, <1>3

(* The tasks that can be run, those failed for now and those not created   *)
(* yet are different slots.                                                *)
LEMMA PartsFit ==
    ASSUME NEW E \in SUBSET Slots, NEW R \in SUBSET E, NEW T \in SUBSET E, R \cap T = {}
    PROVE  Cardinality(R) + Cardinality(T) + Cardinality(Slots \ E) <= Cardinality(Slots)
<1>1. Cardinality(R \cup T) = Cardinality(R) + Cardinality(T)
  BY CountBoth
<1>2. Cardinality((R \cup T) \cup (Slots \ E)) =
        Cardinality(R \cup T) + Cardinality(Slots \ E)
  BY CountBoth
<1>3. Cardinality((R \cup T) \cup (Slots \ E)) <= Cardinality(Slots)
  BY CountMore
<1> QED BY <1>1, <1>2, <1>3, SlotsAreFinite

LEMMA PlanImplements ==
    ASSUME CoordinatorInv, Plan
    PROVE  Service!CreateTasks
<1>1. /\ Runnable = {} /\ Ghosts = {} /\ Transient = {}
      /\ Ghosts' = {} /\ Transient' = {} /\ found' = found
      /\ Exists' \in SUBSET Slots /\ Runnable' \in SUBSET Exists'
  BY DEF Plan, Runnable, Ghosts, Transient, Exists, Waiting, taskVars
<1>2. Cardinality(Runnable') + Cardinality({}) + Cardinality(Slots \ Exists')
        <= Cardinality(Slots)
  BY <1>1, PartsFit
<1>3. /\ Cardinality(Runnable') \in Nat /\ Cardinality(Slots \ Exists') \in Nat
      /\ Cardinality({}) = 0 /\ Cardinality(Slots) \in Nat
  BY <1>1, SlotsAreFinite, FS_EmptySet
<1>4. Room' \in 0..(Cardinality(Slots) - Cardinality(Runnable'))
  BY <1>2, <1>3 DEF Room
<1>5. Cardinality(Runnable') \in 0..Cardinality(Slots)
  BY <1>2, <1>3
<1> QED BY <1>1, <1>4, <1>5
    DEF Plan, Service!CreateTasks, runVars, Room, Transient

LEMMA SubmitImplements ==
    ASSUME CoordinatorInv, Submit
    PROVE  Service!ResearchSubmitted
<1> DEFINE Q == Requeueable
           k == Cardinality(Q)
<1>1. /\ Q \in SUBSET Transient /\ Transient' = Transient \ Q
      /\ Transient \in SUBSET Slots
      /\ Runnable \in SUBSET Slots /\ Runnable' \in SUBSET Slots
      /\ Runnable \cup Q \subseteq Runnable' /\ Runnable \cap Q = {}
      /\ Runnable' \cap Transient' = {} /\ Runnable' \subseteq Exists'
      /\ Exists' = Exists /\ Transient' \subseteq Exists'
      /\ Ghosts \subseteq Ghosts' /\ Ghosts' \subseteq Runnable' \ Q
      /\ Runnable' # {} /\ found' = found
  BY DEF Submit, Requeueable, Transient, Runnable, Ghosts, Exists, Waiting,
         CoordinatorInv, TypeOK, taskVars
<1>2. /\ k \in Nat /\ Cardinality(Transient) \in Nat /\ Cardinality(Transient') \in Nat
      /\ Cardinality(Runnable) \in Nat /\ Cardinality(Runnable') \in Nat
      /\ Cardinality(Ghosts) \in Nat /\ Cardinality(Ghosts') \in Nat
      /\ Cardinality(Slots) \in Nat /\ Cardinality(Slots \ Exists) \in Nat
  BY <1>1, SlotsAreFinite DEF Exists, Ghosts
<1>3. Cardinality(Transient) = Cardinality(Transient') + k
  <2>1. Transient = Transient' \cup Q /\ Transient' \cap Q = {}
    BY <1>1
  <2>2. Cardinality(Transient' \cup Q) = Cardinality(Transient') + k
    BY <1>1, <2>1, CountBoth
  <2> QED BY <2>1, <2>2
<1>4. Cardinality(Runnable') >= Cardinality(Runnable) + k
  <2>1. Cardinality(Runnable \cup Q) = Cardinality(Runnable) + k
    BY <1>1, CountBoth
  <2>2. Cardinality(Runnable \cup Q) <= Cardinality(Runnable')
    BY <1>1, CountMore
  <2> QED BY <1>2, <2>1, <2>2
<1>5. Cardinality(Runnable') + Cardinality(Transient') + Cardinality(Slots \ Exists)
        <= Cardinality(Slots)
  BY <1>1, PartsFit DEF Exists
<1>6. /\ Cardinality(Ghosts) <= Cardinality(Ghosts')
      /\ Cardinality(Ghosts') + k <= Cardinality(Runnable')
  <2>1. Cardinality((Runnable' \ Q) \cup Q) = Cardinality(Runnable' \ Q) + k
    BY <1>1, CountBoth
  <2>2. (Runnable' \ Q) \cup Q = Runnable'
    BY <1>1
  <2>3. /\ Cardinality(Ghosts) <= Cardinality(Ghosts')
        /\ Cardinality(Ghosts') <= Cardinality(Runnable' \ Q)
        /\ Cardinality(Runnable' \ Q) \in Nat
    BY <1>1, CountMore, SlotsAreFinite DEF Ghosts
  <2> QED BY <1>2, <2>1, <2>2, <2>3
<1>7. k = 0 => Q = {}
  BY <1>1, SlotsAreFinite, FS_EmptySet
<1>8. Cardinality(Runnable') > 0
  BY <1>1, <1>2, SlotsAreFinite, FS_EmptySet
<1>9. k \in Service!Requeueable
  <2>1. rStatus # "failed" => Q = {}
    BY DEF Requeueable
  <2>2. rStatus # "failed" => k = 0
    BY <2>1, FS_EmptySet
  <2>3. k \in 0..Cardinality(Transient)
    BY <1>2, <1>3
  <2> QED BY <2>2, <2>3 DEF Service!Requeueable, Transient
<1>10. Service!Requeued(k)
  <2>1. CASE k = 0
    <3>1. task' = task /\ finished' = finished
      BY <1>7, <2>1 DEF Submit, CoordinatorInv, TypeOK
    <3> QED BY <1>2, <1>3, <2>1, <3>1, RunnableFrame DEF Service!Requeued, Transient
  <2>2. CASE k # 0
    <3>1. Room = Cardinality(Slots \ Exists)
      BY <1>1 DEF Room
    <3> QED BY <1>2, <1>3, <1>4, <1>5, <1>6, <2>2, <3>1
        DEF Service!Requeued, Transient, Room
  <2> QED BY <2>1, <2>2
<1>11. Room' = Room
  BY <1>1 DEF Room
<1> QED BY <1>1, <1>8, <1>9, <1>10, <1>11
    DEF Submit, Service!ResearchSubmitted, Service!ResearchIsActive,
        Service!ResearchActive, ACTIVE_STATUSES, Room

(* While a task is run, the service goes on. *)
LEMMA RunGoesOn ==
    ASSUME CoordinatorInv, pc \notin {"off", "start", "save"}
    PROVE  /\ Service!ResearchGoesOn /\ Exists # {} /\ TypeOK
           /\ Room = Cardinality(Slots \ Exists)
BY DEF CoordinatorInv, ThreadInv, TypeOK, Service!ResearchGoesOn, Room, ACTIVE_STATUSES

LEMMA CrashImplements ==
    ASSUME CoordinatorInv, Crash
    PROVE  Service!ResearchCrashed
<1>1. CASE task' = task
  BY <1>1, MappedFrame
  DEF Crash, Service!ResearchCrashed, mapped, Transient, Room
<1>2. CASE pc = "run" /\ task[cur] = "waiting" /\ task' = [task EXCEPT ![cur] = "ghost"]
  <2>1. cur \in Slots /\ UNCHANGED <<finished, found, rStatus>>
    BY <1>2 DEF CoordinatorInv, ThreadInv, TypeOK, Crash
  <2>2. MissionOf[cur[1]] \notin finished
    BY <1>2 DEF CoordinatorInv, RoundInv, RoundPoints, ThreadInv
  <2>3. /\ Runnable' = Runnable /\ Transient' = Transient /\ Exists' = Exists
        /\ cur \in Runnable \ Ghosts /\ Ghosts' = Ghosts \cup {cur}
        /\ Runnable \in SUBSET Slots /\ Ghosts \in SUBSET (Runnable \ {cur})
    BY <1>2, <2>1, <2>2
    DEF CoordinatorInv, TypeOK, Runnable, Transient, Exists, Ghosts, Waiting
  <2>4. Cardinality(Ghosts') = Cardinality(Ghosts) + 1
    BY <2>3, CountWith
  <2>5. /\ Cardinality(Runnable \ {cur}) = Cardinality(Runnable) - 1
        /\ Cardinality(Ghosts) <= Cardinality(Runnable \ {cur})
        /\ Cardinality(Ghosts) \in Nat /\ Cardinality(Runnable) \in Nat
    BY <2>3, CountWithout, CountMore, SlotsAreFinite
  <2>6. Cardinality(Runnable) > Cardinality(Ghosts)
    BY <2>5
  <2>7. Service!ResearchGoesOn
    BY <1>2, RunGoesOn
  <2> QED BY <2>1, <2>3, <2>4, <2>6, <2>7
      DEF Crash, Service!ResearchCrashed, Transient, Room
<1> QED BY <1>1, <1>2 DEF Crash

(* A task that stops being runnable. *)
LEMMA TaskLeaves ==
    ASSUME TypeOK, NEW s \in Runnable, NEW v \in {"done", "failed", "transient"},
           task' = [task EXCEPT ![s] = v], UNCHANGED finished
    PROVE  /\ Cardinality(Runnable') = Cardinality(Runnable) - 1
           /\ Cardinality(Runnable) > 0
           /\ Cardinality(Transient') = Cardinality(Transient)
                                        + (IF v = "transient" THEN 1 ELSE 0)
           /\ Exists' = Exists
           /\ task[s] = "waiting" => /\ Ghosts' = Ghosts
                                     /\ Cardinality(Runnable) > Cardinality(Ghosts)
           /\ task[s] # "waiting" => /\ Cardinality(Ghosts') = Cardinality(Ghosts) - 1
                                     /\ Cardinality(Ghosts) > 0
<1>1. /\ Runnable' = Runnable \ {s} /\ Runnable \in SUBSET Slots /\ s \in Slots
      /\ Transient' = IF v = "transient" THEN Transient \cup {s} ELSE Transient
      /\ s \notin Transient /\ Transient \in SUBSET Slots
      /\ Exists' = Exists /\ Ghosts' = Ghosts \ {s} /\ Ghosts \in SUBSET Slots
      /\ task[s] = "waiting" => Ghosts' = Ghosts /\ Ghosts \subseteq Runnable \ {s}
      /\ task[s] # "waiting" => s \in Ghosts
  BY DEF TypeOK, Runnable, Transient, Exists, Ghosts, Waiting
<1>2. Cardinality(Runnable') = Cardinality(Runnable) - 1 /\ Cardinality(Runnable) > 0
  BY <1>1, CountWithout
<1>3. Cardinality(Transient') = Cardinality(Transient) + (IF v = "transient" THEN 1 ELSE 0)
  <2>1. Cardinality(Transient) \in Nat
    BY <1>1, SlotsAreFinite
  <2> QED BY <1>1, <2>1, CountWith
<1>4. CASE task[s] = "waiting"
  <2>1. Cardinality(Ghosts) <= Cardinality(Runnable \ {s})
    BY <1>1, <1>4, CountMore
  <2>2. Cardinality(Ghosts) \in Nat /\ Cardinality(Runnable) \in Nat
    BY <1>1, SlotsAreFinite
  <2>3. Cardinality(Runnable) > Cardinality(Ghosts)
    BY <1>1, <1>2, <2>1, <2>2
  <2> QED BY <1>1, <1>2, <1>3, <1>4, <2>3
<1>5. CASE task[s] # "waiting"
  <2>1. Cardinality(Ghosts') = Cardinality(Ghosts) - 1 /\ Cardinality(Ghosts) > 0
    BY <1>1, <1>5, CountWithout
  <2> QED BY <1>1, <1>2, <1>3, <1>5, <2>1
<1> QED BY <1>4, <1>5

LEMMA TaskEndsImplements ==
    ASSUME CoordinatorInv, TaskEnds
    PROVE  Service!ResearchTaskRun \/ UNCHANGED Service!researchVars
<1>1. /\ pc = "run" /\ UNCHANGED <<runVars, finished, found>>
      /\ task' = [task EXCEPT ![cur] = IF @ = "waiting" THEN "done" ELSE @]
  BY DEF TaskEnds
<1>2. cur \in Runnable /\ TypeOK
  BY <1>1 DEF CoordinatorInv, TypeOK, ThreadInv, RoundInv, RoundPoints, Runnable
<1>3. CASE task[cur] = "waiting"
  <2>1. task' = [task EXCEPT ![cur] = "done"]
    BY <1>1, <1>3
  <2>2. /\ Cardinality(Runnable') = Cardinality(Runnable) - 1
        /\ Cardinality(Transient') = Cardinality(Transient) + 0
        /\ Exists' = Exists /\ Ghosts' = Ghosts
        /\ Cardinality(Runnable) > Cardinality(Ghosts)
    BY <1>1, <1>2, <1>3, <2>1, TaskLeaves
  <2>3. Cardinality(Transient) \in Nat
    BY SlotsAreFinite DEF Transient
  <2>4. Service!ResearchGoesOn /\ Room' = Room
    BY <1>1, <2>2, RunGoesOn DEF Room
  <2> QED BY <1>1, <2>2, <2>3, <2>4
      DEF Service!ResearchTaskRun, runVars, Transient, Room
<1>4. CASE task[cur] # "waiting"
  <2>1. task' = task
    BY <1>1, <1>2, <1>4 DEF TypeOK
  <2> QED BY <1>1, <2>1, MappedFrame
      DEF Service!researchVars, runVars, mapped, Transient, Room
<1> QED BY <1>3, <1>4

LEMMA MergeImplements ==
    ASSUME CoordinatorInv, MergeResult
    PROVE  UNCHANGED Service!researchVars
<1>1. /\ pc = "merge" /\ UNCHANGED <<runVars, finished, found>>
      /\ task' = [task EXCEPT ![cur] = IF @ = "ghost" THEN "stuck" ELSE @]
  BY DEF MergeResult
<1>2. /\ Runnable' = Runnable /\ Ghosts' = Ghosts /\ Transient' = Transient
      /\ Exists' = Exists
  BY <1>1 DEF CoordinatorInv, TypeOK, Runnable, Ghosts, Transient, Exists, Waiting
<1> QED BY <1>1, <1>2 DEF Service!researchVars, runVars, Transient, Room

LEMMA FailImplements ==
    ASSUME CoordinatorInv, TaskFails
    PROVE  Service!ResearchWorker
<1>1. /\ pc \in {"run", "merge"} /\ UNCHANGED <<runVars, finished>>
      /\ found' = found \ {cur} /\ TypeOK
  BY DEF TaskFails, CoordinatorInv
<1>2. PICK v \in {"failed", "transient"} :
          /\ task' = [task EXCEPT ![cur] = v]
          /\ v = "transient" => pc = "run" /\ task[cur] = "waiting"
  BY DEF TaskFails
<1>3. (found' # {}) \in {found # {}, FALSE}
  BY <1>1
<1>4. CASE cur \in Runnable
  <2>1. /\ Cardinality(Runnable') = Cardinality(Runnable) - 1
        /\ Cardinality(Runnable) > 0
        /\ Cardinality(Transient') = Cardinality(Transient)
                                     + (IF v = "transient" THEN 1 ELSE 0)
        /\ Exists' = Exists
        /\ task[cur] = "waiting" => /\ Ghosts' = Ghosts
                                    /\ Cardinality(Runnable) > Cardinality(Ghosts)
        /\ task[cur] # "waiting" => /\ Cardinality(Ghosts') = Cardinality(Ghosts) - 1
                                    /\ Cardinality(Ghosts) > 0
    BY <1>1, <1>2, <1>4, TaskLeaves
  <2>2. Cardinality(Transient) \in Nat
    BY SlotsAreFinite DEF Transient
  <2>3. Service!ResearchGoesOn /\ Room' = Room
    BY <1>1, <2>1, RunGoesOn DEF Room
  <2>4. CASE task[cur] = "waiting"
    <3>0. Cardinality(Transient') \in {Cardinality(Transient), Cardinality(Transient) + 1}
          /\ Cardinality(Ghosts') = Cardinality(Ghosts)
      BY <2>1, <2>2, <2>4
    <3>1. Service!ResearchTaskRun
      BY <1>1, <1>3, <2>1, <2>3, <2>4, <3>0, Zenon
      DEF Service!ResearchTaskRun, runVars, Transient, Room
    <3> QED BY <3>1 DEF Service!ResearchWorker, Service!ResearchProgress
  <2>5. CASE task[cur] # "waiting"
    <3>1. v = "failed"
      BY <1>2, <2>5
    <3>0. Cardinality(Transient') = Cardinality(Transient)
      BY <2>1, <2>2, <3>1
    <3>2. Service!ResearchGhostFails
      BY <1>1, <1>3, <2>1, <2>3, <2>5, <3>0, Zenon
      DEF Service!ResearchGhostFails, runVars, Transient, Room
    <3> QED BY <3>2 DEF Service!ResearchWorker, Service!ResearchProgress
  <2> QED BY <2>4, <2>5
<1>5. CASE cur \notin Runnable
  <2>1. task[cur] = "done" /\ cur \in Slots
    BY <1>1, <1>5
    DEF CoordinatorInv, TypeOK, ThreadInv, RoundInv, RoundPoints, Runnable, Waiting
  <2>2. v = "failed"
    BY <1>2, <2>1
  <2>3. /\ Runnable' = Runnable /\ Ghosts' = Ghosts /\ Transient' = Transient
        /\ Exists' = Exists
    BY <1>1, <1>2, <2>1, <2>2 DEF TypeOK, Runnable, Ghosts, Transient, Exists, Waiting
  <2> QED BY <1>1, <1>3, <2>3, RunGoesOn
      DEF Service!ResearchWorker, Service!ResearchTakesBack, runVars, Transient, Room
<1> QED BY <1>4, <1>5

(* Tasks are created, or a mission is finished: to the service a round     *)
(* ends.                                                                   *)
LEMMA RoundEndImplements ==
    ASSUME CoordinatorInv, pc \notin {"off", "start", "save"},
           NEW S \in SUBSET (Slots \ Exists),
           task' = [s \in Slots |-> IF s \in S THEN "waiting" ELSE task[s]],
           finished \subseteq finished', UNCHANGED <<runVars, found>>
    PROVE  Service!ResearchRoundEnds
<1>1. /\ TypeOK /\ Exists # {} /\ Room = Cardinality(Slots \ Exists)
      /\ Service!ResearchGoesOn
  BY RunGoesOn
<1>2. /\ Runnable' \subseteq Runnable \cup S /\ Runnable \cap S = {}
      /\ Runnable \in SUBSET Slots /\ Runnable' \in SUBSET Slots
      /\ Ghosts' \subseteq Ghosts /\ Ghosts' \subseteq Runnable'
      /\ Ghosts \in SUBSET Slots /\ Ghosts' \in SUBSET Slots
      /\ Transient' = Transient
      /\ Exists' = Exists \cup S /\ S \in SUBSET Slots
      /\ Slots \ Exists' \in SUBSET Slots
      /\ Slots \ Exists = (Slots \ Exists') \cup S /\ (Slots \ Exists') \cap S = {}
  BY <1>1 DEF TypeOK, Runnable, Ghosts, Transient, Exists, Waiting
<1>3. /\ Cardinality(S) \in Nat /\ Cardinality(Slots \ Exists') \in Nat
      /\ Cardinality(Runnable) \in Nat /\ Cardinality(Runnable') \in Nat
      /\ Cardinality(Ghosts) \in Nat /\ Cardinality(Ghosts') \in Nat
  BY <1>2, SlotsAreFinite
<1>4. Room = Room' + Cardinality(S) /\ Room' \in Nat
  <2>1. Room' = Cardinality(Slots \ Exists')
    BY <1>1, <1>2 DEF Room
  <2>2. Cardinality((Slots \ Exists') \cup S) = Cardinality(Slots \ Exists') + Cardinality(S)
    BY <1>2, CountBoth
  <2> QED BY <1>1, <1>2, <1>3, <2>1, <2>2
<1>5. Cardinality(Runnable') <= Cardinality(Runnable) + Cardinality(S)
  <2>1. Cardinality(Runnable \cup S) = Cardinality(Runnable) + Cardinality(S)
    BY <1>2, CountBoth
  <2>2. Cardinality(Runnable') <= Cardinality(Runnable \cup S)
    BY <1>2, CountMore
  <2> QED BY <2>1, <2>2
<1>6. Cardinality(Ghosts') <= Cardinality(Ghosts)
      /\ Cardinality(Ghosts') <= Cardinality(Runnable')
  BY <1>2, CountMore
<1>7. /\ Cardinality(S) \in 0..Room /\ Room' = Room - Cardinality(S)
      /\ Cardinality(Runnable') \in 0..(Cardinality(Runnable) + Cardinality(S))
      /\ Cardinality(Ghosts') \in {g \in 0..Cardinality(Ghosts) : g <= Cardinality(Runnable')}
  BY <1>3, <1>4, <1>5, <1>6
<1> QED BY <1>1, <1>2, <1>7, Zenon
    DEF Service!ResearchRoundEnds, runVars, Transient, Room

LEMMA RefreshImplements ==
    ASSUME CoordinatorInv, RefreshCoverage
    PROVE  Service!ResearchRoundEnds
<1>1. PICK covered : task' = [s \in Slots |-> IF s \in Supplements(covered) THEN "waiting"
                                              ELSE task[s]]
  BY DEF RefreshCoverage
<1>2. Supplements(covered) \in SUBSET (Slots \ Exists)
  BY SupplementsAreNew DEF Exists, CoordinatorInv
<1>3. pc = "refresh" /\ UNCHANGED <<runVars, found, finished>>
  BY DEF RefreshCoverage
<1> QED BY <1>1, <1>2, <1>3, RoundEndImplements

LEMMA SuperviseImplements ==
    ASSUME CoordinatorInv, NEW m \in Missions, Supervise(m)
    PROVE  Service!ResearchRoundEnds
<1>1. pc = "supervise" /\ UNCHANGED <<runVars, found>> /\ finished \subseteq finished'
      /\ task = [s \in Slots |-> task[s]]
  BY DEF Supervise, CoordinatorInv, TypeOK
<1>2. CASE task' = task
  <2>1. /\ {} \in SUBSET (Slots \ Exists)
        /\ task' = [s \in Slots |-> IF s \in {} THEN "waiting" ELSE task[s]]
    BY <1>1, <1>2
  <2> QED BY <1>1, <2>1, RoundEndImplements
<1>3. CASE task' # task
  <2>1. PICK n \in Needs : task' = [task EXCEPT ![<<n, curRound + 1>>] =
                                        IF @ = "none" THEN "waiting" ELSE @]
    BY <1>3 DEF Supervise
  <2> DEFINE new == <<n, curRound + 1>>
  <2>2. new \in Slots /\ task[new] = "none"
    BY <1>1, <1>3, <2>1 DEF CoordinatorInv, TypeOK
  <2>3. /\ {new} \in SUBSET (Slots \ Exists)
        /\ task' = [s \in Slots |-> IF s \in {new} THEN "waiting" ELSE task[s]]
    BY <2>1, <2>2 DEF Exists, CoordinatorInv, TypeOK
  <2> QED BY <1>1, <2>3, RoundEndImplements
<1> QED BY <1>2, <1>3

(* Every step of the coordinator is a step of the service or none. *)
LEMMA ServiceStep ==
    ASSUME CoordinatorInv, [Next]_vars
    PROVE  [Service!ResearchNext]_(Service!researchVars)
<1> USE DEF Service!ResearchNext, Service!ResearchWorker, Service!ResearchProgress
<1>0. ThreadInv /\ StopFlagIsCurrent
  BY DEF CoordinatorInv
<1>1. CASE UNCHANGED <<runVars, task, finished, found>>
  BY <1>1, MappedFrame DEF Service!researchVars, runVars, mapped, Transient, Room
<1>2. CASE Plan \/ Submit \/ RequestStop \/ Reconcile \/ Crash
  BY <1>2, PlanImplements, SubmitImplements, StopImplements, ReconcileImplements,
     CrashImplements
<1>3. ASSUME NEW o \in {"completed", "failed", "stopped"}, Finish(o), pc # "off",
             o = "stopped" => rStop
      PROVE  Service!ResearchNext
  BY <1>3, FinishImplements
<1>4. ASSUME NEW p \in Points, GoOn(p) PROVE UNCHANGED <<runVars, task, finished, found>>
  BY <1>4 DEF GoOn, taskVars
<1>5. CASE PickedUp
  <2>1. UNCHANGED mapped
    BY <1>5, MappedFrame DEF PickedUp, taskVars
  <2>2. Service!ResearchPickedUp
    BY <1>5, <2>1 DEF PickedUp, Service!ResearchPickedUp, mapped, Transient, Room
  <2> QED BY <2>2
<1>6. CASE SaveRunning
  <2>1. UNCHANGED mapped /\ UNCHANGED <<rFuture, rStop, task, finished, found>>
    BY <1>6, MappedFrame DEF SaveRunning, taskVars
  <2>2. CASE rStatus = "stopping"
    BY <1>1, <1>6, <2>1, <2>2 DEF SaveRunning, runVars
  <2>3. CASE rStatus # "stopping"
    <3>1. rStatus = "queued" /\ rFuture = "running" /\ rStatus' = "running"
      BY <1>0, <1>6, <2>3 DEF SaveRunning, ThreadInv
    <3>2. Service!ResearchStarts
      BY <2>1, <3>1 DEF Service!ResearchStarts, mapped, Transient, Room
    <3> QED BY <3>2
  <2> QED BY <2>2, <2>3
<1>7. CASE CheckBeforeStart \/ CheckBeforeRound \/ CheckBeforeTask
  BY <1>1, <1>3, <1>4, <1>7
  DEF CheckBeforeStart, CheckBeforeRound, CheckBeforeTask, StopCheck, Points
<1>8. CASE ChooseRound
  <2>1. CASE Finish("completed")
    BY <1>3, <1>8, <2>1 DEF ChooseRound
  <2>2. CASE ~Finish("completed")
    BY <1>1, <1>8, <2>2 DEF ChooseRound, taskVars
  <2> QED BY <2>1, <2>2
<1>9. CASE PostCoverage
  <2>1. CASE Finish("completed")
    BY <1>3, <1>9, <2>1 DEF PostCoverage
  <2>2. CASE ~Finish("completed")
    BY <1>1, <1>9, <2>2 DEF PostCoverage, taskVars
  <2> QED BY <2>1, <2>2
<1>10. CASE LoopFails
  BY <1>3, <1>10 DEF LoopFails
<1>11. CASE BeginTask
  BY <1>1, <1>11 DEF BeginTask, taskVars
<1>12. CASE Collect
  <2>1. cur \in Runnable
    BY <1>12 DEF Collect, CoordinatorInv, TypeOK, ThreadInv, RoundInv, RoundPoints,
                 Runnable, Waiting
  <2>2. Cardinality(Runnable) > 0
    <3>1. Runnable \in SUBSET Slots
      BY DEF Runnable
    <3> QED BY <2>1, <3>1, CountWithout
  <2>3. /\ UNCHANGED <<runVars, task, finished>> /\ found' # {} /\ pc = "run"
        /\ Runnable' = Runnable /\ Ghosts' = Ghosts
    BY <1>12, RunnableFrame DEF Collect
  <2>4. Service!ResearchCollects
    BY <2>2, <2>3, RunGoesOn DEF Service!ResearchCollects, runVars, Exists
  <2> QED BY <2>4
<1>13. CASE TaskEnds
  BY <1>13, TaskEndsImplements
<1>14. CASE MergeResult
  BY <1>14, MergeImplements
<1>15. CASE TaskFails
  BY <1>15, FailImplements
<1>16. CASE RefreshCoverage
  BY <1>16, RefreshImplements
<1>17. CASE \E m \in Missions : Supervise(m)
  BY <1>17, SuperviseImplements
<1>18. CASE UNCHANGED vars
  BY <1>1, <1>18 DEF vars, taskVars
<1> QED
  BY <1>2, <1>5, <1>6, <1>7, <1>8, <1>9, <1>10, <1>11, <1>12, <1>13, <1>14, <1>15,
     <1>16, <1>17, <1>18 DEF Next, Worker

(* Whatever needs, missions, rounds, resumes and restarts there are, the   *)
(* coordinator keeps what the pipeline relies on: PipelineHarness, which   *)
(* is built on ResearchService, says what happens with it.                 *)
THEOREM CoordinatorImplementsService == Spec => ImplementsService
<1>1. Init => Service!ResearchInit
  BY ServiceInit
<1>2. CoordinatorInv /\ [Next]_vars => [Service!ResearchNext]_(Service!researchVars)
  BY ServiceStep
<1> QED BY <1>1, <1>2, InvAlways, PTL DEF Spec, ImplementsService, Service!ResearchSpec
=============================================================================
