--------------------------- MODULE Execution_proofs ---------------------------
(***************************************************************************)
(* Theorems about Execution, for every board, any number of requests and   *)
(* any number of restarts.                                                 *)
(***************************************************************************)
EXTENDS Execution, TLAPS

-----------------------------------------------------------------------------
(* Types. *)

(* The executor takes over and writes well-typed boards only.              *)
LEMMA MarkReadyType ==
    ASSUME NEW b \in Board
    PROVE  MarkReady(b) \in Board
BY DEF MarkReady, Board, Statuses

(* A worker belongs to a run that was submitted.                           *)
Submitted == future # "none" \/ pc # "off" => run # "none"

LEMMA SubmittedStep == TypeOK /\ Submitted /\ [Next]_vars => Submitted'
<1> SUFFICES ASSUME TypeOK, Submitted, [Next]_vars PROVE Submitted'
  OBVIOUS
<1> USE DEF Submitted, TypeOK, planVars, workVars, workerVars
<1>1. CASE UNCHANGED vars
  BY <1>1 DEF vars
<1>2. ASSUME NEW r \in Requests, Planner(r) \/ Submitter(r) PROVE Submitted'
  <2>1. CASE Planner(r)
    BY <2>1 DEF Planner, BuildPlan, BuildSavesTask, BuildSavesPlan, Authorize,
                AuthorizeSavesBoard, AuthorizeSavesTask, AuthorizeSavesPlan,
                AuthorizeSavesAuth
  <2>2. CASE Submitter(r)
    BY <2>2 DEF Submitter, Submit, SubmitQueues, SubmitRefused
  <2> QED BY <1>2, <2>1, <2>2
<1>3. CASE ReconcileInterrupted \/ Crash
  BY <1>3 DEF ReconcileInterrupted, Crash
<1>4. CASE Worker
  BY <1>4 DEF Worker, Start, SaveTaskState, ConfigurationFails, MaterializeNodes,
              Schedule, Claim, SetRunning, CountAttempt, Close, RecordBecomes, Began,
              RunAgent, Ended, Judge, SaveOutcome, SaveFinalState, Terminal
<1> QED BY <1>1, <1>2, <1>3, <1>4 DEF Next

LEMMA TypeStep == TypeOK /\ Submitted /\ [Next]_vars => TypeOK'
<1> SUFFICES ASSUME TypeOK, Submitted, [Next]_vars PROVE TypeOK'
  OBVIOUS
<1> USE ExecutionAssumption
<1>1. CASE UNCHANGED vars
  BY <1>1 DEF TypeOK, vars, planVars, workVars, workerVars
<1>2. ASSUME NEW r \in Requests, Planner(r) PROVE TypeOK'
  <2> USE DEF TypeOK, Reads, Proceeds, Idle, NoTask, Tasks, RequestPoints,
              workVars, workerVars
  <2>1. CASE BuildPlan(r)
    BY <2>1 DEF BuildPlan
  <2>2. CASE BuildSavesTask(r)
    <3>1. task' \in Tasks
      BY <2>2 DEF BuildSavesTask
    <3>2. req' \in [Requests -> [at : RequestPoints, task : Tasks]]
      BY <2>2 DEF BuildSavesTask
    <3> QED BY <2>2, <3>1, <3>2 DEF BuildSavesTask
  <2>3. CASE BuildSavesPlan(r)
    BY <2>3 DEF BuildSavesPlan, Plans
  <2>4. CASE Authorize(r)
    BY <2>4 DEF Authorize
  <2>5. CASE AuthorizeSavesBoard(r)
    BY <2>5 DEF AuthorizeSavesBoard, FreshBoard, Board, Statuses
  <2>6. CASE AuthorizeSavesTask(r)
    BY <2>6 DEF AuthorizeSavesTask
  <2>7. CASE AuthorizeSavesPlan(r)
    BY <2>7 DEF AuthorizeSavesPlan, Plans
  <2>8. CASE AuthorizeSavesAuth(r)
    BY <2>8 DEF AuthorizeSavesAuth
  <2> QED BY <1>2, <2>1, <2>2, <2>3, <2>4, <2>5, <2>6, <2>7, <2>8 DEF Planner
<1>3. ASSUME NEW r \in Requests, Submitter(r) PROVE TypeOK'
  <2> USE DEF TypeOK, Reads, Proceeds, workVars, workerVars
  <2>1. req' \in [Requests -> [at : RequestPoints, task : Tasks]]
    <3>1. Idle \in [at : RequestPoints, task : Tasks] /\ "submit" \in RequestPoints
      BY DEF Idle, NoTask, Tasks, RequestPoints
    <3>2. CASE Submit(r)
      BY <3>1, <3>2 DEF Submit
    <3>3. CASE SubmitQueues(r) \/ SubmitRefused(r)
      BY <3>1, <3>3 DEF SubmitQueues, SubmitRefused
    <3> QED BY <1>3, <3>2, <3>3 DEF Submitter
  <2>2. job' \in Tasks
    BY <1>3 DEF Submitter, Submit, SubmitQueues, SubmitRefused
  <2>3. requests' \in 0..MaxRequests
    BY <1>3 DEF Submitter, Submit, SubmitQueues, SubmitRefused
  <2>4. /\ run' \in {"none"} \cup Active \cup Terminal
        /\ future' \in {"none", "queued", "running", "done"}
    BY <1>3 DEF Submitter, Submit, SubmitQueues, SubmitRefused, Active
  <2> QED BY <1>3, <2>1, <2>2, <2>3, <2>4
          DEF Submitter, Submit, SubmitQueues, SubmitRefused
<1>4. CASE ReconcileInterrupted
  BY <1>4 DEF ReconcileInterrupted, TypeOK, Terminal, planVars, workVars, workerVars
<1>5. CASE Crash
  <2> USE DEF Crash, TypeOK, workVars
  <2>1. 1 \in Steps /\ NoBoard \in Board
    BY DEF Steps, NoBoard, Board, Statuses
  <2>2. NoTask \in Tasks /\ Idle \in [at : RequestPoints, task : Tasks]
    BY DEF NoTask, Tasks, Idle, RequestPoints
  <2>3. crashes' \in 0..MaxCrashes
    BY <1>5
  <2>4. "off" \in Points /\ req' \in [Requests -> [at : RequestPoints, task : Tasks]]
    BY <1>5, <2>2 DEF Points
  <2> QED BY <1>5, <2>1, <2>2, <2>3, <2>4
<1>6. CASE Worker
  <2> USE DEF TypeOK, Goto, planVars, workVars, Points
  <2>1. CASE Start
    BY <2>1 DEF Start, Active
  <2>2. CASE SaveTaskState
    <3>1. task' \in Tasks
      BY <2>2 DEF SaveTaskState, TaskState, Tasks
    <3> QED BY <2>2, <3>1 DEF SaveTaskState
  <2>3. CASE ConfigurationFails
    BY <2>3 DEF ConfigurationFails
  <2>4. CASE MaterializeNodes
    BY <2>4 DEF MaterializeNodes, Loaded, Saves, Board, Statuses
  <2>5. CASE Schedule
    BY <2>5, MarkReadyType DEF Schedule, Loaded, Saves, Ready
  <2>6. ASSUME NEW point, NEW status \in Statuses, NEW next \in Points,
               RecordBecomes(point, status, next)
        PROVE  TypeOK'
    BY <2>6 DEF RecordBecomes, Loaded, Saves, Board
  <2>7. CASE Claim \/ SetRunning \/ CountAttempt \/ Close
    BY <2>6, <2>7 DEF Claim, SetRunning, CountAttempt, Close, Statuses
  <2>8. CASE Began
    BY <2>8 DEF Began, Active
  <2>9. CASE RunAgent
    BY <2>9 DEF RunAgent, Board, Statuses
  <2>10. CASE Ended
    BY <2>10 DEF Ended, Active, Terminal
  <2>11. CASE Judge
    BY <2>11 DEF Judge, Terminal
  <2>12. CASE SaveOutcome
    BY <2>12 DEF SaveOutcome, Terminal
  <2>13. CASE SaveFinalState
    <3>1. run \in Active \cup Terminal
      BY <2>13 DEF SaveFinalState, Submitted
    <3>2. task' \in Tasks
      BY <2>13, <3>1 DEF SaveFinalState, TaskState, Tasks, Active, Terminal
    <3> QED BY <2>13, <3>2 DEF SaveFinalState
  <2> QED BY <1>6, <2>1, <2>2, <2>3, <2>4, <2>5, <2>7, <2>8, <2>9, <2>10, <2>11,
             <2>12, <2>13 DEF Worker
<1> QED BY <1>1, <1>2, <1>3, <1>4, <1>5, <1>6 DEF Next

LEMMA InitTypes == Init => TypeOK /\ Submitted
<1> SUFFICES ASSUME Init PROVE TypeOK /\ Submitted
  OBVIOUS
<1>1. 1 \in Steps /\ NoBoard \in Board
  BY ExecutionAssumption DEF Steps, NoBoard, Board, Statuses
<1>2. NoTask \in Tasks /\ Idle \in [at : RequestPoints, task : Tasks]
  BY DEF NoTask, Tasks, Idle, RequestPoints
<1>3. /\ requests \in 0..MaxRequests /\ crashes \in 0..MaxCrashes
      /\ resets \in Nat /\ ran \in [Steps -> Nat]
  BY ExecutionAssumption DEF Init
<1>4. req \in [Requests -> [at : RequestPoints, task : Tasks]]
  BY <1>2 DEF Init
<1> QED BY <1>1, <1>2, <1>3, <1>4 DEF Init, TypeOK, Submitted, Plans, Points

(* Every reachable state is well typed.                                    *)
THEOREM TypeCorrect == Spec => []TypeOK
BY InitTypes, TypeStep, SubmittedStep, PTL DEF Spec

LEMMA SubmittedAlways == Spec => []Submitted
BY InitTypes, TypeStep, SubmittedStep, PTL DEF Spec

-----------------------------------------------------------------------------
(* What is recorded as completed was done: on the board, on the executor's *)
(* copy of it and in its nodes.                                            *)

BoardsAreTrue == \A t \in Steps : board[t] = "completed" \/ copy[t] = "completed"
                                    => t \in done
NodesAreTrue  == \A t \in Steps : nodes[t] = "completed" => t \in done
AgentMayRun   == /\ pc \in {"claim", "running", "attempt", "began", "act"}
                      => DependsOn[cur] \subseteq done
                 /\ pc = "close" /\ ok => cur \in done
DoneInv == BoardsAreTrue /\ NodesAreTrue /\ AgentMayRun

LEMMA DoneStep == TypeOK /\ DoneInv /\ [Next]_vars => DoneInv'
<1> SUFFICES ASSUME TypeOK, DoneInv, [Next]_vars PROVE DoneInv'
  OBVIOUS
<1> USE DEF DoneInv, BoardsAreTrue, NodesAreTrue, AgentMayRun, TypeOK, planVars,
            workVars, workerVars
<1>1. CASE UNCHANGED vars
  BY <1>1 DEF vars
<1>2. ASSUME NEW r \in Requests, Planner(r) \/ Submitter(r) PROVE DoneInv'
  <2>1. CASE AuthorizeSavesBoard(r)
    BY <2>1 DEF AuthorizeSavesBoard, FreshBoard
  <2>2. CASE Planner(r) /\ ~AuthorizeSavesBoard(r)
    BY <2>2 DEF Planner, BuildPlan, BuildSavesTask, BuildSavesPlan, Authorize,
                AuthorizeSavesTask, AuthorizeSavesPlan, AuthorizeSavesAuth
  <2>3. CASE Submitter(r)
    BY <2>3 DEF Submitter, Submit, SubmitQueues, SubmitRefused
  <2> QED BY <1>2, <2>1, <2>2, <2>3
<1>3. CASE ReconcileInterrupted \/ Crash
  BY <1>3 DEF ReconcileInterrupted, Crash, NoBoard
<1>4. CASE Worker
  <2>1. CASE Start \/ SaveTaskState \/ ConfigurationFails \/ Began \/ Ended
             \/ Judge \/ SaveOutcome \/ SaveFinalState
    BY <2>1 DEF Start, SaveTaskState, ConfigurationFails, Began, Ended, Judge,
                SaveOutcome, SaveFinalState, Goto, Terminal
  <2>2. CASE MaterializeNodes
    BY <2>2 DEF MaterializeNodes, Loaded, Saves, Goto
  <2>3. CASE Schedule
    <3>1. PICK b \in Loaded :
             LET marked == MarkReady(b) IN
             /\ Saves(marked)
             /\ \/ Goto("gate") /\ UNCHANGED cur
                \/ Goto("claim") /\ cur' \in Ready(marked)
      BY <2>3 DEF Schedule
    <3>2. \A t \in Steps : MarkReady(b)[t] = "completed" => b[t] = "completed"
      BY DEF MarkReady
    <3>3. \A t \in Ready(MarkReady(b)) : \A d \in DependsOn[t] : b[d] = "completed"
      BY DEF MarkReady, Ready
    <3>4. \A t \in Steps : b[t] = "completed" => t \in done
      BY DEF Loaded
    <3>5. BoardsAreTrue' /\ NodesAreTrue'
      BY <2>3, <3>1, <3>2, <3>4 DEF Schedule, Saves
    <3>6. ASSUME cur' \in Ready(MarkReady(b)) PROVE DependsOn[cur'] \subseteq done
      BY <3>3, <3>4, <3>6, ExecutionAssumption DEF Ready
    <3> QED BY <2>3, <3>1, <3>5, <3>6 DEF Schedule, Goto
  <2>4. CASE Claim \/ SetRunning \/ CountAttempt \/ Close
    BY <2>4 DEF Claim, SetRunning, CountAttempt, Close, RecordBecomes, Loaded, Saves,
                Goto, Board
  <2>5. CASE RunAgent
    BY <2>5 DEF RunAgent, Board, Goto
  <2> QED BY <1>4, <2>1, <2>2, <2>3, <2>4, <2>5 DEF Worker
<1> QED BY <1>1, <1>2, <1>3, <1>4 DEF Next

LEMMA DoneAlways == Spec => []DoneInv
<1>1. Init => DoneInv
  BY DEF Init, DoneInv, BoardsAreTrue, NodesAreTrue, AgentMayRun, NoBoard
<1> QED BY <1>1, DoneStep, TypeCorrect, PTL DEF Spec

(* A record only runs when the agents of all it depends on have succeeded, *)
(* whatever boards are published under the executor.                       *)
THEOREM RecordsRunInOrder == Spec => []DependenciesFirst
<1>1. DoneInv => DependenciesFirst
  BY DEF DoneInv, AgentMayRun, DependenciesFirst
<1> QED BY <1>1, DoneAlways, PTL

(* Types and the order of the board together.                              *)
THEOREM BoardsAreSound == Spec => []BoardIsSound
<1>1. TypeOK /\ DependenciesFirst => BoardIsSound
  BY DEF BoardIsSound
<1> QED BY <1>1, TypeCorrect, RecordsRunInOrder, PTL

-----------------------------------------------------------------------------
(* A worker that is about to save "completed" has found every node         *)
(* completed and passed the gate; neither is ever undone.                  *)

WholeInv == run = "completed" \/ pc = "completed" => done = Steps /\ gate # "none"

LEMMA WholeStep == TypeOK /\ DoneInv /\ WholeInv /\ [Next]_vars => WholeInv'
<1> SUFFICES ASSUME TypeOK, DoneInv, WholeInv, [Next]_vars PROVE WholeInv'
  OBVIOUS
<1> USE DEF WholeInv, TypeOK, planVars, workVars, workerVars
<1>1. CASE UNCHANGED vars
  BY <1>1 DEF vars
<1>2. ASSUME NEW r \in Requests, Planner(r) \/ Submitter(r) PROVE WholeInv'
  <2>1. CASE Planner(r)
    BY <2>1 DEF Planner, BuildPlan, BuildSavesTask, BuildSavesPlan, Authorize,
                AuthorizeSavesBoard, AuthorizeSavesTask, AuthorizeSavesPlan,
                AuthorizeSavesAuth
  <2>2. CASE Submitter(r)
    BY <2>2 DEF Submitter, Submit, SubmitQueues, SubmitRefused
  <2> QED BY <1>2, <2>1, <2>2
<1>3. CASE ReconcileInterrupted \/ Crash
  BY <1>3 DEF ReconcileInterrupted, Crash
<1>4. CASE Worker
  <2>1. CASE Start \/ SaveTaskState \/ ConfigurationFails \/ MaterializeNodes
             \/ Schedule \/ Began \/ Ended \/ SaveOutcome \/ SaveFinalState
    BY <2>1 DEF Start, SaveTaskState, ConfigurationFails, MaterializeNodes, Schedule,
                Began, Ended, SaveOutcome, SaveFinalState, Goto, Terminal
  <2>2. CASE Claim \/ SetRunning \/ CountAttempt \/ Close
    BY <2>2 DEF Claim, SetRunning, CountAttempt, Close, RecordBecomes, Goto
  <2>3. CASE RunAgent
    BY <2>3 DEF RunAgent, Goto
  <2>4. CASE Judge
    <3>1. AllNodesCompleted => done = Steps
      BY DEF AllNodesCompleted, DoneInv, NodesAreTrue
    <3> QED BY <2>4, <3>1 DEF Judge, Goto
  <2> QED BY <1>4, <2>1, <2>2, <2>3, <2>4 DEF Worker
<1> QED BY <1>1, <1>2, <1>3, <1>4 DEF Next

(* A completed run has run every record with success and was judged by the *)
(* quality gate, although its outcome is read off the executor's memory    *)
(* and not off the saved board.                                            *)
THEOREM CompletionIsWhole == Spec => []CompletedIsWhole
<1>1. Init => WholeInv
  BY DEF Init, WholeInv
<1>2. WholeInv => CompletedIsWhole
  BY DEF WholeInv, CompletedIsWhole
<1> QED BY <1>1, <1>2, WholeStep, DoneAlways, TypeCorrect, PTL DEF Spec

-----------------------------------------------------------------------------
(* Repeats.  Every published board is a licence to run each record once    *)
(* more.  The licence is held by the board, or the executor's copy, while  *)
(* the record is pending or ready, then by the executor until the agent    *)
(* runs; a board published meanwhile is a second one.                      *)

Fresh(b, t) == b[t] \in {"pending", "ready"}
UnderWay    == pc \in {"running", "attempt", "began", "act"}

Licences(b) ==
    /\ \A t \in Steps : Fresh(b, t) => ran[t] <= resets
    /\ UnderWay /\ Fresh(b, cur) => ran[cur] + 1 <= resets
    /\ pc = "claim" => Fresh(b, cur)

RepeatInv ==
    /\ RepeatsNeedReset
    /\ Licences(board) /\ Licences(copy)
    /\ UnderWay => ran[cur] <= resets
    /\ run = "none" => pc = "off" /\ \A t \in Steps : ran[t] = 0

LEMMA RepeatStep == TypeOK /\ RepeatInv /\ Submitted /\ [Next]_vars => RepeatInv'
<1> SUFFICES ASSUME TypeOK, RepeatInv, Submitted, [Next]_vars PROVE RepeatInv'
  OBVIOUS
<1> USE DEF RepeatInv, RepeatsNeedReset, Licences, Fresh, UnderWay, TypeOK,
            planVars, workVars, workerVars
<1>1. CASE UNCHANGED vars
  BY <1>1 DEF vars
<1>2. ASSUME NEW r \in Requests, Planner(r) \/ Submitter(r) PROVE RepeatInv'
  <2>1. CASE AuthorizeSavesBoard(r)
    <3>1. \A t \in Steps : board'[t] \in {"pending", "ready"}
      BY <2>1 DEF AuthorizeSavesBoard, FreshBoard
    <3>2. CASE run = "none"
      BY <2>1, <3>1, <3>2 DEF AuthorizeSavesBoard
    <3>3. CASE run # "none"
      <4>1. resets' = resets + 1 /\ resets \in Nat /\ ran' = ran /\ cur' = cur
            /\ pc' = pc /\ copy' = copy /\ run' = run
        BY <2>1, <3>3 DEF AuthorizeSavesBoard
      <4>2. \A t \in Steps : ran[t] \in Nat /\ ran[t] <= resets'
        BY <4>1
      <4>3. Licences(board)'
        BY <3>1, <4>1, <4>2
      <4>4. Licences(copy)'
        BY <4>1, <4>2
      <4> QED BY <3>3, <4>1, <4>2, <4>3, <4>4
    <3> QED BY <3>2, <3>3
  <2>2. CASE Planner(r) /\ ~AuthorizeSavesBoard(r)
    BY <2>2 DEF Planner, BuildPlan, BuildSavesTask, BuildSavesPlan, Authorize,
                AuthorizeSavesTask, AuthorizeSavesPlan, AuthorizeSavesAuth
  <2>3. CASE Submitter(r)
    BY <2>3 DEF Submitter, Submit, SubmitQueues, SubmitRefused
  <2> QED BY <1>2, <2>1, <2>2, <2>3
<1>3. CASE ReconcileInterrupted \/ Crash
  BY <1>3 DEF ReconcileInterrupted, Crash, Active
<1>4. CASE Worker
  <2>1. CASE Start \/ SaveTaskState \/ ConfigurationFails \/ Began \/ Ended
             \/ Judge \/ SaveOutcome \/ SaveFinalState
    BY <2>1 DEF Start, SaveTaskState, ConfigurationFails, Began, Ended, Judge,
                SaveOutcome, SaveFinalState, Goto, Terminal
  <2>2. CASE MaterializeNodes
    BY <2>2 DEF MaterializeNodes, Loaded, Saves, Goto
  <2>3. CASE Schedule
    <3>1. PICK b \in Loaded :
             /\ board' = MarkReady(b) /\ copy' = MarkReady(b)
             /\ \/ pc' = "gate"
                \/ pc' = "claim" /\ cur' \in Ready(MarkReady(b))
      BY <2>3 DEF Schedule, Saves, Goto
    <3>2. \A t \in Steps : Fresh(MarkReady(b), t) <=> Fresh(b, t)
      BY DEF MarkReady
    <3>3. \A t \in Steps : Fresh(b, t) => ran[t] <= resets
      BY DEF Loaded
    <3>4. board' = MarkReady(b) /\ copy' = MarkReady(b) /\ ran' = ran
          /\ resets' = resets /\ run' = run
      BY <2>3, <3>1 DEF Schedule
    <3>5. pc' = "gate" \/ (pc' = "claim" /\ MarkReady(b)[cur'] = "ready")
      <4>1. \A t \in Ready(MarkReady(b)) : MarkReady(b)[t] = "ready"
        BY DEF Ready
      <4> QED BY <3>1, <4>1
    <3>6. run # "none"
      BY <2>3 DEF Schedule
    <3> QED BY <3>2, <3>3, <3>4, <3>5, <3>6
  <2>4. CASE Claim
    BY <2>4 DEF Claim, RecordBecomes, Loaded, Saves, Goto, Board
  <2>5. CASE SetRunning \/ CountAttempt \/ Close
    BY <2>5 DEF SetRunning, CountAttempt, Close, RecordBecomes, Loaded, Saves, Goto,
                Board
  <2>6. CASE RunAgent
    <3>1. ran' = [ran EXCEPT ![cur] = ran[cur] + 1] /\ cur' = cur /\ pc' = "close"
          /\ resets' = resets /\ board' = board /\ copy' = copy /\ run' = run
          /\ run # "none"
      BY <2>6 DEF RunAgent, Goto
    <3>2. ran[cur] + 1 <= 1 + resets
      BY <2>6 DEF RunAgent
    <3>3. \A b \in {board, copy} : Fresh(b, cur) => ran[cur] + 1 <= resets
      BY <2>6 DEF RunAgent
    <3> QED BY <3>1, <3>2, <3>3
  <2> QED BY <1>4, <2>1, <2>2, <2>3, <2>4, <2>5, <2>6 DEF Worker
<1> QED BY <1>1, <1>2, <1>3, <1>4 DEF Next

(* A record is run once and, at most, once more for every board that an    *)
(* authorisation published after the run was submitted: the executor never *)
(* repeats one by itself, nor does a restart.                              *)
THEOREM RecordsRunOnce == Spec => []RepeatsNeedReset
<1>1. Init => RepeatInv
  BY ExecutionAssumption DEF Init, RepeatInv, RepeatsNeedReset, Licences, Fresh, UnderWay
<1>2. RepeatInv => RepeatsNeedReset
  BY DEF RepeatInv
<1> QED BY <1>1, <1>2, RepeatStep, TypeCorrect, SubmittedAlways, PTL DEF Spec

-----------------------------------------------------------------------------
(* Ends.  While no board is published after the submission, a run that is  *)
(* saved as failed has the failed record on the board and among the nodes, *)
(* so that the executor and the judgement come to the same end.            *)

FailedRecord(t) == copy[t] = "failed" /\ nodes[t] = "failed"

EndInv ==
    /\ pc # "off" => future = "running"
    /\ future = "queued" => run = "queued"
    /\ resets = 0 =>
        /\ pc \notin {"off", "tstate"} => board = copy
        /\ pc \in {"tstate", "build", "claim", "running", "attempt", "began", "act",
                    "close", "ended", "completed"} => run \in Active
        /\ pc = "mark" /\ run \notin Active
              => run = "failed" /\ \E t \in Steps : FailedRecord(t)
        /\ pc \in {"close", "ended"} /\ ~ok => nodes[cur] = "failed"
        /\ pc = "ended" /\ ~ok => FailedRecord(cur)
        /\ pc = "gate" /\ run \notin Active
              => run = "failed" /\ \E t \in Steps : nodes[t] = "failed"
        /\ pc = "failed" => run \in Active \cup {"failed"}

LEMMA EndStep == TypeOK /\ Submitted /\ EndInv /\ [Next]_vars => EndInv'
<1> SUFFICES ASSUME TypeOK, Submitted, EndInv, [Next]_vars PROVE EndInv'
  OBVIOUS
<1> USE DEF EndInv, FailedRecord, Submitted, Active, TypeOK, planVars, workVars,
            workerVars
<1>1. CASE UNCHANGED vars
  BY <1>1 DEF vars
<1>2. ASSUME NEW r \in Requests, Planner(r) \/ Submitter(r) PROVE EndInv'
  <2>1. CASE AuthorizeSavesBoard(r)
    <3>1. CASE run = "none"
      BY <2>1, <3>1 DEF AuthorizeSavesBoard
    <3>2. CASE run # "none"
      <4>1. resets' # 0
        BY <2>1, <3>2 DEF AuthorizeSavesBoard
      <4> QED BY <2>1, <4>1 DEF AuthorizeSavesBoard
    <3> QED BY <3>1, <3>2
  <2>2. CASE Planner(r) /\ ~AuthorizeSavesBoard(r)
    BY <2>2 DEF Planner, BuildPlan, BuildSavesTask, BuildSavesPlan, Authorize,
                AuthorizeSavesTask, AuthorizeSavesPlan, AuthorizeSavesAuth
  <2>3. CASE Submitter(r)
    BY <2>3 DEF Submitter, Submit, SubmitQueues, SubmitRefused
  <2> QED BY <1>2, <2>1, <2>2, <2>3
<1>3. CASE ReconcileInterrupted \/ Crash
  BY <1>3 DEF ReconcileInterrupted, Crash
<1>4. CASE Worker
  <2>1. CASE Start \/ SaveTaskState \/ ConfigurationFails \/ Began
             \/ SaveOutcome \/ SaveFinalState
    BY <2>1 DEF Start, SaveTaskState, ConfigurationFails, Began, SaveOutcome,
                SaveFinalState, Goto, Terminal
  <2>2. CASE MaterializeNodes
    BY <2>2 DEF MaterializeNodes, Loaded, Saves, Goto
  <2>3. CASE Schedule
    <3>1. PICK b \in Loaded :
             LET marked == MarkReady(b) IN
             /\ Saves(marked)
             /\ IF Finished(marked) \/ Ready(marked) = {}
                THEN Goto("gate") /\ UNCHANGED cur
                ELSE Goto("claim") /\ cur' \in Ready(marked)
      BY <2>3 DEF Schedule
    <3>2. \A t \in Steps : b[t] = "failed" => MarkReady(b)[t] = "failed"
      BY DEF MarkReady
    <3>3. ASSUME NEW t \in Steps, b[t] = "failed" PROVE pc' = "gate"
      BY <3>1, <3>2, <3>3 DEF Finished, Goto
    <3>4. board' = copy' /\ nodes' = nodes /\ run' = run /\ future' = future
          /\ resets' = resets /\ ok' = ok /\ pc' \in {"gate", "claim"} /\ pc = "mark"
      BY <2>3, <3>1 DEF Schedule, Saves, Goto
    <3>5. resets = 0 => b = copy
      BY <3>4 DEF Loaded
    <3> QED BY <3>3, <3>4, <3>5
  <2>4. CASE Claim \/ SetRunning \/ CountAttempt
    BY <2>4 DEF Claim, SetRunning, CountAttempt, RecordBecomes, Loaded, Saves, Goto
  <2>5. CASE Close
    BY <2>5 DEF Close, RecordBecomes, Loaded, Saves, Goto, Board
  <2>6. CASE RunAgent
    BY <2>6 DEF RunAgent, Goto, Board
  <2>7. CASE Ended
    BY <2>7 DEF Ended, Goto
  <2>8. CASE Judge
    BY <2>8 DEF Judge, AllNodesCompleted, Goto, Terminal
  <2> QED BY <1>4, <2>1, <2>2, <2>3, <2>4, <2>5, <2>6, <2>7, <2>8 DEF Worker
<1> QED BY <1>1, <1>2, <1>3, <1>4 DEF Next

(* A run that has ended stays as it ended unless a board is published under *)
(* it.                                                                     *)
THEOREM EndsAreFinal == Spec => EndIsFinal
<1> DEFINE Final == run \in Terminal /\ resets = 0 => run' = run
<1>1. Init => EndInv
  BY DEF Init, EndInv
<1>2. TypeOK /\ Submitted /\ EndInv /\ [Next]_vars => Final
  <2> SUFFICES ASSUME TypeOK, Submitted, EndInv, Next, run \in Terminal, resets = 0
               PROVE  run' = run
    BY DEF vars
  <2> USE DEF EndInv, Terminal, Active, Submitted, planVars, workVars, workerVars
  <2>1. ASSUME NEW r \in Requests, Planner(r) \/ Submitter(r) PROVE run' = run
    BY <2>1 DEF Planner, BuildPlan, BuildSavesTask, BuildSavesPlan, Authorize,
                AuthorizeSavesBoard, AuthorizeSavesTask, AuthorizeSavesPlan,
                AuthorizeSavesAuth, Submitter, Submit, SubmitQueues, SubmitRefused
  <2>2. CASE ReconcileInterrupted \/ Crash
    BY <2>2 DEF ReconcileInterrupted, Crash
  <2>3. CASE Worker
    BY <2>3 DEF Worker, Start, SaveTaskState, ConfigurationFails, MaterializeNodes,
                Schedule, Claim, SetRunning, CountAttempt, Close, RecordBecomes, Began,
                RunAgent, Ended, Judge, SaveOutcome, SaveFinalState
  <2> QED BY <2>1, <2>2, <2>3 DEF Next
<1>3. TypeOK /\ Submitted /\ EndInv /\ [Next]_vars => [Final]_vars
  BY <1>2
<1> QED BY <1>1, <1>3, EndStep, TypeCorrect, SubmittedAlways, PTL DEF Spec, EndIsFinal
=============================================================================
