----------------------- MODULE PipelineHarness_proofs -----------------------
(***************************************************************************)
(* Theorems about PipelineHarness, for every value of its constants.       *)
(***************************************************************************)
EXTENDS PipelineHarness, TLAPS

(* What _save_run keeps of the copy it is given, and what it restores.     *)
LEMMA SavedFacts ==
    ASSUME NEW item \in Run, NEW new \in Run
    PROVE  /\ Saved(item, new) \in Run
           /\ Saved(item, new).done = new.done
           /\ Saved(item, new).resumes = new.resumes
           /\ Saved(item, new).stage = new.stage
           /\ Saved(item, new).marked = new.marked
           /\ Saved(item, new).status \in {new.status, "stopping"}
           /\ new.stop => Saved(item, new).stop
           /\ item.stop /\ ~ExplicitResume(item, new) => Saved(item, new).stop
           /\ new.status \in Terminal => Saved(item, new).status = new.status
           /\ new.status \in Active => Saved(item, new).status \in Active
           /\ new.stop => Saved(item, new) = new
           /\ ~item.stop => Saved(item, new) = new
BY DEF Saved, Run, Active, Terminal

-----------------------------------------------------------------------------
(* Types. *)

LEMMA ResearchTypes ==
    ASSUME ResearchTypeOK,
           \/ ResearchSubmitted \/ ResearchRefused \/ ResearchStopRequested
           \/ ResearchReconciled \/ CreateTasks \/ ResearchWorker
           \/ ResearchCrashed \/ UNCHANGED researchVars
    PROVE  ResearchTypeOK'
<1> USE DEF ResearchTypeOK, ResearchActive, ResearchTerminal, Futures
<1>1. CASE ResearchSubmitted
  <2>1. CASE UNCHANGED researchVars
    BY <2>1 DEF researchVars
  <2>2. ASSUME NEW k \in Requeueable, Requeued(k) PROVE waiting' \in Nat
                /\ ghosts' \in Nat /\ transient' \in Nat
    <3>1. k \in Nat /\ k <= transient /\ transient' = transient - k
      BY <2>2 DEF Requeueable, Requeued
    <3>2. transient' \in Nat
      BY <3>1
    <3>3. waiting' \in Nat /\ ghosts' \in Nat
      BY <2>2, <3>1, <3>2, TasksAssumption DEF Requeued
    <3> QED BY <3>2, <3>3
  <2> QED BY <1>1, <2>1, <2>2 DEF ResearchSubmitted
<1>2. CASE ResearchRefused \/ UNCHANGED researchVars
  BY <1>2 DEF ResearchRefused, researchVars
<1>3. CASE ResearchStopRequested
  BY <1>3 DEF ResearchStopRequested, researchVars
<1>4. CASE ResearchReconciled
  BY <1>4 DEF ResearchReconciled, researchVars
<1>5. CASE CreateTasks
  BY <1>5, TasksAssumption DEF CreateTasks
<1>6. CASE ResearchCrashed
  <2>1. ghosts' \in Nat
    BY <1>6 DEF ResearchCrashed
  <2> QED BY <1>6, <2>1 DEF ResearchCrashed
<1>7. CASE ResearchWorker
  <2>1. CASE ResearchPickedUp \/ ResearchStarts \/ ResearchCollects
    BY <2>1 DEF ResearchPickedUp, ResearchStarts, ResearchCollects
  <2>2. CASE ResearchTaskRun
    <3>1. waiting' \in Nat /\ transient' \in Nat
      <4>1. waiting > ghosts /\ waiting' = waiting - 1
            /\ (transient' = transient \/ transient' \in {transient, transient + 1})
        BY <2>2, Zenon DEF ResearchTaskRun
      <4> QED BY <4>1
    <3>2. evidence' \in BOOLEAN
      <4>1. evidence' = evidence \/ evidence' \in {evidence, FALSE}
        BY <2>2, Zenon DEF ResearchTaskRun
      <4> QED BY <4>1
    <3> QED BY <2>2, <3>1, <3>2 DEF ResearchTaskRun
  <2>3. CASE ResearchGhostFails
    <3>1. waiting' \in Nat /\ ghosts' \in Nat
      BY <2>3 DEF ResearchGhostFails
    <3>2. evidence' \in BOOLEAN
      BY <2>3 DEF ResearchGhostFails
    <3> QED BY <2>3, <3>1, <3>2 DEF ResearchGhostFails
  <2>4. CASE ResearchRoundEnds
    BY <2>4 DEF ResearchRoundEnds
  <2>5. CASE \E outcome \in {"completed", "failed"} : ResearchFinishes(outcome)
    BY <2>5 DEF ResearchFinishes
  <2>6. CASE ResearchTakesBack
    <3>1. evidence' \in {evidence, FALSE}
      BY <2>6 DEF ResearchTakesBack
    <3> QED BY <2>6, <3>1 DEF ResearchTakesBack
  <2> QED BY <1>7, <2>1, <2>2, <2>3, <2>4, <2>5, <2>6 DEF ResearchWorker, ResearchProgress
<1> QED
  BY <1>1, <1>2, <1>3, <1>4, <1>5, <1>6, <1>7

(* The copies the methods save are runs. *)
LEMMA CopyTypes ==
    ASSUME NEW r \in Run
    PROVE  /\ Stopping(r) \in Run /\ Stopped(r) \in Run
           /\ Interrupted(r) \in Run /\ Resumed(r) \in Run
           /\ Reconciled(r) \in Run
<1>1. Stopping(r) \in Run /\ Stopped(r) \in Run /\ Interrupted(r) \in Run
  BY DEF Stopping, Stopped, Interrupted, Run, Active, Terminal
<1>2. Resumed(r) \in Run
  <2>1. r.resumes + 1 \in Nat
    BY DEF Run
  <2> QED BY <2>1 DEF Resumed, Run, Active
<1>3. Reconciled(r) \in Run
  BY <1>1, SavedFacts DEF Reconciled
<1> QED BY <1>1, <1>2, <1>3

LEMMA InitTypes == Init => TypeOK
<1> SUFFICES ASSUME Init PROVE TypeOK
  OBVIOUS
<1>1. run \in Run /\ local \in Run
  BY DEF Init, NoRun, Run
<1>2. ResearchTypeOK
  BY DEF Init, ResearchInit, ResearchTypeOK, Futures
<1>3. handoffs \in Seq(HandoffKeys)
      /\ checkpoints \in Seq([stage : Stages, done : SUBSET Stages])
  BY DEF Init
<1>4. pc \in [Actors -> Points] /\ tries \in [Actors -> 0..WRITER_MAX_ATTEMPTS]
  BY BoundsAssumption DEF Init, Points
<1> QED
  BY <1>1, <1>2, <1>3, <1>4, BoundsAssumption
  DEF Init, TypeOK, Futures, Stages

(* The writer is only called while an attempt is left. *)
WriterBound == \A a \in Actors : pc[a] = "write" => tries[a] < WRITER_MAX_ATTEMPTS

(* A step of an analysis or reporting call keeps the types. *)
LEMMA ServiceTypes ==
    ASSUME TypeOK, WriterBound, NEW a \in Actors, ServiceStep(a)
    PROVE  TypeOK' /\ WriterBound'
<1> USE DEF TypeOK, WriterBound, Goto, Saves, Returns, Raises,
            unchangedByWork, researchVars, ResearchTypeOK
<1>1. CASE LockAnalysis(a)
  BY <1>1 DEF LockAnalysis, Points
<1>2. CASE RunAnalyst(a)
  <2>1. paid' \in Nat
    BY <1>2 DEF RunAnalyst
  <2> QED BY <1>2, <2>1 DEF RunAnalyst, Points, Artifacts
<1>3. CASE SaveClaims(a)
  BY <1>3 DEF SaveClaims, Points, Artifacts
<1>4. CASE RunCitation(a)
  BY <1>4 DEF RunCitation, Points, Artifacts
<1>5. CASE LockReporting(a)
  <2>1. pc[a] = "call_reporting" /\ tries' = [tries EXCEPT ![a] = 0]
        /\ \E p \in {"except", "off", "handoff", "statements", "write"} :
               pc' = [pc EXCEPT ![a] = p]
    BY <1>5 DEF LockReporting
  <2>2. pc' \in [Actors -> Points]
    BY <2>1 DEF Points
  <2>3. tries' \in [Actors -> 0..WRITER_MAX_ATTEMPTS] /\ WriterBound'
    BY <2>1, BoundsAssumption
  <2> QED BY <1>5, <2>2, <2>3 DEF LockReporting
<1>6. CASE WriteReport(a)
  <2>1. tries[a] + 1 \in 0..WRITER_MAX_ATTEMPTS
    BY <1>6, BoundsAssumption DEF WriteReport
  <2>2. tries' \in [Actors -> 0..WRITER_MAX_ATTEMPTS]
    BY <1>6, <2>1 DEF WriteReport
  <2>3. pc' \in [Actors -> Points] /\ artifacts' \subseteq Artifacts
    BY <1>6 DEF WriteReport, Points, Artifacts
  <2>4. WriterBound'
    BY <1>6, <2>1, <2>2, <2>3, BoundsAssumption DEF WriteReport
  <2> QED BY <1>6, <2>2, <2>3, <2>4 DEF WriteReport
<1>7. CASE SaveStatements(a)
  BY <1>7 DEF SaveStatements, Points, Artifacts
<1>8. CASE EnsureStatements(a)
  BY <1>8 DEF EnsureStatements, Points, Artifacts
<1>9. CASE RunReviewer(a)
  BY <1>9 DEF RunReviewer, Points, Artifacts
<1>10. CASE RunQualityGate(a)
  BY <1>10 DEF RunQualityGate, Points, Artifacts
<1> QED
  BY <1>1, <1>2, <1>3, <1>4, <1>5, <1>6, <1>7, <1>8, <1>9, <1>10
  DEF ServiceStep

-----------------------------------------------------------------------------
(* The inductive invariant of the run's life. *)

(* The worker's thread, its future and the run belong together: a thread   *)
(* that runs has an active run, and its copy differs from the run at most  *)
(* in what the API threads write.                                          *)
Coupling ==
    /\ pc["worker"] # "off" <=> future = "running"
    /\ future \in {"queued", "running"} => run.status \in Active
    /\ future = "done" => run.status \in Terminal
    /\ run.status = "none" => run = NoRun
    /\ future = "running" => /\ local.status \in Active
                             /\ local.done = run.done
                             /\ local.resumes = run.resumes

(* Inside a stage _execute is at one of the four, and a handoff is made    *)
(* while the stage has one left.                                           *)
OutsideStage == {"off", "start", "check", "settle", "except", "stop", "fail"}
WorkPoints ==
    {"plan", "save_board", "reconcile", "submit", "poll", "status", "recheck",
     "analyze", "call_analysis", "analyst", "save_claims", "cite",
     "report", "call_reporting", "write", "save_statements", "statements",
     "review", "gate"}
LateHandoff == {"planning", "researching"}

InsideStage ==
    /\ pc["worker"] \notin OutsideStage => at \in Stages
    /\ pc["worker"] \in WorkPoints => hop = 0
    /\ pc["worker"] \in {"complete", "checkpoint", "mark"} /\ at \in LateHandoff
         => hop = 0
    /\ pc["worker"] = "handoff" => hop < Len(StageHandoffs[at])

LifeInv == TypeOK /\ WriterBound /\ Coupling /\ InsideStage

LEMMA LifeInit == Init => LifeInv
<1>1. Init => WriterBound
  BY DEF Init, WriterBound
<1>2. Init => Coupling
  BY DEF Init, Coupling, Actors, NoRun
<1>3. Init => InsideStage
  BY DEF Init, InsideStage, Actors, OutsideStage, WorkPoints
<1> QED BY <1>1, <1>2, <1>3, InitTypes DEF LifeInv

LEMMA ServiceLife ==
    ASSUME LifeInv, NEW a \in Actors, ServiceStep(a)
    PROVE  LifeInv'
<1>1. TypeOK' /\ WriterBound'
  BY ServiceTypes DEF LifeInv
<1>2. UNCHANGED <<run, future, local>>
  BY DEF ServiceStep, LockAnalysis, RunAnalyst, SaveClaims, RunCitation,
         LockReporting, WriteReport, SaveStatements, EnsureStatements,
         RunReviewer, RunQualityGate, unchangedByWork
<1>3. (pc["worker"] # "off") <=> (pc'["worker"] # "off")
  <2>1. pc \in [Actors -> Points] /\ "worker" \in Actors /\ a \in {"worker", "manual"}
    BY DEF LifeInv, TypeOK, Actors
  <2>2. pc[a] # "off"
    BY DEF ServiceStep, LockAnalysis, RunAnalyst, SaveClaims, RunCitation,
         LockReporting, WriteReport, SaveStatements, EnsureStatements,
         RunReviewer, RunQualityGate
  <2>3. \/ pc' = pc
        \/ \E p \in Points : pc' = [pc EXCEPT ![a] = p] /\ (a = "worker" => p # "off")
    BY <2>1 DEF ServiceStep, LockAnalysis, RunAnalyst, SaveClaims, RunCitation,
         LockReporting, WriteReport, SaveStatements, EnsureStatements,
         RunReviewer, RunQualityGate, Goto, Returns, Raises, Points
  <2> QED BY <2>1, <2>2, <2>3
<1>4. InsideStage'
  <2>1. pc \in [Actors -> Points] /\ "worker" \in Actors
        /\ a \in {"worker", "manual"}
    BY DEF LifeInv, TypeOK, Actors
  <2>2. pc[a] \in WorkPoints /\ UNCHANGED <<at, hop>>
    BY DEF ServiceStep, LockAnalysis, RunAnalyst, SaveClaims, RunCitation,
         LockReporting, WriteReport, SaveStatements, EnsureStatements,
         RunReviewer, RunQualityGate, WorkPoints, unchangedByWork
  <2>3. \/ pc' = pc
        \/ \E p \in WorkPoints \cup {"handoff", "except", "off"} :
              pc' = [pc EXCEPT ![a] = p] /\ (a = "worker" => p # "off")
    BY <2>1 DEF ServiceStep, LockAnalysis, RunAnalyst, SaveClaims, RunCitation,
         LockReporting, WriteReport, SaveStatements, EnsureStatements,
         RunReviewer, RunQualityGate, Goto, Returns, Raises, WorkPoints
  <2>4. at \in Stages => Len(StageHandoffs[at]) > 0
    BY DEF StageHandoffs, Stages
  <2>5. CASE pc'["worker"] = pc["worker"]
    BY <2>2, <2>5 DEF LifeInv, InsideStage
  <2>6. CASE a = "worker" /\ pc'["worker"] \in WorkPoints \cup {"handoff", "except"}
    <3>1. at \in Stages /\ hop = 0
      BY <2>2, <2>6 DEF LifeInv, InsideStage, OutsideStage, WorkPoints
    <3> QED BY <2>2, <2>4, <2>6, <3>1 DEF InsideStage, OutsideStage, WorkPoints
  <2> QED BY <2>1, <2>3, <2>5, <2>6
<1> QED BY <1>1, <1>2, <1>3, <1>4 DEF LifeInv, Coupling

(* A save of the worker that goes on, or that ends it. *)
LEMMA WorkerSaves ==
    ASSUME LifeInv, WorkerAt("off") => FALSE,
           NEW new \in Run, NEW p \in Points,
           run' = Saved(run, new), local' = run', Goto("worker", p),
           \/ future' = future /\ new.status \in Active /\ p # "off"
           \/ future' = "done" /\ new.status \in Terminal /\ p = "off"
    PROVE  /\ run' \in Run /\ local' \in Run /\ future' \in Futures
           /\ pc' \in [Actors -> Points]
           /\ pc'["worker"] = p /\ pc'["manual"] = pc["manual"]
           /\ Coupling'
<1>1. /\ run \in Run /\ pc \in [Actors -> Points]
      /\ "worker" \in Actors /\ "manual" \in Actors
      /\ future = "running" /\ future \in Futures
  BY DEF LifeInv, TypeOK, Coupling, WorkerAt, Actors
<1>2. /\ run' \in Run
      /\ new.status \in Terminal => run'.status \in Terminal
      /\ new.status \in Active => run'.status \in Active
  BY <1>1, SavedFacts
<1>3. /\ pc' \in [Actors -> Points]
      /\ pc'["worker"] = p /\ pc'["manual"] = pc["manual"]
  BY <1>1 DEF Goto, Actors
<1> QED BY <1>1, <1>2, <1>3 DEF Coupling, Futures, Active, Terminal

(* A step of the worker that only loads the run, or nothing. *)
LEMMA WorkerMoves ==
    ASSUME LifeInv, WorkerAt("off") => FALSE,
           NEW p \in Points, p # "off", Goto("worker", p),
           run' = run, future' = future, local' \in {local, run}
    PROVE  /\ local' \in Run
           /\ pc' \in [Actors -> Points]
           /\ pc'["worker"] = p /\ pc'["manual"] = pc["manual"]
           /\ Coupling'
<1>1. /\ run \in Run /\ local \in Run /\ pc \in [Actors -> Points]
      /\ "worker" \in Actors /\ "manual" \in Actors
  BY DEF LifeInv, TypeOK, Actors
<1>2. /\ pc' \in [Actors -> Points]
      /\ pc'["worker"] = p /\ pc'["manual"] = pc["manual"]
  BY <1>1 DEF Goto, Actors
<1> QED BY <1>1, <1>2 DEF LifeInv, Coupling, WorkerAt

(* The conjuncts that depend on where the worker goes. *)
LEMMA WorkerArrives ==
    ASSUME LifeInv, pc'["manual"] = pc["manual"], UNCHANGED tries,
           pc'["worker"] # "write", InsideStage'
    PROVE  WriterBound' /\ InsideStage'
BY DEF LifeInv, WriterBound, Actors

(* The stages, in order. *)
LEMMA StageFacts ==
    ASSUME NEW s \in Stages
    PROVE  /\ NextStage[s] \in Stages \cup {"end"}
           /\ s = "researching" => NextStage[s] \in Stages
           /\ StageWork[s] \in WorkPoints /\ StageWork[s] \in Points
           /\ StageWork[s] \notin {"off", "write"}
           /\ Len(StageHandoffs[s]) \in 1..2
           /\ s \in LateHandoff => Len(StageHandoffs[s]) = 1
           /\ \A i \in 1..Len(StageHandoffs[s]) :
                 StageHandoffs[s][i] \in HandoffKeys
<1>1. CASE s = "planning"
  BY <1>1 DEF NextStage, StageWork, StageHandoffs, HandoffKeys, WorkPoints,
              Points, Stages, LateHandoff
<1>2. CASE s = "researching"
  BY <1>2 DEF NextStage, StageWork, StageHandoffs, HandoffKeys, WorkPoints,
              Points, Stages, LateHandoff
<1>3. CASE s = "analyzing"
  BY <1>3 DEF NextStage, StageWork, StageHandoffs, HandoffKeys, WorkPoints,
              Points, Stages, LateHandoff
<1>4. CASE s = "reporting"
  BY <1>4 DEF NextStage, StageWork, StageHandoffs, HandoffKeys, WorkPoints,
              Points, Stages, LateHandoff
<1> QED BY <1>1, <1>2, <1>3, <1>4 DEF Stages

(* The saves of the worker keep the invariant: each names the copy that is *)
(* saved and says why it is a run that goes on or that has ended.          *)
LEMMA SaveLife ==
    ASSUME LifeInv,
           \/ SaveRunning \/ FinishStopped \/ BeginStage \/ ResumeStage
           \/ CompleteStage \/ MarkCheckpoint \/ Settle \/ SaveFailed
    PROVE  LifeInv'
<1> USE DEF InsideStage, OutsideStage, WorkPoints
<1>0. /\ run \in Run /\ local \in Run /\ pc \in [Actors -> Points]
      /\ "worker" \in Actors /\ local.status \in Active
      /\ local \in Run /\ ~WorkerAt("off")
      /\ pc["worker"] \notin OutsideStage => at \in Stages
  BY DEF LifeInv, TypeOK, Coupling, WorkerAt, Actors,
         SaveRunning, FinishStopped, BeginStage, ResumeStage, CompleteStage,
         MarkCheckpoint, Settle, SaveFailed
<1>1. CASE SaveRunning
  <2> DEFINE new == [local EXCEPT !.status = "running"]
  <2>1. new \in Run /\ new.status \in Active
    BY <1>0 DEF Run, Active
  <2>2. /\ run' \in Run /\ local' \in Run /\ future' \in Futures
        /\ pc' \in [Actors -> Points] /\ pc'["worker"] = "check"
        /\ pc'["manual"] = pc["manual"] /\ Coupling'
    BY <1>0, <1>1, <2>1, WorkerSaves DEF SaveRunning, Points
  <2>3. InsideStage' /\ WriterBound'
    BY <1>1, <2>2, WorkerArrives DEF SaveRunning, Stages
  <2> QED
    BY <1>1, <2>2, <2>3 DEF SaveRunning, LifeInv, TypeOK, storeVars, countVars,
       researchVars, ResearchTypeOK, Stages
<1>2. CASE FinishStopped
  <2>1. Stopped(local) \in Run /\ Stopped(local).status \in Terminal
    BY <1>0 DEF Stopped, Run, Active, Terminal
  <2>2. /\ run' \in Run /\ local' \in Run /\ future' \in Futures
        /\ pc' \in [Actors -> Points] /\ pc'["worker"] = "off"
        /\ pc'["manual"] = pc["manual"] /\ Coupling'
    BY <1>0, <1>2, <2>1, WorkerSaves DEF FinishStopped, Points
  <2>3. InsideStage' /\ WriterBound'
    BY <1>2, <2>2, WorkerArrives DEF FinishStopped
  <2> QED
    BY <1>2, <2>2, <2>3 DEF FinishStopped, LifeInv, TypeOK, storeVars,
       countVars, researchVars, ResearchTypeOK
<1>3. CASE BeginStage
  <2> DEFINE new == [local EXCEPT
                !.status = IF local.stop THEN "stopping" ELSE "running",
                !.stage  = at]
  <2>0. at \in Stages
    BY <1>0, <1>3 DEF BeginStage, WorkerAt
  <2>1. new \in Run /\ new.status \in Active
    BY <1>0, <2>0 DEF Run, Active
  <2>2. /\ run' \in Run /\ local' \in Run /\ future' \in Futures
        /\ pc' \in [Actors -> Points] /\ pc'["worker"] = StageWork[at]
        /\ pc'["manual"] = pc["manual"] /\ Coupling'
    <3>1. run' = Saved(run, new) /\ local' = run' /\ future' = future
          /\ Goto("worker", StageWork[at])
      BY <1>3 DEF BeginStage
    <3> HIDE DEF new
    <3> QED BY <1>0, <2>0, <2>1, <3>1, StageFacts, WorkerSaves
  <2>3. InsideStage' /\ WriterBound'
    BY <1>3, <2>0, <2>2, StageFacts, WorkerArrives DEF BeginStage
  <2>4. begun' \in Nat
    BY <1>3 DEF BeginStage, LifeInv, TypeOK
  <2> QED
    BY <1>3, <2>2, <2>3, <2>4 DEF BeginStage, LifeInv, TypeOK, storeVars,
       countVars, researchVars, ResearchTypeOK
<1>4. CASE ResumeStage
  <2> DEFINE new == [local EXCEPT !.stage = at]
             p == IF at = "researching" THEN "enter" ELSE "check"
  <2>0. at \in Stages
    BY <1>0, <1>4 DEF ResumeStage, WorkerAt
  <2>1. new \in Run /\ new.status \in Active
    BY <1>0, <2>0 DEF Run, Active
  <2>2. /\ run' \in Run /\ local' \in Run /\ future' \in Futures
        /\ pc' \in [Actors -> Points] /\ pc'["worker"] = p
        /\ pc'["manual"] = pc["manual"] /\ Coupling'
    <3>1. run' = Saved(run, new) /\ local' = run' /\ future' = future
          /\ Goto("worker", p)
      BY <1>4 DEF ResumeStage, Proceed
    <3>2. p \in Points /\ p # "off"
      BY DEF Points
    <3> HIDE DEF new, p
    <3> QED BY <1>0, <2>1, <3>1, <3>2, WorkerSaves
  <2>3. InsideStage' /\ WriterBound' /\ at' \in Stages \cup {"end"}
    BY <1>4, <2>0, <2>2, StageFacts, WorkerArrives DEF ResumeStage, Proceed
  <2> QED
    BY <1>4, <2>2, <2>3 DEF ResumeStage, LifeInv, TypeOK, storeVars,
       countVars, researchVars, ResearchTypeOK
<1>5. CASE CompleteStage
  <2> DEFINE new == [local EXCEPT !.done = @ \cup {at}]
  <2>0. at \in Stages
    BY <1>0, <1>5 DEF CompleteStage, WorkerAt
  <2>1. new \in Run /\ new.status \in Active
    BY <1>0, <2>0 DEF Run, Active
  <2>2. /\ run' \in Run /\ local' \in Run /\ future' \in Futures
        /\ pc' \in [Actors -> Points] /\ pc'["worker"] = "checkpoint"
        /\ pc'["manual"] = pc["manual"] /\ Coupling'
    <3>1. run' = Saved(run, new) /\ local' = run' /\ future' = future
          /\ Goto("worker", "checkpoint") /\ "checkpoint" \in Points
      BY <1>5 DEF CompleteStage, Points
    <3> HIDE DEF new
    <3> QED BY <1>0, <2>1, <3>1, WorkerSaves
  <2>3. InsideStage' /\ WriterBound'
    BY <1>5, <2>0, <2>2, WorkerArrives DEF CompleteStage, LifeInv, WorkerAt
  <2> QED
    BY <1>5, <2>2, <2>3 DEF CompleteStage, LifeInv, TypeOK, storeVars,
       countVars, researchVars, ResearchTypeOK
<1>6. CASE MarkCheckpoint
  <2> DEFINE new == [local EXCEPT !.marked = Len(checkpoints)]
             p == IF at \in LateHandoff THEN "handoff"
                  ELSE IF at = "researching" THEN "enter" ELSE "check"
  <2>0. at \in Stages
    BY <1>0, <1>6 DEF MarkCheckpoint, WorkerAt
  <2>1. new \in Run /\ new.status \in Active
    <3>1. Len(checkpoints) \in Nat
      BY DEF LifeInv, TypeOK
    <3> QED BY <1>0, <3>1 DEF Run, Active
  <2>2. /\ run' \in Run /\ local' \in Run /\ future' \in Futures
        /\ pc' \in [Actors -> Points] /\ pc'["worker"] = p
        /\ pc'["manual"] = pc["manual"] /\ Coupling'
    <3>1. run' = Saved(run, new) /\ local' = run' /\ future' = future
          /\ Goto("worker", p)
      BY <1>6 DEF MarkCheckpoint, Proceed, LateHandoff
    <3>2. p \in Points /\ p # "off"
      BY DEF Points
    <3> HIDE DEF new, p
    <3> QED BY <1>0, <2>1, <3>1, <3>2, WorkerSaves
  <2>3. at' \in Stages \cup {"end"} /\ (at \in LateHandoff => at' = at)
    BY <1>6, <2>0, StageFacts DEF MarkCheckpoint, Proceed, LateHandoff
  <2>4. InsideStage' /\ WriterBound'
    <3>1. CASE at \in LateHandoff
      BY <1>6, <2>0, <2>2, <2>3, <3>1, StageFacts, WorkerArrives
      DEF MarkCheckpoint, LifeInv, WorkerAt
    <3>2. CASE at \notin LateHandoff
      BY <1>6, <2>0, <2>2, <2>3, <3>2, WorkerArrives
      DEF MarkCheckpoint, LateHandoff
    <3> QED BY <3>1, <3>2
  <2> QED
    BY <1>6, <2>2, <2>3, <2>4 DEF MarkCheckpoint, LifeInv, TypeOK, storeVars,
       countVars, researchVars, ResearchTypeOK
<1>7. CASE Settle
  <2> DEFINE new == [local EXCEPT !.status = "completed",
                                  !.stage = "completed"]
  <2>1. new \in Run /\ new.status \in Terminal
    BY <1>0 DEF Run, Terminal
  <2>2. /\ run' \in Run /\ local' \in Run /\ future' \in Futures
        /\ pc' \in [Actors -> Points] /\ pc'["worker"] = "off"
        /\ pc'["manual"] = pc["manual"] /\ Coupling'
    BY <1>0, <1>7, <2>1, WorkerSaves DEF Settle, Points
  <2>3. InsideStage' /\ WriterBound'
    BY <1>7, <2>2, WorkerArrives DEF Settle
  <2> QED
    BY <1>7, <2>2, <2>3 DEF Settle, LifeInv, TypeOK, storeVars,
       countVars, researchVars, ResearchTypeOK
<1>8. CASE SaveFailed
  <2> DEFINE new == [local EXCEPT !.status = "failed"]
  <2>1. new \in Run /\ new.status \in Terminal
    BY <1>0 DEF Run, Terminal
  <2>2. /\ run' \in Run /\ local' \in Run /\ future' \in Futures
        /\ pc' \in [Actors -> Points] /\ pc'["worker"] = "off"
        /\ pc'["manual"] = pc["manual"] /\ Coupling'
    BY <1>0, <1>8, <2>1, WorkerSaves DEF SaveFailed, Points
  <2>3. InsideStage' /\ WriterBound'
    BY <1>8, <2>2, WorkerArrives DEF SaveFailed
  <2> QED
    BY <1>8, <2>2, <2>3 DEF SaveFailed, LifeInv, TypeOK, storeVars,
       countVars, researchVars, ResearchTypeOK
<1> QED BY <1>1, <1>2, <1>3, <1>4, <1>5, <1>6, <1>7, <1>8

(* The steps of the worker that save no run. *)
LEMMA MoveLife ==
    ASSUME LifeInv,
           \/ WorkerStarts \/ CheckBeforeStage \/ CheckBeforeEnd \/ EnterStage
           \/ AppendCheckpoint \/ Handoff \/ Except \/ BuildPlan \/ SaveBoard
           \/ ReconcileResearch \/ SubmitResearch \/ PollRun \/ PollResearch
           \/ RecheckStop \/ AskAnalysis \/ AskReporting
    PROVE  LifeInv'
<1> USE DEF InsideStage, OutsideStage, WorkPoints
<1>0. /\ run \in Run /\ local \in Run /\ pc \in [Actors -> Points]
      /\ "worker" \in Actors /\ "manual" \in Actors
      /\ pc["worker"] \notin OutsideStage => at \in Stages
      /\ \A s \in Stages : Len(StageHandoffs[s]) \in 1..2
  BY StageFacts DEF LifeInv, TypeOK, Actors
<1>1. CASE WorkerStarts
  <2>1. /\ pc' \in [Actors -> Points] /\ pc'["worker"] = "start"
        /\ pc'["manual"] = pc["manual"] /\ local' \in Run /\ future' \in Futures
    BY <1>0, <1>1 DEF WorkerStarts, Goto, Points, Futures, Actors
  <2>2. Coupling'
    BY <1>1, <2>1 DEF WorkerStarts, LifeInv, Coupling
  <2>3. InsideStage' /\ WriterBound'
    BY <1>1, <2>1, WorkerArrives DEF WorkerStarts
  <2> QED
    BY <1>1, <2>1, <2>2, <2>3 DEF WorkerStarts, LifeInv, TypeOK, storeVars,
       countVars, researchVars, ResearchTypeOK
<1>2. CASE CheckBeforeStage \/ CheckBeforeEnd
  <2>1. PICK p \in {"stop", "enter", "settle"} :
          /\ Goto("worker", p) /\ (p = "enter" => at # "end")
          /\ local' \in {local, run} /\ WorkerAt("check")
    BY <1>2 DEF CheckBeforeStage, CheckBeforeEnd, StopCheck
  <2>2. UNCHANGED <<run, storeVars, future, at, hop, tries, begun, countVars,
                    researchVars>>
    BY <1>2 DEF CheckBeforeStage, CheckBeforeEnd, StopCheck
  <2>3. /\ pc' \in [Actors -> Points] /\ pc'["worker"] = p
        /\ pc'["manual"] = pc["manual"] /\ local' \in Run /\ Coupling'
    BY <1>0, <2>1, <2>2, WorkerMoves DEF Points, WorkerAt
  <2>4. InsideStage' /\ WriterBound'
    BY <1>0, <2>1, <2>2, <2>3, WorkerArrives DEF LifeInv, TypeOK
  <2> QED
    BY <2>2, <2>3, <2>4 DEF LifeInv, TypeOK, storeVars, countVars,
       researchVars, ResearchTypeOK
<1>3. CASE EnterStage
  <2>1. PICK p \in {"resume", "begin"} : Goto("worker", p)
    BY <1>3 DEF EnterStage
  <2>2. /\ pc' \in [Actors -> Points] /\ pc'["worker"] = p
        /\ pc'["manual"] = pc["manual"] /\ local' \in Run /\ Coupling'
    BY <1>0, <1>3, <2>1, WorkerMoves DEF EnterStage, Points, WorkerAt
  <2>3. InsideStage' /\ WriterBound'
    BY <1>0, <1>3, <2>2, WorkerArrives DEF EnterStage, WorkerAt
  <2> QED
    BY <1>3, <2>2, <2>3 DEF EnterStage, LifeInv, TypeOK, storeVars, countVars,
       researchVars, ResearchTypeOK
<1>4. CASE AppendCheckpoint
  <2>1. /\ pc' \in [Actors -> Points] /\ pc'["worker"] = "mark"
        /\ pc'["manual"] = pc["manual"] /\ local' \in Run /\ Coupling'
    BY <1>0, <1>4, WorkerMoves DEF AppendCheckpoint, Points, WorkerAt
  <2>2. checkpoints' \in Seq([stage : Stages, done : SUBSET Stages])
    <3>1. [stage |-> at, done |-> local.done] \in [stage : Stages, done : SUBSET Stages]
      BY <1>0, <1>4 DEF AppendCheckpoint, WorkerAt, Run
    <3>2. checkpoints \in Seq([stage : Stages, done : SUBSET Stages])
      BY DEF LifeInv, TypeOK
    <3> QED BY <1>4, <3>1, <3>2 DEF AppendCheckpoint
  <2>3. InsideStage' /\ WriterBound'
    BY <1>0, <1>4, <2>1, WorkerArrives DEF AppendCheckpoint, LifeInv, WorkerAt
  <2> QED
    BY <1>4, <2>1, <2>2, <2>3 DEF AppendCheckpoint, LifeInv, TypeOK, countVars,
       researchVars, ResearchTypeOK
<1>5. CASE Handoff
  <2> DEFINE last == hop + 1 = Len(StageHandoffs[at])
             late == at \in {"planning", "researching"}
  <2>0. at \in Stages /\ hop \in 0..2 /\ hop < Len(StageHandoffs[at])
        /\ WorkerAt("handoff")
    BY <1>0, <1>5 DEF Handoff, WorkerAt, LifeInv, TypeOK
  <2>1. /\ hop' = hop + 1 /\ hop' \in 0..2
        /\ hop + 1 \in 1..Len(StageHandoffs[at])
    BY <1>0, <1>5, <2>0 DEF Handoff
  <2>2. handoffs' \in Seq(HandoffKeys)
    <3>1. StageHandoffs[at][hop + 1] \in HandoffKeys
      BY <2>0, <2>1, StageFacts
    <3>2. handoffs \in Seq(HandoffKeys)
      BY DEF LifeInv, TypeOK
    <3>3. handoffs' \in {handoffs, Append(handoffs, StageHandoffs[at][hop + 1])}
      BY <1>5 DEF Handoff
    <3> QED BY <3>1, <3>2, <3>3
  <2>3. /\ at' \in Stages \cup {"end"}
        /\ UNCHANGED <<run, artifacts, checkpoints, future, tries, begun,
                       countVars, researchVars>>
        /\ local' \in {local, run}
    BY <1>5, <2>0, StageFacts DEF Handoff, Proceed
  <2>4. CASE ~last
    <3>1. pc' = pc /\ local' = local /\ at' = at
      BY <1>5, <2>4 DEF Handoff
    <3>2. hop' < Len(StageHandoffs[at])
      BY <1>0, <2>0, <2>1, <2>4
    <3> QED
      BY <2>0, <2>1, <2>2, <2>3, <3>1, <3>2 DEF LifeInv, TypeOK, WriterBound,
         Coupling, WorkerAt, countVars, researchVars, ResearchTypeOK
  <2>5. CASE last
    <3>1. PICK p \in {"enter", "check", "complete"} :
            /\ Goto("worker", p)
            /\ p = "enter" => at' \in Stages
            /\ p = "complete" => at' \in Stages \ LateHandoff
      BY <1>5, <2>0, <2>5, StageFacts DEF Handoff, Proceed, LateHandoff
    <3>2. /\ pc' \in [Actors -> Points] /\ pc'["worker"] = p
          /\ pc'["manual"] = pc["manual"] /\ local' \in Run /\ Coupling'
      BY <1>0, <2>0, <2>3, <3>1, WorkerMoves DEF Points, WorkerAt
    <3>3. InsideStage' /\ WriterBound'
      BY <2>3, <3>1, <3>2, WorkerArrives
    <3> QED
      BY <2>1, <2>2, <2>3, <3>2, <3>3 DEF LifeInv, TypeOK, countVars,
         researchVars, ResearchTypeOK
  <2> QED BY <2>4, <2>5
<1>6. CASE Except
  <2>1. PICK p \in {"stop", "fail"} : Goto("worker", p)
    BY <1>6 DEF Except
  <2>2. /\ pc' \in [Actors -> Points] /\ pc'["worker"] = p
        /\ pc'["manual"] = pc["manual"] /\ local' \in Run /\ Coupling'
    BY <1>0, <1>6, <2>1, WorkerMoves DEF Except, Points, WorkerAt
  <2>3. InsideStage' /\ WriterBound'
    BY <1>6, <2>2, WorkerArrives DEF Except
  <2> QED
    BY <1>6, <2>2, <2>3 DEF Except, LifeInv, TypeOK, storeVars, countVars,
       researchVars, ResearchTypeOK
<1>7. CASE BuildPlan \/ SaveBoard
  <2>1. /\ WorkerAt("plan") \/ WorkerAt("save_board")
        /\ local' \in {local, run} /\ artifacts' \subseteq Artifacts
        /\ UNCHANGED <<run, handoffs, checkpoints, future, at, hop, tries,
                       begun, countVars>>
    BY <1>7 DEF BuildPlan, SaveBoard, Saves, Artifacts, LifeInv, TypeOK
  <2>2. PICK p \in {"complete", "save_board", "except"} : Goto("worker", p)
    BY <1>7 DEF BuildPlan, SaveBoard
  <2>3. /\ pc' \in [Actors -> Points] /\ pc'["worker"] = p
        /\ pc'["manual"] = pc["manual"] /\ local' \in Run /\ Coupling'
    BY <1>0, <2>1, <2>2, WorkerMoves DEF Points, WorkerAt
  <2>4. InsideStage' /\ WriterBound'
    BY <1>0, <2>1, <2>3, WorkerArrives DEF WorkerAt, LifeInv
  <2>5. ResearchTypeOK'
    BY <1>7, ResearchTypes DEF BuildPlan, SaveBoard, LifeInv, TypeOK
  <2> QED BY <2>1, <2>3, <2>4, <2>5 DEF LifeInv, TypeOK, countVars
<1>8. CASE \/ ReconcileResearch \/ SubmitResearch \/ PollRun \/ PollResearch
           \/ RecheckStop \/ AskAnalysis \/ AskReporting
  <2> USE DEF ReconcileResearch, SubmitResearch, PollRun, PollResearch,
              RecheckStop, AskAnalysis, AskReporting
  <2>1. /\ pc["worker"] \in WorkPoints /\ local' \in {local, run}
        /\ UNCHANGED <<run, storeVars, future, at, hop, tries, begun, countVars>>
    BY <1>8 DEF WorkerAt, unchangedByWork, storeVars, countVars
  <2>2. PICK p \in {"poll", "submit", "except", "status", "recheck", "stop",
                    "complete", "handoff", "call_analysis", "call_reporting"} :
            Goto("worker", p)
    BY <1>8 DEF Returns
  <2>3. /\ pc' \in [Actors -> Points] /\ pc'["worker"] = p
        /\ pc'["manual"] = pc["manual"] /\ local' \in Run /\ Coupling'
    BY <1>0, <2>1, <2>2, WorkerMoves DEF Points, WorkerAt
  <2>4. InsideStage' /\ WriterBound'
    <3>1. at \in Stages /\ hop = 0 /\ UNCHANGED <<at, hop, tries>>
      BY <1>0, <2>1 DEF LifeInv
    <3>2. hop < Len(StageHandoffs[at])
      <4>1. Len(StageHandoffs[at]) \in 1..2
        BY <3>1, StageFacts
      <4> QED BY <3>1, <4>1
    <3>3. InsideStage'
      BY <2>3, <3>1, <3>2
    <3> QED BY <2>3, <3>1, <3>3, WorkerArrives
  <2>5. ResearchTypeOK'
    BY <1>8, ResearchTypes DEF LifeInv, TypeOK, unchangedByWork
  <2> QED BY <2>1, <2>3, <2>4, <2>5 DEF LifeInv, TypeOK, storeVars, countVars
<1> QED BY <1>1, <1>2, <1>3, <1>4, <1>5, <1>6, <1>7, <1>8

-----------------------------------------------------------------------------
(* The API threads, the coordinator and the restarts. *)

(* submit, when it queues the run: the first one, or an explicit resume of *)
(* a run that has ended and is not completed.                              *)
LEMMA SubmitFacts ==
    ASSUME LifeInv, Submit
    PROVE  /\ run' \in Run /\ run'.status = "queued" /\ future' = "queued"
           /\ pc["worker"] = "off" /\ run.status # "completed"
           /\ run'.done = run.done
           /\ run.stop => /\ Reconciled(run).status \in Terminal
                          /\ run'.resumes = run.resumes + 1
<1> DEFINE latest == Reconciled(run)
<1>1. run \in Run /\ latest \in Run /\ Resumed(latest) \in Run
  BY CopyTypes DEF LifeInv, TypeOK
<1>2. latest.done = run.done /\ latest.resumes = run.resumes
      /\ (run.status \notin Active => latest = run)
  <2>1. /\ Stopped(run) \in Run /\ Interrupted(run) \in Run
        /\ Stopped(run).done = run.done /\ Interrupted(run).done = run.done
        /\ Stopped(run).resumes = run.resumes
        /\ Interrupted(run).resumes = run.resumes
    BY <1>1, CopyTypes DEF Stopped, Interrupted, Run
  <2> QED BY <1>1, <2>1, SavedFacts DEF Reconciled, IsActive
<1>3. latest.status \notin Active /\ latest.status # "completed"
  BY DEF Submit, IsActive
<1>4. pc["worker"] = "off" /\ run.status # "completed"
  <2>1. run.status \in Active => WorkerGone
    BY <1>3 DEF Reconciled, IsActive
  <2>2. future # "running"
    BY <1>2, <1>3, <2>1 DEF LifeInv, Coupling, WorkerGone
  <2> QED BY <1>2, <1>3, <2>2 DEF LifeInv, Coupling, Active
<1>5. CASE latest.status = "none"
  <2>1. run.status = "none" /\ run' = [NoRun EXCEPT !.status = "queued"]
    <3>1. run.status \in Active => latest.status \in Terminal
      <4>1. /\ Stopped(run) \in Run /\ Stopped(run).status \in Terminal
            /\ Interrupted(run) \in Run /\ Interrupted(run).status \in Terminal
        BY <1>1, CopyTypes DEF Stopped, Interrupted, Run, Terminal
      <4> QED BY <1>1, <1>3, <4>1, SavedFacts DEF Reconciled, IsActive
    <3> QED BY <1>2, <1>5, <3>1 DEF Submit, Terminal
  <2>2. run' \in Run /\ run'.status = "queued" /\ run'.done = {}
    BY <2>1 DEF NoRun, Run, Active
  <2>3. run.done = {} /\ ~run.stop
    BY <2>1 DEF LifeInv, Coupling, NoRun
  <2> QED BY <1>4, <2>2, <2>3 DEF Submit
<1>6. CASE latest.status # "none"
  <2>1. latest.status \in Terminal
    BY <1>1, <1>3, <1>6 DEF Run
  <2>2. /\ Resumed(latest).status = "queued" /\ Resumed(latest).done = latest.done
        /\ Resumed(latest).resumes = latest.resumes + 1
        /\ Resumed(latest).resumes > latest.resumes
    BY <1>1 DEF Resumed, Run
  <2>3. run' = Resumed(latest)
    BY <1>6, <2>1, <2>2 DEF Submit, Saved, ExplicitResume
  <2> QED BY <1>1, <1>2, <1>4, <2>1, <2>2, <2>3 DEF Submit
<1> QED BY <1>5, <1>6

(* reconcile_interrupted closes the run. *)
LEMMA ReconciledFacts ==
    ASSUME NEW r \in Run, r.status \in Active, WorkerGone
    PROVE  /\ Reconciled(r) \in Run /\ Reconciled(r).status \in Terminal
           /\ Reconciled(r).status # "completed"
           /\ Reconciled(r).done = r.done
           /\ r.stop => Reconciled(r).stop
           /\ Reconciled(r).status = "interrupted" => ~Reconciled(r).stop
<1>1. /\ Stopped(r) \in Run /\ Interrupted(r) \in Run
      /\ Stopped(r).status = "stopped" /\ Interrupted(r).status = "interrupted"
      /\ Stopped(r).done = r.done /\ Interrupted(r).done = r.done
      /\ Stopped(r).stop /\ Interrupted(r).stop = r.stop
  BY CopyTypes DEF Stopped, Interrupted, Run
<1>2. CASE r.stop \/ r.status = "stopping"
  BY <1>1, <1>2, CopyTypes, SavedFacts DEF Reconciled, IsActive, Terminal
<1>3. CASE ~(r.stop \/ r.status = "stopping")
  <2>1. Reconciled(r) = Interrupted(r)
    BY <1>1, <1>3, SavedFacts DEF Reconciled, IsActive
  <2> QED BY <1>1, <1>3, <2>1 DEF Terminal
<1> QED BY <1>2, <1>3

LEMMA StopFacts ==
    ASSUME LifeInv, RequestStop
    PROVE  /\ run' \in Run /\ run'.stop
           /\ run'.status \notin {"interrupted", "completed"}
           /\ run'.done = run.done /\ run'.resumes = run.resumes
           /\ run.status \in Active /\ future' \in Futures
           /\ \/ future = "running" /\ future' = future
                /\ run'.status \in Active
              \/ future # "running" /\ future' \in {"none", "done"}
                /\ run'.status \in Terminal
<1> DEFINE stopping == Saved(run, Stopping(run))
<1>1. /\ run \in Run /\ Stopping(run) \in Run /\ Stopping(run).stop
      /\ Stopping(run).status = "stopping" /\ Stopping(run).done = run.done
      /\ Stopping(run).resumes = run.resumes
  BY CopyTypes DEF LifeInv, TypeOK, Stopping, Run
<1>2. stopping = Stopping(run)
  BY <1>1, SavedFacts
<1>3. /\ Stopped(stopping) \in Run /\ Stopped(stopping).stop
      /\ Stopped(stopping).status = "stopped"
      /\ Stopped(stopping).done = run.done
      /\ Stopped(stopping).resumes = run.resumes
  <2> HIDE DEF stopping
  <2>1. stopping \in Run /\ stopping.done = run.done /\ stopping.resumes = run.resumes
    BY <1>1, <1>2
  <2> QED BY <2>1, CopyTypes DEF Stopped, Run
<1>4. Saved(stopping, Stopped(stopping)) = Stopped(stopping)
  BY <1>1, <1>2, <1>3, SavedFacts
<1>5. future \in Futures /\ future # "done" /\ run.status \in Active
  BY DEF RequestStop, IsActive, LifeInv, TypeOK, Coupling, Active, Terminal
<1>6. CASE future \in {"none", "queued"}
  BY <1>3, <1>4, <1>5, <1>6 DEF RequestStop, Terminal, Futures
<1>7. CASE future = "running"
  BY <1>1, <1>2, <1>5, <1>7 DEF RequestStop, Active
<1> QED BY <1>5, <1>6, <1>7 DEF Futures

LEMMA RecoveredFacts ==
    ASSUME LifeInv, ReconcileCompleted
    PROVE  /\ run' \in Run /\ run'.status = "completed"
           /\ run'.done = Stages /\ (run.stop => run'.stop)
           /\ checkpoints' \in Seq([stage : Stages, done : SUBSET Stages])
<1> DEFINE new == [run EXCEPT !.status = "completed", !.stage = "completed",
                              !.done = Stages]
           recovered == Saved(run, new)
           marked == [recovered EXCEPT !.marked = Len(checkpoints) + 1]
<1>1. /\ run \in Run /\ new \in Run /\ new.status = "completed"
      /\ new.done = Stages /\ new.stop = run.stop
  BY DEF LifeInv, TypeOK, Run, Terminal
<1>2. recovered = new
  <2> HIDE DEF new
  <2> QED BY <1>1, SavedFacts
<1>3. Len(checkpoints) + 1 \in Nat
  BY DEF LifeInv, TypeOK
<1>4. /\ marked \in Run /\ marked.status = "completed" /\ marked.done = Stages
      /\ marked.stop = recovered.stop
  BY <1>1, <1>2, <1>3 DEF Run
<1>5. run' = Saved(recovered, marked)
  BY DEF ReconcileCompleted
<1>6. run' = marked
  <2> HIDE DEF new, marked
  <2> QED BY <1>1, <1>2, <1>4, <1>5, SavedFacts
<1>7. checkpoints' \in Seq([stage : Stages, done : SUBSET Stages])
  <2>1. [stage |-> "reporting", done |-> recovered.done]
          \in [stage : Stages, done : SUBSET Stages]
    BY <1>1, <1>2 DEF Stages
  <2>2. checkpoints' = Append(checkpoints,
                              [stage |-> "reporting", done |-> recovered.done])
    BY DEF ReconcileCompleted
  <2> HIDE DEF recovered
  <2> QED BY <2>1, <2>2 DEF LifeInv, TypeOK
<1> QED BY <1>1, <1>2, <1>4, <1>6, <1>7

LEMMA ApiLife ==
    ASSUME LifeInv, User \/ Status \/ Crash \/ Research \/ UNCHANGED vars
    PROVE  LifeInv'
<1> USE DEF LifeInv
<1>1. CASE Submit
  <2>1. Coupling'
    BY <1>1, SubmitFacts DEF Submit, Coupling, Active
  <2>2. WriterBound' /\ InsideStage'
    BY <1>1 DEF Submit, WriterBound, InsideStage
  <2> QED
    BY <1>1, <2>1, <2>2, SubmitFacts
    DEF Submit, TypeOK, storeVars, countVars, researchVars, ResearchTypeOK, Futures
<1>2. CASE RequestStop
  <2>1. Coupling'
    BY <1>2, StopFacts DEF RequestStop, Coupling, Active, Terminal
  <2>2. WriterBound' /\ InsideStage'
    BY <1>2 DEF RequestStop, WriterBound, InsideStage
  <2>3. ResearchTypeOK'
    BY <1>2, ResearchTypes DEF RequestStop, TypeOK
  <2> QED
    BY <1>2, <2>1, <2>2, <2>3, StopFacts DEF RequestStop, TypeOK, storeVars, countVars
<1>3. CASE ReconcileInterrupted
  <2>1. run' \in Run /\ run'.status \in Terminal
    BY <1>3, ReconciledFacts DEF ReconcileInterrupted, IsActive, TypeOK
  <2>2. Coupling'
    BY <1>3, <2>1 DEF ReconcileInterrupted, Coupling, WorkerGone, workerVars, Terminal
  <2>3. WriterBound' /\ InsideStage'
    BY <1>3 DEF ReconcileInterrupted, WriterBound, InsideStage, workerVars
  <2> QED
    BY <1>3, <2>1, <2>2, <2>3 DEF ReconcileInterrupted, TypeOK, storeVars,
       countVars, workerVars, researchVars, ResearchTypeOK
<1>4. CASE ReconcileCompleted
  <2>1. Coupling'
    BY <1>4, RecoveredFacts
    DEF ReconcileCompleted, Coupling, workerVars, Terminal, Active
  <2>2. WriterBound' /\ InsideStage'
    BY <1>4 DEF ReconcileCompleted, WriterBound, InsideStage, workerVars
  <2> QED
    BY <1>4, <2>1, <2>2, RecoveredFacts
    DEF ReconcileCompleted, TypeOK, countVars, workerVars, researchVars, ResearchTypeOK
<1>5. CASE \E service \in {"call_analysis", "call_reporting"} : ManualRequest(service)
  <2>1. PICK service \in {"call_analysis", "call_reporting"} : ManualRequest(service)
    BY <1>5
  <2>2. /\ pc' \in [Actors -> Points] /\ pc'["worker"] = pc["worker"]
        /\ pc'["manual"] = service
    BY <2>1 DEF ManualRequest, TypeOK, Actors, Points
  <2>3. Coupling' /\ WriterBound' /\ InsideStage'
    BY <2>1, <2>2 DEF ManualRequest, Coupling, WriterBound, InsideStage, Actors
  <2>4. manual' \in 0..MaxManual
    BY <2>1, BoundsAssumption DEF ManualRequest, TypeOK
  <2> QED
    BY <2>1, <2>2, <2>3, <2>4 DEF ManualRequest, TypeOK, storeVars,
       researchVars, ResearchTypeOK
<1>6. CASE DirectResearchRequest \/ Research
  <2>1. UNCHANGED <<run, storeVars, workerVars, begun, countVars>>
    BY <1>6 DEF DirectResearchRequest, Research
  <2>2. ResearchTypeOK'
    BY <1>6, ResearchTypes DEF DirectResearchRequest, Research, TypeOK
  <2>3. Coupling' /\ WriterBound' /\ InsideStage'
    BY <2>1 DEF workerVars, Coupling, WriterBound, InsideStage
  <2> QED BY <2>1, <2>2, <2>3 DEF TypeOK, storeVars, workerVars, countVars
<1>7. CASE Crash
  <2>1. /\ pc' = [a \in Actors |-> "off"] /\ future' = "none"
        /\ UNCHANGED <<run, storeVars, local, at, hop, tries, begun, paid, manual>>
    BY <1>7 DEF Crash
  <2>2. Coupling' /\ WriterBound' /\ InsideStage'
    BY <2>1 DEF Coupling, WriterBound, InsideStage, Actors, OutsideStage, WorkPoints
  <2>3. ResearchTypeOK' /\ crashes' \in 0..MaxCrashes
    BY <1>7, BoundsAssumption, ResearchTypes DEF Crash, TypeOK
  <2> QED BY <2>1, <2>2, <2>3 DEF TypeOK, storeVars, Futures, Points
<1>8. CASE UNCHANGED vars
  BY <1>8 DEF vars, Coupling, WriterBound, InsideStage, TypeOK, researchVars,
     ResearchTypeOK
<1> QED BY <1>1, <1>2, <1>3, <1>4, <1>5, <1>6, <1>7, <1>8 DEF User, Status

LEMMA LifeStep == LifeInv /\ [Next]_vars => LifeInv'
<1> SUFFICES ASSUME LifeInv, [Next]_vars PROVE LifeInv'
  OBVIOUS
<1>1. CASE Worker
  BY <1>1, SaveLife, MoveLife, ServiceLife DEF Worker, Actors
<1>2. CASE ServiceStep("manual")
  BY <1>2, ServiceLife DEF Actors
<1>3. CASE User \/ Status \/ Crash \/ Research \/ Rest \/ UNCHANGED vars
  BY <1>3, ApiLife DEF Rest
<1> QED BY <1>1, <1>2, <1>3 DEF Next

(* The invariant holds of every reachable state. *)
LEMMA LifeAlways == Spec => []LifeInv
BY LifeInit, LifeStep, PTL DEF Spec

(* Types, and with them the bound on the writer's attempts and on the      *)
(* handoffs of a stage.                                                    *)
THEOREM TypeCorrect == Spec => []TypeOK
<1>1. LifeInv => TypeOK
  BY DEF LifeInv
<1> QED BY <1>1, LifeAlways, PTL

(* No thread of the pool ends leaving its run active: what is active       *)
(* without a thread behind it was interrupted by a restart.                *)
THEOREM NoRunIsOrphaned == Spec => []NoOrphanedRun
<1>1. LifeInv => NoOrphanedRun
  BY DEF LifeInv, Coupling, NoOrphanedRun
<1> QED BY <1>1, LifeAlways, PTL

-----------------------------------------------------------------------------
(* What a step may do to the run. *)

(* The worker saves over an active run, loses no stage and no stop.        *)
LEMMA WorkerSaveKeeps ==
    ASSUME LifeInv,
           \/ SaveRunning \/ FinishStopped \/ BeginStage \/ ResumeStage
           \/ CompleteStage \/ MarkCheckpoint \/ Settle \/ SaveFailed
    PROVE  /\ run.status \in Active /\ run'.status # "interrupted"
           /\ run.stop => run'.stop
           /\ run.done \subseteq run'.done
<1>0. /\ run \in Run /\ local \in Run /\ local.done = run.done
      /\ run.status \in Active /\ local.status \in Active
      /\ pc["worker"] \notin OutsideStage => at \in Stages
      /\ Len(checkpoints) \in Nat
  BY DEF LifeInv, TypeOK, Coupling, InsideStage, WorkerAt, SaveRunning,
     FinishStopped, BeginStage, ResumeStage, CompleteStage, MarkCheckpoint,
     Settle, SaveFailed
<1>1. ASSUME NEW new \in Run, run' = Saved(run, new), run.done \subseteq new.done,
             new.status # "interrupted"
      PROVE  /\ run.status \in Active /\ run'.status # "interrupted"
             /\ run.stop => run'.stop
             /\ run.done \subseteq run'.done
  <2>1. ~ExplicitResume(run, new)
    BY <1>0 DEF ExplicitResume, Active, Terminal
  <2> QED BY <1>0, <1>1, <2>1, SavedFacts
<1>2. \E new \in Run : /\ run' = Saved(run, new) /\ run.done \subseteq new.done
                       /\ new.status # "interrupted"
  <2>1. CASE SaveRunning
    <3> DEFINE new == [local EXCEPT !.status = "running"]
    <3>1. new \in Run /\ new.done = local.done /\ new.status = "running"
      BY <1>0 DEF Run, Active
    <3> QED BY <1>0, <2>1, <3>1 DEF SaveRunning
  <2>2. CASE FinishStopped
    <3>1. /\ Stopped(local) \in Run /\ Stopped(local).done = local.done
          /\ Stopped(local).status = "stopped"
      BY <1>0, CopyTypes DEF Stopped, Run
    <3> QED BY <1>0, <2>2, <3>1 DEF FinishStopped
  <2>3. CASE BeginStage
    <3> DEFINE new == [local EXCEPT
                !.status = IF local.stop THEN "stopping" ELSE "running",
                !.stage  = at]
    <3>1. at \in Stages
      BY <1>0, <2>3 DEF BeginStage, WorkerAt, OutsideStage
    <3>2. new \in Run /\ new.done = local.done /\ new.status # "interrupted"
      BY <1>0, <3>1 DEF Run, Active
    <3> QED BY <1>0, <2>3, <3>2 DEF BeginStage
  <2>4. CASE ResumeStage
    <3> DEFINE new == [local EXCEPT !.stage = at]
    <3>1. at \in Stages
      BY <1>0, <2>4 DEF ResumeStage, WorkerAt, OutsideStage
    <3>2. new \in Run /\ new.done = local.done /\ new.status # "interrupted"
      BY <1>0, <3>1 DEF Run, Active
    <3> QED BY <1>0, <2>4, <3>2 DEF ResumeStage
  <2>5. CASE CompleteStage
    <3> DEFINE new == [local EXCEPT !.done = @ \cup {at}]
    <3>1. at \in Stages
      BY <1>0, <2>5 DEF CompleteStage, WorkerAt, OutsideStage
    <3>2. new \in Run /\ local.done \subseteq new.done
          /\ new.status # "interrupted"
      BY <1>0, <3>1 DEF Run, Active
    <3> QED BY <1>0, <2>5, <3>2 DEF CompleteStage
  <2>6. CASE MarkCheckpoint
    <3> DEFINE new == [local EXCEPT !.marked = Len(checkpoints)]
    <3>1. new \in Run /\ new.done = local.done /\ new.status # "interrupted"
      BY <1>0 DEF Run, Active
    <3> QED BY <1>0, <2>6, <3>1 DEF MarkCheckpoint
  <2>7. CASE Settle
    <3> DEFINE new == [local EXCEPT !.status = "completed",
                                    !.stage = "completed"]
    <3>1. new \in Run /\ new.done = local.done /\ new.status # "interrupted"
      BY <1>0 DEF Run, Terminal
    <3> QED BY <1>0, <2>7, <3>1 DEF Settle
  <2>8. CASE SaveFailed
    <3> DEFINE new == [local EXCEPT !.status = "failed"]
    <3>1. new \in Run /\ new.done = local.done /\ new.status # "interrupted"
      BY <1>0 DEF Run, Terminal
    <3> QED BY <1>0, <2>8, <3>1 DEF SaveFailed
  <2> QED BY <2>1, <2>2, <2>3, <2>4, <2>5, <2>6, <2>7, <2>8
<1> QED BY <1>1, <1>2

(* Every other step leaves the run alone, resumes it, asks it to stop,     *)
(* closes it after its thread is gone, or completes it from its artifacts. *)
LEMMA RunChanges ==
    ASSUME LifeInv, [Next]_vars
    PROVE  \/ run' = run
           \/ Submit
           \/ ReconcileCompleted
           \/ /\ run.status \in Active
              /\ run.stop => run'.stop
              /\ run.done \subseteq run'.done
              /\ run'.status = "interrupted" => ~run'.stop
<1>1. CASE \/ SaveRunning \/ FinishStopped \/ BeginStage \/ ResumeStage
           \/ CompleteStage \/ MarkCheckpoint \/ Settle \/ SaveFailed
  BY <1>1, WorkerSaveKeeps
<1>2. CASE \/ WorkerStarts \/ CheckBeforeStage \/ CheckBeforeEnd \/ EnterStage
           \/ AppendCheckpoint \/ Handoff \/ Except \/ BuildPlan \/ SaveBoard
           \/ ReconcileResearch \/ SubmitResearch \/ PollRun \/ PollResearch
           \/ RecheckStop \/ AskAnalysis \/ AskReporting
  <2>1. run' = run
    BY <1>2 DEF WorkerStarts, CheckBeforeStage, CheckBeforeEnd, StopCheck,
       EnterStage, AppendCheckpoint, Handoff, Except, BuildPlan, SaveBoard,
       ReconcileResearch, SubmitResearch, PollRun, PollResearch, RecheckStop,
       AskAnalysis, AskReporting, unchangedByWork
  <2> QED BY <2>1
<1>3. CASE \E a \in Actors : ServiceStep(a)
  BY <1>3 DEF ServiceStep, LockAnalysis, RunAnalyst, SaveClaims, RunCitation,
     LockReporting, WriteReport, SaveStatements, EnsureStatements,
     RunReviewer, RunQualityGate, unchangedByWork
<1>4. CASE RequestStop
  BY <1>4, StopFacts
<1>5. CASE ReconcileInterrupted
  BY <1>5, ReconciledFacts DEF ReconcileInterrupted, IsActive, LifeInv, TypeOK
<1>6. CASE \/ \E service \in {"call_analysis", "call_reporting"} :
                  ManualRequest(service)
           \/ DirectResearchRequest \/ Research \/ Crash \/ Rest
           \/ UNCHANGED vars
  BY <1>6 DEF ManualRequest, DirectResearchRequest, Research, Crash, Rest, vars
<1> QED
  BY <1>1, <1>2, <1>3, <1>4, <1>5, <1>6 DEF Next, Worker, User, Status, Actors

(* A requested stop is only withdrawn by an explicit resume: whatever copy *)
(* the worker holds when the request is saved, and however often it saves. *)
THEOREM StopIsNeverLost == Spec => StopIsSticky
<1>1. LifeInv /\ [Next]_vars
        => [run.stop /\ ~run'.stop
              => /\ Reconciled(run).status \in Terminal
                 /\ run'.status = "queued" /\ run'.resumes = run.resumes + 1]_vars
  BY RunChanges, SubmitFacts, RecoveredFacts
<1> QED BY <1>1, LifeAlways, PTL DEF Spec, StopIsSticky

(* No resume and no stale copy loses a completed stage. *)
THEOREM ProgressIsNeverLost == Spec => ProgressIsKept
<1>1. LifeInv /\ [Next]_vars => [run.done \subseteq run'.done]_vars
  <2>1. LifeInv => run.done \subseteq Stages
    BY DEF LifeInv, TypeOK, Run
  <2> QED BY <2>1, RunChanges, SubmitFacts, RecoveredFacts
<1> QED BY <1>1, LifeAlways, PTL DEF Spec, ProgressIsKept

(* A completed run stays completed. *)
THEOREM CompletionIsFinal == Spec => CompletedIsFinal
<1>1. LifeInv /\ [Next]_vars
        => [run.status = "completed" => run'.status = "completed"]_vars
  BY RunChanges, SubmitFacts, RecoveredFacts DEF Active
<1> QED BY <1>1, LifeAlways, PTL DEF Spec, CompletedIsFinal

(* A run that was asked to stop is never reported as interrupted. *)
THEOREM StopIsReported == Spec => []StopOutlivesRestart
<1>1. Init => StopOutlivesRestart
  BY DEF Init, NoRun, StopOutlivesRestart
<1>2. LifeInv /\ StopOutlivesRestart /\ [Next]_vars => StopOutlivesRestart'
  BY RunChanges, SubmitFacts, RecoveredFacts DEF StopOutlivesRestart
<1> QED BY <1>1, <1>2, LifeAlways, PTL DEF Spec

(* A run only moves forward: no step of the worker, of a request or of a   *)
(* restart loses a stop, a completed stage or a completion.                *)
THEOREM RunsOnlyMoveForward == Spec => RunsMoveForward
BY StopIsNeverLost, ProgressIsNeverLost, CompletionIsFinal DEF RunsMoveForward

-----------------------------------------------------------------------------
(* What the pipeline leaves on disk: one analysis, no report without       *)
(* checked citations, and the whole chain behind a completed run.          *)


(* The class lock lets one call into the analysis, which asked for the     *)
(* portfolio after it had the lock; a call that is writing was let in with *)
(* checked citations, and each step of reporting saves what it stands for. *)
Inside == InAnalysis \cup InReporting

AnalysisInv ==
    /\ \A a, b \in Actors : pc[a] \in InAnalysis /\ pc[b] \in InAnalysis => a = b
    /\ \A a \in Actors : pc[a] = "analyst" => "portfolio" \notin artifacts
    /\ "portfolio" \notin artifacts => paid = 0
    /\ paid \in 0..1

ReportingInv ==
    /\ \A a \in Actors : pc[a] \in InReporting => {"claims", "citations"} \subseteq artifacts
    /\ "report" \in artifacts => {"claims", "citations"} \subseteq artifacts
    /\ \A a \in Actors :
         /\ pc[a] \in {"save_statements", "statements", "review", "gate"}
              => "report" \in artifacts
         /\ pc[a] \in {"review", "gate"} => "statements" \in artifacts
         /\ pc[a] = "gate" => "review" \in artifacts

ServiceInv == AnalysisInv /\ ReportingInv

(* A step outside the services touches neither. *)
LEMMA ServiceFrame ==
    ASSUME ServiceInv, UNCHANGED paid,
           artifacts \subseteq artifacts',
           artifacts' \subseteq artifacts \cup {"plan", "board"},
           \A a \in Actors : pc'[a] = pc[a] \/ pc'[a] \notin Inside
    PROVE  ServiceInv'
<1>1. AnalysisInv'
  BY DEF ServiceInv, AnalysisInv, Inside, InAnalysis
<1>2. ReportingInv'
  BY DEF ServiceInv, ReportingInv, Inside, InReporting
<1> QED BY <1>1, <1>2 DEF ServiceInv

(* Where a step of the worker outside the services takes it. *)
LEMMA WorkerOutside ==
    ASSUME LifeInv, Worker, ~ServiceStep("worker")
    PROVE  /\ UNCHANGED paid /\ pc'["manual"] = pc["manual"]
           /\ pc'["worker"] = pc["worker"] \/ pc'["worker"] \notin Inside
           /\ artifacts \subseteq artifacts'
           /\ artifacts' \subseteq artifacts \cup {"plan", "board"}
<1> USE DEF Inside, InAnalysis, InReporting, Goto, WorkerAt
<1>0. /\ pc \in [Actors -> Points] /\ "worker" \in Actors /\ "manual" \in Actors
      /\ pc["worker"] \notin OutsideStage => at \in Stages
  BY DEF LifeInv, TypeOK, InsideStage, Actors
<1>1. CASE \/ WorkerStarts \/ SaveRunning \/ CheckBeforeStage \/ CheckBeforeEnd
           \/ FinishStopped \/ EnterStage \/ Settle \/ Except \/ SaveFailed
  BY <1>0, <1>1 DEF WorkerStarts, SaveRunning, CheckBeforeStage, CheckBeforeEnd,
     StopCheck, FinishStopped, EnterStage, Settle, Except, SaveFailed,
     storeVars, countVars
<1>2. CASE BeginStage
  <2>1. StageWork[at] \in {"plan", "reconcile", "analyze", "report"}
    BY <1>0, <1>2 DEF BeginStage, OutsideStage, Stages, StageWork
  <2> QED BY <1>0, <1>2, <2>1 DEF BeginStage, storeVars, countVars
<1>3. CASE ResumeStage \/ CompleteStage \/ AppendCheckpoint \/ MarkCheckpoint \/ Handoff
  BY <1>0, <1>3 DEF ResumeStage, CompleteStage, AppendCheckpoint,
     MarkCheckpoint, Handoff, Proceed, storeVars, countVars
<1>4. CASE BuildPlan \/ SaveBoard
  BY <1>0, <1>4 DEF BuildPlan, SaveBoard, Saves, countVars
<1>5. CASE ReconcileResearch \/ SubmitResearch \/ PollRun \/ PollResearch \/ RecheckStop
  BY <1>0, <1>5 DEF ReconcileResearch, SubmitResearch, PollRun, PollResearch,
     RecheckStop, storeVars, countVars
<1>6. CASE AskAnalysis \/ AskReporting
  BY <1>0, <1>6 DEF AskAnalysis, AskReporting, Returns, unchangedByWork
<1> QED BY <1>1, <1>2, <1>3, <1>4, <1>5, <1>6 DEF Worker

(* A step of a service call. *)
LEMMA ServiceKeeps ==
    ASSUME LifeInv, ServiceInv, NEW a \in Actors, ServiceStep(a)
    PROVE  ServiceInv'
<1> USE DEF Goto, Saves, Returns, Raises, Actors, InAnalysis, InReporting
<1>0. pc \in [Actors -> Points]
  BY DEF LifeInv, TypeOK
<1> USE DEF ServiceInv, AnalysisInv, ReportingInv
<1>1. CASE LockAnalysis(a)
  BY <1>0, <1>1 DEF LockAnalysis
<1>2. CASE RunAnalyst(a)
  BY <1>0, <1>2 DEF RunAnalyst
<1>3. CASE SaveClaims(a)
  BY <1>0, <1>3 DEF SaveClaims
<1>4. CASE RunCitation(a)
  BY <1>0, <1>4 DEF RunCitation
<1>5. CASE LockReporting(a)
  BY <1>0, <1>5 DEF LockReporting
<1>6. CASE WriteReport(a)
  BY <1>0, <1>6 DEF WriteReport
<1>7. CASE SaveStatements(a)
  BY <1>0, <1>7 DEF SaveStatements
<1>8. CASE EnsureStatements(a)
  BY <1>0, <1>8 DEF EnsureStatements
<1>9. CASE RunReviewer(a)
  BY <1>0, <1>9 DEF RunReviewer
<1>10. CASE RunQualityGate(a)
  BY <1>0, <1>10 DEF RunQualityGate
<1> QED
  BY <1>1, <1>2, <1>3, <1>4, <1>5, <1>6, <1>7, <1>8, <1>9, <1>10
  DEF ServiceStep

LEMMA ServiceInit == Init => ServiceInv
BY DEF Init, ServiceInv, AnalysisInv, ReportingInv, InAnalysis, InReporting, Actors

LEMMA ServiceNext == LifeInv /\ ServiceInv /\ [Next]_vars => ServiceInv'
<1> SUFFICES ASSUME LifeInv, ServiceInv, [Next]_vars PROVE ServiceInv'
  OBVIOUS
<1>1. CASE Worker /\ ~ServiceStep("worker")
  <2>1. \A a \in Actors : pc'[a] = pc[a] \/ pc'[a] \notin Inside
    BY <1>1, WorkerOutside DEF Actors
  <2> QED BY <1>1, <2>1, WorkerOutside, ServiceFrame
<1>2. CASE \E a \in Actors : ServiceStep(a)
  BY <1>2, ServiceKeeps
<1>3. CASE User \/ Status \/ Crash \/ Research \/ Rest \/ UNCHANGED vars
  <2>1. UNCHANGED <<artifacts, paid>>
    BY <1>3 DEF User, Status, Crash, Research, Rest, Submit, RequestStop,
       ManualRequest, DirectResearchRequest, ReconcileInterrupted,
       ReconcileCompleted, storeVars, countVars, vars
  <2>2. \A a \in Actors : pc'[a] = pc[a] \/ pc'[a] \notin Inside
    <3>1. pc \in [Actors -> Points]
      BY DEF LifeInv, TypeOK
    <3>2. CASE \E service \in {"call_analysis", "call_reporting"} :
                  ManualRequest(service)
      BY <3>1, <3>2 DEF ManualRequest, Actors, Inside, InAnalysis, InReporting
    <3>3. CASE Crash
      BY <3>3 DEF Crash, Inside, InAnalysis, InReporting
    <3>4. CASE \/ Submit \/ RequestStop \/ DirectResearchRequest \/ Status
               \/ Research \/ Rest \/ UNCHANGED vars
      BY <3>4 DEF Submit, RequestStop, DirectResearchRequest, Status, Research,
         Rest, ReconcileInterrupted, ReconcileCompleted, workerVars, vars
    <3> QED BY <1>3, <3>2, <3>3, <3>4 DEF User
  <2> QED BY <2>1, <2>2, ServiceFrame
<1> QED BY <1>1, <1>2, <1>3 DEF Next, Actors

LEMMA ServiceAlways == Spec => []ServiceInv
BY ServiceInit, ServiceNext, LifeAlways, PTL DEF Spec

(* One analyst result is saved, whoever asks and however calls overlap. *)
THEOREM AnalysedOnce == Spec => []OneAnalysis
<1>1. ServiceInv => OneAnalysis
  BY DEF ServiceInv, AnalysisInv, OneAnalysis
<1> QED BY <1>1, ServiceAlways, PTL

(* No report is written from claims whose citations are unchecked. *)
THEOREM ReportsAreCitationChecked == Spec => []ReportIsCitationChecked
<1>1. ServiceInv => ReportIsCitationChecked
  BY DEF ServiceInv, ReportingInv, ReportIsCitationChecked
<1> QED BY <1>1, ServiceAlways, PTL

(* Claims are paid once, and checked before a report is written of them.   *)
THEOREM ReportsAreChecked == Spec => []ReportIsChecked
<1>1. ReportIsCitationChecked /\ OneAnalysis => ReportIsChecked
  BY DEF ReportIsChecked
<1> QED BY <1>1, ReportsAreCitationChecked, AnalysedOnce, PTL

-----------------------------------------------------------------------------
(* What a completed run has behind it.                                     *)

(* The points of a stage's own work. *)
AnalysisPoints  == {"analyze", "call_analysis"} \cup InAnalysis
ReportingPoints == {"report", "call_reporting"} \cup InReporting

(* The stages that precede a point of _execute. *)
Earlier == [planning |-> {}, researching |-> {"planning"},
            analyzing |-> {"planning", "researching"},
            reporting |-> {"planning", "researching", "analyzing"},
            end |-> Stages]

(* The worker is past a stage only when it is completed, in its own copy,  *)
(* and the reporting stage is completed only with all it produces.         *)
WorkPlace ==
    /\ pc["worker"] \in {"plan", "save_board"} => at = "planning"
    /\ pc["worker"] \in {"reconcile", "submit", "poll", "status", "recheck"}
         => at = "researching"
    /\ pc["worker"] \in AnalysisPoints => at = "analyzing"
    /\ pc["worker"] \in ReportingPoints => at = "reporting"
    /\ pc["worker"] = "settle" => at = "end"

StagesDone ==
    /\ pc["worker"] \notin {"off", "start", "except", "stop", "fail"}
         => Earlier[at] \subseteq local.done
    /\ pc["worker"] \in {"resume", "checkpoint", "mark"} => at \in local.done
    /\ pc["worker"] = "handoff" /\ at \in LateHandoff => at \in local.done

ReportingIsDone ==
    /\ pc["worker"] \in {"handoff", "complete", "checkpoint", "mark"} /\ at = "reporting"
         => ReportingDone \subseteq artifacts
    /\ "reporting" \in run.done => ReportingDone \subseteq artifacts
    /\ run.status = "completed" => run.done = Stages

ChainInv == WorkPlace /\ StagesDone /\ ReportingIsDone

(* The saves of the worker change the completed stages only to add the one *)
(* that is completed.                                                      *)
LEMMA SavedStages ==
    ASSUME LifeInv,
           \/ SaveRunning \/ FinishStopped \/ BeginStage \/ ResumeStage
           \/ CompleteStage \/ MarkCheckpoint \/ Settle \/ SaveFailed
    PROVE  /\ local' = run'
           /\ run'.done = IF WorkerAt("complete") THEN local.done \cup {at}
                                                  ELSE local.done
           /\ ~WorkerAt("settle") => run'.status # "completed"
<1>0. /\ run \in Run /\ local \in Run /\ local.done = run.done
      /\ run.status \in Active /\ local.status \in Active
      /\ pc["worker"] \notin OutsideStage => at \in Stages
      /\ Len(checkpoints) \in Nat
  BY DEF LifeInv, TypeOK, Coupling, InsideStage, WorkerAt, SaveRunning,
     FinishStopped, BeginStage, ResumeStage, CompleteStage, MarkCheckpoint,
     Settle, SaveFailed
<1>1. ASSUME NEW new \in Run, run' = Saved(run, new)
      PROVE  /\ run'.done = new.done
             /\ new.status # "completed" => run'.status # "completed"
  BY <1>0, <1>1, SavedFacts
<1>2. CASE SaveRunning
  <2> DEFINE new == [local EXCEPT !.status = "running"]
  <2>1. new \in Run /\ new.done = local.done /\ new.status # "completed"
    BY <1>0 DEF Run, Active
  <2> QED BY <1>1, <1>2, <2>1 DEF SaveRunning, WorkerAt
<1>3. CASE FinishStopped
  <2>1. /\ Stopped(local) \in Run /\ Stopped(local).done = local.done
        /\ Stopped(local).status = "stopped"
    BY <1>0, CopyTypes DEF Stopped, Run
  <2> QED BY <1>1, <1>3, <2>1 DEF FinishStopped, WorkerAt
<1>4. CASE BeginStage
  <2> DEFINE new == [local EXCEPT
                !.status = IF local.stop THEN "stopping" ELSE "running",
                !.stage  = at]
  <2>1. at \in Stages
    BY <1>0, <1>4 DEF BeginStage, WorkerAt, OutsideStage
  <2>2. new \in Run /\ new.done = local.done /\ new.status # "completed"
    BY <1>0, <2>1 DEF Run, Active
  <2> QED BY <1>1, <1>4, <2>2 DEF BeginStage, WorkerAt
<1>5. CASE ResumeStage
  <2> DEFINE new == [local EXCEPT !.stage = at]
  <2>1. at \in Stages
    BY <1>0, <1>5 DEF ResumeStage, WorkerAt, OutsideStage
  <2>2. new \in Run /\ new.done = local.done /\ new.status # "completed"
    BY <1>0, <2>1 DEF Run, Active
  <2> QED BY <1>1, <1>5, <2>2 DEF ResumeStage, WorkerAt
<1>6. CASE CompleteStage
  <2> DEFINE new == [local EXCEPT !.done = @ \cup {at}]
  <2>1. at \in Stages
    BY <1>0, <1>6 DEF CompleteStage, WorkerAt, OutsideStage
  <2>2. new \in Run /\ new.done = local.done \cup {at} /\ new.status # "completed"
    BY <1>0, <2>1 DEF Run, Active
  <2> QED BY <1>1, <1>6, <2>2 DEF CompleteStage
<1>7. CASE MarkCheckpoint
  <2> DEFINE new == [local EXCEPT !.marked = Len(checkpoints)]
  <2>1. new \in Run /\ new.done = local.done /\ new.status # "completed"
    BY <1>0 DEF Run, Active
  <2> QED BY <1>1, <1>7, <2>1 DEF MarkCheckpoint, WorkerAt
<1>8. CASE Settle
  <2> DEFINE new == [local EXCEPT !.status = "completed",
                                  !.stage = "completed"]
  <2>1. new \in Run /\ new.done = local.done
    BY <1>0 DEF Run, Terminal
  <2> QED BY <1>1, <1>8, <2>1 DEF Settle, WorkerAt
<1>9. CASE SaveFailed
  <2> DEFINE new == [local EXCEPT !.status = "failed"]
  <2>1. new \in Run /\ new.done = local.done /\ new.status # "completed"
    BY <1>0 DEF Run, Terminal
  <2> QED BY <1>1, <1>9, <2>1 DEF SaveFailed, WorkerAt
<1> QED BY <1>2, <1>3, <1>4, <1>5, <1>6, <1>7, <1>8, <1>9

(* The saves keep the chain. *)
LEMMA ChainSaves ==
    ASSUME LifeInv, LifeInv', ChainInv,
           \/ SaveRunning \/ FinishStopped \/ BeginStage \/ ResumeStage
           \/ CompleteStage \/ MarkCheckpoint \/ Settle \/ SaveFailed
    PROVE  ChainInv'
<1> USE DEF ChainInv
<1>0. /\ pc \in [Actors -> Points] /\ "worker" \in Actors
      /\ pc["worker"] \notin OutsideStage => at \in Stages
      /\ run.status # "completed"
  BY WorkerSaveKeeps DEF LifeInv, TypeOK, InsideStage, Actors, Active
<1>1. UNCHANGED artifacts
  BY DEF SaveRunning, FinishStopped, BeginStage, ResumeStage, CompleteStage,
     MarkCheckpoint, Settle, SaveFailed, storeVars
<1>2. CASE SaveRunning \/ FinishStopped \/ SaveFailed
  <2>1. pc'["worker"] \in {"check", "off"} /\ local'.done = local.done
        /\ (pc'["worker"] = "check" => at' = "planning")
        /\ run'.done = local.done /\ run'.status # "completed"
    BY <1>0, <1>2, SavedStages
    DEF SaveRunning, FinishStopped, SaveFailed, Goto, WorkerAt
  <2>2. local.done = run.done
    BY <1>2 DEF SaveRunning, FinishStopped, SaveFailed, WorkerAt, LifeInv, Coupling
  <2> QED
    BY <1>1, <2>1, <2>2 DEF WorkPlace, StagesDone, ReportingIsDone, Earlier,
       AnalysisPoints, ReportingPoints, InAnalysis, InReporting
<1>3. CASE BeginStage
  <2>1. /\ at \in Stages /\ at' = at /\ pc'["worker"] = StageWork[at]
        /\ run'.done = local.done /\ local'.done = local.done
        /\ run'.status # "completed"
    BY <1>0, <1>3, SavedStages DEF BeginStage, Goto, WorkerAt, OutsideStage
  <2>2. WorkPlace'
    BY <2>1 DEF WorkPlace, StageWork, Stages, AnalysisPoints, ReportingPoints,
       InAnalysis, InReporting
  <2>3. StagesDone' /\ ReportingIsDone'
    <3>1. StageWork[at] \in {"plan", "reconcile", "analyze", "report"}
      BY <2>1 DEF StageWork, Stages
    <3>2. local.done = run.done
      BY <1>3 DEF BeginStage, WorkerAt, LifeInv, Coupling
    <3> QED
      BY <1>1, <1>3, <2>1, <3>1, <3>2
      DEF BeginStage, WorkerAt, StagesDone, ReportingIsDone
  <2> QED BY <2>2, <2>3
<1>4. CASE ResumeStage \/ MarkCheckpoint
  <2>1. /\ at \in Stages /\ at \in local.done /\ Earlier[at] \subseteq local.done
        /\ run'.done = local.done /\ local'.done = local.done
        /\ local.done = run.done /\ run'.status # "completed"
    BY <1>0, <1>4, SavedStages
    DEF ResumeStage, MarkCheckpoint, WorkerAt, OutsideStage, StagesDone,
        LifeInv, Coupling
  <2>2. \/ pc'["worker"] = "handoff" /\ at' = at /\ at \in LateHandoff
        \/ pc'["worker"] \in {"enter", "check"} /\ at' = NextStage[at]
    BY <1>0, <1>4 DEF ResumeStage, MarkCheckpoint, Proceed, Goto, LateHandoff
  <2>3. Earlier[NextStage[at]] = Earlier[at] \cup {at}
    BY <2>1 DEF Earlier, NextStage, Stages
  <2>4. WorkPlace'
    BY <2>2 DEF WorkPlace, AnalysisPoints, ReportingPoints, InAnalysis, InReporting
  <2>5. StagesDone'
    BY <2>1, <2>2, <2>3 DEF StagesDone
  <2>6. ReportingIsDone'
    BY <1>1, <2>1, <2>2 DEF ReportingIsDone, LateHandoff
  <2> QED BY <2>4, <2>5, <2>6
<1>5. CASE CompleteStage
  <2>1. /\ pc'["worker"] = "checkpoint" /\ at' = at /\ WorkerAt("complete")
        /\ run'.done = local.done \cup {at} /\ local'.done = local.done \cup {at}
        /\ run'.status # "completed" /\ local.done = run.done
    BY <1>0, <1>5, SavedStages DEF CompleteStage, Goto, WorkerAt, LifeInv, Coupling
  <2>2. WorkPlace' /\ StagesDone'
    BY <2>1 DEF WorkPlace, StagesDone, WorkerAt, AnalysisPoints,
       ReportingPoints, InAnalysis, InReporting
  <2>3. ReportingIsDone'
    BY <1>1, <2>1 DEF ReportingIsDone, WorkerAt
  <2> QED BY <2>2, <2>3
<1>6. CASE Settle
  <2>1. pc["worker"] = "settle" /\ pc'["worker"] = "off"
    BY <1>0, <1>6 DEF Settle, Goto, WorkerAt
  <2>2. run'.done = local.done
    BY <1>6, <2>1, SavedStages DEF WorkerAt
  <2>3. local.done = run.done /\ run \in Run
    BY <2>1 DEF LifeInv, Coupling, TypeOK
  <2>4. Stages \subseteq local.done
    BY <2>1 DEF WorkPlace, StagesDone, Earlier
  <2>5. /\ pc'["worker"] = "off" /\ run'.done = local.done
        /\ local.done = run.done /\ local.done \subseteq Stages
        /\ Stages \subseteq local.done
    BY <2>1, <2>2, <2>3, <2>4 DEF Run
  <2>6. WorkPlace' /\ StagesDone'
    BY <2>5 DEF WorkPlace, StagesDone, AnalysisPoints, ReportingPoints,
       InAnalysis, InReporting
  <2>7. ReportingIsDone'
    BY <1>1, <2>5 DEF ReportingIsDone
  <2> QED BY <2>6, <2>7
<1> QED BY <1>2, <1>3, <1>4, <1>5, <1>6

(* The steps of the worker that save no run, and the service calls. *)
LEMMA ChainMoves ==
    ASSUME LifeInv, ServiceInv, ChainInv,
           \/ WorkerStarts \/ CheckBeforeStage \/ CheckBeforeEnd \/ EnterStage
           \/ AppendCheckpoint \/ Handoff \/ Except \/ BuildPlan \/ SaveBoard
           \/ ReconcileResearch \/ SubmitResearch \/ PollRun \/ PollResearch
           \/ RecheckStop \/ AskAnalysis \/ AskReporting
    PROVE  ChainInv'
<1> USE DEF ChainInv, WorkPlace, AnalysisPoints, ReportingPoints, InAnalysis,
            InReporting, Goto, WorkerAt
<1>0. /\ pc \in [Actors -> Points] /\ "worker" \in Actors
      /\ pc["worker"] \notin OutsideStage => at \in Stages
      /\ pc["worker"] # "off" => local.done = run.done
  BY DEF LifeInv, TypeOK, InsideStage, Coupling, Actors
<1>1. CASE WorkerStarts
  BY <1>0, <1>1 DEF WorkerStarts, storeVars, StagesDone, ReportingIsDone
<1>2. CASE CheckBeforeStage \/ CheckBeforeEnd
  BY <1>0, <1>2 DEF CheckBeforeStage, CheckBeforeEnd, StopCheck, storeVars,
     StagesDone, ReportingIsDone
<1>3. CASE EnterStage
  BY <1>0, <1>3 DEF EnterStage, storeVars, StagesDone, ReportingIsDone
<1>4. CASE AppendCheckpoint \/ Except
  BY <1>0, <1>4 DEF AppendCheckpoint, Except, storeVars, StagesDone, ReportingIsDone
<1>5. CASE Handoff
  <2>1. /\ at \in Stages /\ Earlier[at] \subseteq local.done
        /\ at \in LateHandoff => at \in local.done
        /\ local'.done = local.done /\ UNCHANGED <<run, artifacts>>
        /\ Earlier[NextStage[at]] = Earlier[at] \cup {at}
    BY <1>0, <1>5
    DEF Handoff, Proceed, OutsideStage, StagesDone, Earlier, NextStage, Stages
  <2>2. \/ pc' = pc /\ at' = at
        \/ pc'["worker"] = "complete" /\ at' = at
        \/ /\ pc'["worker"] \in {"enter", "check"} /\ at' = NextStage[at]
           /\ at \in LateHandoff
    BY <1>0, <1>5 DEF Handoff, Proceed, LateHandoff
  <2>3. WorkPlace' /\ StagesDone'
    BY <1>5, <2>1, <2>2 DEF Handoff, StagesDone
  <2>4. ReportingIsDone'
    BY <1>5, <2>1, <2>2 DEF Handoff, ReportingIsDone
  <2> QED BY <2>3, <2>4
<1>6. CASE BuildPlan \/ SaveBoard
  BY <1>0, <1>6 DEF BuildPlan, SaveBoard, Saves, StagesDone, ReportingIsDone
<1>7. CASE ReconcileResearch \/ SubmitResearch \/ PollRun \/ PollResearch \/ RecheckStop
  BY <1>0, <1>7 DEF ReconcileResearch, SubmitResearch, PollRun, PollResearch,
     RecheckStop, storeVars, StagesDone, ReportingIsDone
<1>8. CASE AskAnalysis \/ AskReporting
  BY <1>0, <1>8 DEF AskAnalysis, AskReporting, Returns, unchangedByWork,
     StagesDone, ReportingIsDone, LateHandoff
<1> QED BY <1>1, <1>2, <1>3, <1>4, <1>5, <1>6, <1>7, <1>8

LEMMA ChainServices ==
    ASSUME LifeInv, ServiceInv, ChainInv, NEW a \in Actors, ServiceStep(a)
    PROVE  ChainInv'
<1>0. /\ UNCHANGED <<run, local, at>> /\ artifacts \subseteq artifacts'
      /\ pc \in [Actors -> Points] /\ "worker" \in Actors
  BY DEF LifeInv, TypeOK, Actors, ServiceStep, LockAnalysis, RunAnalyst,
     SaveClaims, RunCitation, LockReporting, WriteReport, SaveStatements,
     EnsureStatements, RunReviewer, RunQualityGate, unchangedByWork, Saves
<1>1. CASE pc'["worker"] = pc["worker"]
  BY <1>0, <1>1 DEF ChainInv, WorkPlace, StagesDone, ReportingIsDone
<1>2. CASE pc'["worker"] # pc["worker"]
  <2>1. a = "worker" /\ pc["worker"] \in AnalysisPoints \cup ReportingPoints
    BY <1>0, <1>2
    DEF ServiceStep, LockAnalysis, RunAnalyst, SaveClaims, RunCitation,
        LockReporting, WriteReport, SaveStatements, EnsureStatements,
        RunReviewer, RunQualityGate, Goto, Returns, Raises, AnalysisPoints,
        ReportingPoints, InAnalysis, InReporting
  <2>2. /\ pc["worker"] \in AnalysisPoints
              => pc'["worker"] \in InAnalysis \cup {"handoff", "except"}
        /\ pc["worker"] \in ReportingPoints
              => \/ pc'["worker"] \in InReporting \cup {"except"}
                 \/ pc'["worker"] = "handoff" /\ ReportingDone \subseteq artifacts'
    BY <1>0, <2>1
    DEF ServiceStep, LockAnalysis, RunAnalyst, SaveClaims, RunCitation,
        LockReporting, WriteReport, SaveStatements, EnsureStatements,
        RunReviewer, RunQualityGate, Goto, Returns, Raises, Saves,
        AnalysisPoints, ReportingPoints, InAnalysis, InReporting,
        ServiceInv, ReportingInv, ReportingDone
  <2>3. at \in {"analyzing", "reporting"} /\ Earlier[at] \subseteq local.done
    BY <2>1 DEF ChainInv, WorkPlace, StagesDone, AnalysisPoints,
       ReportingPoints, InAnalysis, InReporting
  <2>4. WorkPlace'
    BY <1>0, <2>1, <2>2
    DEF ChainInv, WorkPlace, AnalysisPoints, ReportingPoints, InAnalysis, InReporting
  <2>5. StagesDone'
    BY <1>0, <2>1, <2>2, <2>3 DEF StagesDone, LateHandoff, InAnalysis, InReporting
  <2>6. ReportingIsDone'
    BY <1>0, <2>1, <2>2
    DEF ChainInv, ReportingIsDone, WorkPlace, AnalysisPoints, InAnalysis, InReporting
  <2> QED BY <2>4, <2>5, <2>6 DEF ChainInv
<1> QED BY <1>1, <1>2

(* The API threads, the coordinator, the restarts. *)
LEMMA ChainApi ==
    ASSUME LifeInv, LifeInv', ChainInv,
           User \/ Status \/ Crash \/ Research \/ Rest \/ UNCHANGED vars
    PROVE  ChainInv'
<1>0. pc \in [Actors -> Points] /\ "worker" \in Actors
  BY DEF LifeInv, TypeOK, Actors
<1>1. /\ UNCHANGED <<local, at, artifacts>>
      /\ pc'["worker"] \in {pc["worker"], "off"}
  <2>1. CASE \E service \in {"call_analysis", "call_reporting"} :
                ManualRequest(service)
    BY <1>0, <2>1 DEF ManualRequest, storeVars
  <2>2. CASE ~\E service \in {"call_analysis", "call_reporting"} :
                ManualRequest(service)
    BY <1>0, <2>2 DEF User, Status, Crash, Research, Rest, Submit, RequestStop,
       DirectResearchRequest, ReconcileInterrupted, ReconcileCompleted,
       storeVars, workerVars, vars
  <2> QED BY <2>1, <2>2
<1>2. WorkPlace' /\ StagesDone'
  BY <1>1 DEF ChainInv, WorkPlace, StagesDone, AnalysisPoints,
     ReportingPoints, InAnalysis, InReporting
<1>3. \/ run'.done = run.done /\ (run'.status = "completed" => run' = run)
      \/ /\ run'.done = Stages /\ ReportingDone \subseteq artifacts
  <2>1. CASE Submit
    BY <2>1, SubmitFacts
  <2>2. CASE RequestStop
    BY <2>2, StopFacts
  <2>3. CASE ReconcileInterrupted
    BY <2>3, ReconciledFacts DEF ReconcileInterrupted, IsActive, LifeInv, TypeOK
  <2>4. CASE ReconcileCompleted
    BY <2>4, RecoveredFacts DEF ReconcileCompleted
  <2>5. CASE ~(Submit \/ RequestStop \/ Status)
    BY <2>5 DEF User, ManualRequest, DirectResearchRequest, Crash, Research,
       Rest, vars
  <2> QED BY <2>1, <2>2, <2>3, <2>4, <2>5 DEF Status
<1>4. ReportingIsDone'
  BY <1>1, <1>3 DEF ChainInv, ReportingIsDone
<1> QED BY <1>2, <1>4 DEF ChainInv

LEMMA ChainNext ==
    LifeInv /\ LifeInv' /\ ServiceInv /\ ChainInv /\ [Next]_vars => ChainInv'
<1> SUFFICES ASSUME LifeInv, LifeInv', ServiceInv, ChainInv, [Next]_vars
             PROVE  ChainInv'
  OBVIOUS
<1>1. CASE Worker
  BY <1>1, ChainSaves, ChainMoves, ChainServices DEF Worker, Actors
<1>2. CASE ServiceStep("manual")
  BY <1>2, ChainServices DEF Actors
<1>3. CASE User \/ Status \/ Crash \/ Research \/ Rest \/ UNCHANGED vars
  BY <1>3, ChainApi
<1> QED BY <1>1, <1>2, <1>3 DEF Next

LEMMA ChainInit == Init => ChainInv
BY DEF Init, NoRun, Actors, ChainInv, WorkPlace, StagesDone, ReportingIsDone,
   AnalysisPoints, ReportingPoints, InAnalysis, InReporting

(* Whatever was skipped, retried, recovered by hand or interrupted on the  *)
(* way, a completed run has every stage and every artifact behind it.      *)
THEOREM CompletionIsGrounded == Spec => []CompletedIsGrounded
<1>1. ServiceInv /\ ChainInv => CompletedIsGrounded
  BY DEF ServiceInv, ReportingInv, ChainInv, ReportingIsDone, ReportingDone,
     CompletedIsGrounded, Stages
<1>2. Spec => []ChainInv
  BY ChainInit, ChainNext, LifeAlways, ServiceAlways, PTL DEF Spec
<1> QED BY <1>1, <1>2, ServiceAlways, PTL

-----------------------------------------------------------------------------
(***************************************************************************)
(* The order in which PipelineHarness goes through its stages: the         *)
(* checkpoints and handoffs it records, what a requested stop lets begin,  *)
(* and the research it leaves behind.                                      *)
(***************************************************************************)

(* No step takes a stage back, and only a resume takes a stop back. *)
LEMMA StepsGoForward ==
    ASSUME LifeInv, [Next]_vars
    PROVE  /\ run.done \subseteq run'.done
           /\ ~Submit => (run.stop => run'.stop)
<1>1. run.done \subseteq Stages
  BY DEF LifeInv, TypeOK, Run
<1> QED BY <1>1, RunChanges, SubmitFacts, RecoveredFacts

-----------------------------------------------------------------------------
(* Checkpoints and handoffs. *)

(* The stage a handoff is made in. *)
StageOf ==
    [planner_to_research |-> "planning",  research_to_analyst |-> "researching",
     analyst_to_citation |-> "analyzing", citation_to_writer  |-> "analyzing",
     writer_to_reviewer  |-> "reporting", reviewer_to_gate    |-> "reporting"]

LastOrder == [planning |-> 1, researching |-> 2, analyzing |-> 4, reporting |-> 6]

Made(key) == \E i \in 1..Len(handoffs) : handoffs[i] = key

(* From its beginning to its last handoff the stage is the furthest that   *)
(* has handoffs. *)
InStage == WorkPoints \cup {"begin", "handoff", "complete", "checkpoint", "mark"}

(* A stage has handoffs only after those before it were completed, so that *)
(* one that is begun has none behind it; the second of a stage follows the *)
(* first.                                                                  *)
HandoffInv ==
    /\ HandoffsInOrder
    /\ \A i \in 1..Len(handoffs) : Earlier[StageOf[handoffs[i]]] \subseteq run.done
    /\ pc["worker"] \in InStage
         => \A i \in 1..Len(handoffs) : HandoffOrder[handoffs[i]] <= LastOrder[at]
    /\ Made("citation_to_writer") => Made("analyst_to_citation")
    /\ Made("reviewer_to_gate") => Made("writer_to_reviewer")
    /\ pc["worker"] = "handoff" /\ hop = 1 => Made(StageHandoffs[at][1])

(* At most one stage is begun after a stop, and then the worker is beyond  *)
(* every point from which another could be.                                *)
StopInv ==
    /\ begun <= 1
    /\ begun = 1 =>
         /\ run.stop /\ future # "queued"
         /\ pc["worker"] \notin {"start", "enter", "begin", "resume", "settle"}
         /\ at = "researching"
              => pc["worker"] \notin {"complete", "checkpoint", "mark", "handoff"}

(* The pipeline only lets the coordinator work while it waits for it. *)
ResearchInv ==
    ResearchIsLive => ResearchIsActive /\ pc["worker"] \in {"poll", "status"}

OrderInv == CheckpointsAreTrue /\ HandoffInv /\ StopInv

(* Every checkpoint is of what the saved run has completed, and the run    *)
(* loses nothing of it.                                                    *)
LEMMA CheckpointsNext ==
    ASSUME LifeInv, CheckpointsAreTrue, [Next]_vars
    PROVE  CheckpointsAreTrue'
<1> USE DEF CheckpointsAreTrue
<1>0. /\ checkpoints \in Seq([stage : Stages, done : SUBSET Stages])
      /\ run.done \subseteq Stages /\ run.done \subseteq run'.done
  BY StepsGoForward DEF LifeInv, TypeOK, Run
<1>1. ASSUME NEW c, checkpoints' = Append(checkpoints, c), c.done \subseteq run'.done
      PROVE  CheckpointsAreTrue'
  <2> SUFFICES ASSUME NEW i \in 1..Len(checkpoints')
               PROVE  checkpoints'[i].done \subseteq run'.done
    OBVIOUS
  <2>1. CASE i \in 1..Len(checkpoints)
    BY <1>0, <1>1, <2>1
  <2>2. CASE i = Len(checkpoints) + 1
    BY <1>0, <1>1, <2>2
  <2> QED BY <1>0, <1>1, <2>1, <2>2
<1>2. CASE AppendCheckpoint
  <2>1. local.done = run.done /\ run' = run
    BY <1>2 DEF AppendCheckpoint, WorkerAt, LifeInv, Coupling
  <2> QED BY <1>1, <1>2, <2>1 DEF AppendCheckpoint
<1>3. CASE ReconcileCompleted
  <2> DEFINE new == [run EXCEPT !.status = "completed", !.stage = "completed",
                                !.done = Stages]
  <2>1. run \in Run /\ new \in Run /\ new.done = Stages
    BY DEF LifeInv, TypeOK, Run, Terminal
  <2>2. Saved(run, new).done = Stages
    BY <2>1, SavedFacts
  <2>3. run'.done = Stages
    BY <1>3, RecoveredFacts
  <2> QED BY <1>1, <1>3, <2>2, <2>3 DEF ReconcileCompleted
<1>4. CASE UNCHANGED checkpoints
  BY <1>0, <1>4
<1>5. ~AppendCheckpoint /\ ~ReconcileCompleted => UNCHANGED checkpoints
  <2>1. CASE \/ WorkerStarts \/ SaveRunning \/ CheckBeforeStage \/ CheckBeforeEnd
             \/ FinishStopped \/ EnterStage \/ BeginStage \/ ResumeStage
             \/ CompleteStage \/ MarkCheckpoint \/ Handoff \/ BuildPlan \/ SaveBoard
             \/ ReconcileResearch \/ SubmitResearch \/ PollRun \/ PollResearch
             \/ RecheckStop \/ Settle \/ Except \/ SaveFailed
    BY <2>1 DEF WorkerStarts, SaveRunning, CheckBeforeStage, CheckBeforeEnd,
       StopCheck, FinishStopped, EnterStage, BeginStage, ResumeStage,
       CompleteStage, MarkCheckpoint, Handoff, BuildPlan, SaveBoard,
       ReconcileResearch, SubmitResearch, PollRun, PollResearch, RecheckStop,
       Settle, Except, SaveFailed, storeVars
  <2>2. CASE AskAnalysis \/ AskReporting \/ \E a \in Actors : ServiceStep(a)
    BY <2>2 DEF AskAnalysis, AskReporting, ServiceStep, LockAnalysis, RunAnalyst,
       SaveClaims, RunCitation, LockReporting, WriteReport, SaveStatements,
       EnsureStatements, RunReviewer, RunQualityGate, unchangedByWork
  <2>3. CASE User \/ ReconcileInterrupted \/ Crash \/ Research \/ Rest \/ UNCHANGED vars
    BY <2>3 DEF User, Submit, RequestStop, ManualRequest, DirectResearchRequest,
       ReconcileInterrupted, Crash, Research, Rest, storeVars, vars
  <2> QED BY <2>1, <2>2, <2>3 DEF Next, Worker, Status, Actors
<1> QED BY <1>2, <1>3, <1>4, <1>5

(* A stage that is begun, or goes on, is at one of the four. *)
LEMMA OrderFacts ==
    ASSUME LifeInv, ChainInv
    PROVE  /\ pc \in [Actors -> Points] /\ "worker" \in Actors
           /\ handoffs \in Seq(HandoffKeys) /\ run \in Run
           /\ pc["worker"] \notin OutsideStage => at \in Stages
           /\ pc["worker"] # "off" => local.done = run.done
           /\ pc["worker"] # "off" => future = "running" /\ run.status \in Active
BY DEF LifeInv, TypeOK, Coupling, InsideStage, Actors

(* What is recorded stays in order while nothing is added to it. *)
LEMMA HandoffFrame ==
    ASSUME HandoffInv, UNCHANGED handoffs, run.done \subseteq run'.done,
           pc'["worker"] \in InStage => pc["worker"] \in InStage /\ at' = at,
           pc'["worker"] = "handoff" /\ hop' = 1 => pc["worker"] = "handoff" /\ hop = 1
    PROVE  HandoffInv'
<1>0. pc'["worker"] = "handoff" => pc'["worker"] \in InStage
  BY DEF InStage
<1>1. /\ HandoffsInOrder'
      /\ (Made("citation_to_writer") => Made("analyst_to_citation"))'
      /\ (Made("reviewer_to_gate") => Made("writer_to_reviewer"))'
  BY DEF HandoffInv, HandoffsInOrder, Made
<1>2. \A i \in 1..Len(handoffs') : Earlier[StageOf[handoffs'[i]]] \subseteq run'.done
  BY DEF HandoffInv
<1>3. pc'["worker"] \in InStage
         => \A i \in 1..Len(handoffs') : HandoffOrder[handoffs'[i]] <= LastOrder[at']
  BY DEF HandoffInv
<1>4. (pc["worker"] = "handoff" /\ hop = 1 => Made(StageHandoffs[at][1]))'
  <2> SUFFICES ASSUME pc'["worker"] = "handoff", hop' = 1
               PROVE  \E i \in 1..Len(handoffs') : handoffs'[i] = StageHandoffs[at'][1]
    BY DEF Made
  <2>1. at' = at /\ Made(StageHandoffs[at][1])
    BY <1>0 DEF HandoffInv
  <2> QED BY <2>1 DEF Made
<1> QED BY <1>1, <1>2, <1>3, <1>4 DEF HandoffInv

(* The handoffs of a stage follow each other, after those of the stages    *)
(* before it. *)
LEMMA KeyFacts ==
    ASSUME NEW s \in Stages, NEW h \in 0..2, h < Len(StageHandoffs[s])
    PROVE  /\ StageHandoffs[s][h + 1] \in HandoffKeys
           /\ StageOf[StageHandoffs[s][h + 1]] = s
           /\ HandoffOrder[StageHandoffs[s][h + 1]] <= LastOrder[s]
           /\ \A k \in HandoffKeys :
                 HandoffOrder[k] <= LastOrder[s] /\ k # StageHandoffs[s][h + 1] =>
                    \/ HandoffOrder[k] < HandoffOrder[StageHandoffs[s][h + 1]]
                    \/ /\ k = "citation_to_writer"
                       /\ StageHandoffs[s][h + 1] = "analyst_to_citation"
                    \/ /\ k = "reviewer_to_gate"
                       /\ StageHandoffs[s][h + 1] = "writer_to_reviewer"
           /\ StageHandoffs[s][h + 1] = "citation_to_writer"
                => h = 1 /\ StageHandoffs[s][1] = "analyst_to_citation"
           /\ StageHandoffs[s][h + 1] = "reviewer_to_gate"
                => h = 1 /\ StageHandoffs[s][1] = "writer_to_reviewer"
<1> USE DEF StageHandoffs, HandoffKeys, StageOf, HandoffOrder, LastOrder
<1>1. CASE s = "planning"
  <2>1. h = 0
    BY <1>1
  <2> QED BY <1>1, <2>1
<1>2. CASE s = "researching"
  <2>1. h = 0
    BY <1>2
  <2> QED BY <1>2, <2>1
<1>3. CASE s = "analyzing"
  <2>1. h = 0 \/ h = 1
    BY <1>3
  <2>2. CASE h = 0
    BY <1>3, <2>2
  <2>3. CASE h = 1
    BY <1>3, <2>3
  <2> QED BY <2>1, <2>2, <2>3
<1>4. CASE s = "reporting"
  <2>1. h = 0 \/ h = 1
    BY <1>4
  <2>2. CASE h = 0
    BY <1>4, <2>2
  <2>3. CASE h = 1
    BY <1>4, <2>3
  <2> QED BY <2>1, <2>2, <2>3
<1> QED BY <1>1, <1>2, <1>3, <1>4 DEF Stages

(* A handoff is made at the end of what is recorded, or was made before.   *)
LEMMA HandoffKeeps ==
    ASSUME LifeInv, ChainInv, HandoffInv, Handoff
    PROVE  HandoffInv'
<1> DEFINE key == StageHandoffs[at][hop + 1]
<1>0. /\ pc \in [Actors -> Points] /\ "worker" \in Actors
      /\ handoffs \in Seq(HandoffKeys) /\ pc["worker"] = "handoff"
      /\ at \in Stages /\ hop \in 0..2 /\ hop < Len(StageHandoffs[at])
      /\ Earlier[at] \subseteq run.done /\ run' = run
      /\ \A i \in 1..Len(handoffs) : HandoffOrder[handoffs[i]] <= LastOrder[at]
  BY OrderFacts DEF Handoff, WorkerAt, OutsideStage, LifeInv, TypeOK, InsideStage,
     ChainInv, StagesDone, HandoffInv, InStage
<1>1. /\ key \in HandoffKeys /\ StageOf[key] = at
      /\ HandoffOrder[key] <= LastOrder[at]
      /\ \A k \in HandoffKeys :
            HandoffOrder[k] <= LastOrder[at] /\ k # key =>
               \/ HandoffOrder[k] < HandoffOrder[key]
               \/ k = "citation_to_writer" /\ key = "analyst_to_citation"
               \/ k = "reviewer_to_gate" /\ key = "writer_to_reviewer"
      /\ key = "citation_to_writer" => hop = 1 /\ StageHandoffs[at][1] = "analyst_to_citation"
      /\ key = "reviewer_to_gate" => hop = 1 /\ StageHandoffs[at][1] = "writer_to_reviewer"
  BY <1>0, KeyFacts
<1>2. \/ Made(key) /\ handoffs' = handoffs
      \/ ~Made(key) /\ handoffs' = Append(handoffs, key)
  BY DEF Handoff, Made
<1>3. /\ hop' = hop + 1
      /\ pc'["worker"] \in InStage => at' = at
  BY <1>0 DEF Handoff, Proceed, Goto, InStage, WorkPoints
<1> HIDE DEF key
<1>4. /\ \A i \in 1..Len(handoffs') :
            \/ i \in 1..Len(handoffs) /\ handoffs'[i] = handoffs[i]
            \/ handoffs'[i] = key
      /\ \E i \in 1..Len(handoffs') : handoffs'[i] = key
      /\ \A i \in 1..Len(handoffs) : i \in 1..Len(handoffs') /\ handoffs'[i] = handoffs[i]
  <2>1. CASE Made(key) /\ handoffs' = handoffs
    BY <2>1 DEF Made
  <2>2. CASE handoffs' = Append(handoffs, key)
    <3>1. /\ Len(handoffs') = Len(handoffs) + 1 /\ Len(handoffs) \in Nat
          /\ handoffs'[Len(handoffs) + 1] = key
          /\ \A i \in 1..Len(handoffs) : handoffs'[i] = handoffs[i]
      BY <1>0, <1>1, <2>2
    <3>2. Len(handoffs) + 1 \in 1..Len(handoffs')
      BY <1>0, <3>1
    <3> QED BY <3>1, <3>2 DEF Made
  <2> QED BY <1>2, <2>1, <2>2
<1>5. HandoffsInOrder'
  <2>1. CASE handoffs' = handoffs
    BY <2>1 DEF HandoffInv, HandoffsInOrder
  <2>2. CASE ~Made(key) /\ handoffs' = Append(handoffs, key)
    <3>1. \A i \in 1..Len(handoffs) : HandoffOrder[handoffs[i]] < HandoffOrder[key]
      <4> SUFFICES ASSUME NEW i \in 1..Len(handoffs)
                   PROVE  HandoffOrder[handoffs[i]] < HandoffOrder[key]
        OBVIOUS
      <4>1. handoffs[i] \in HandoffKeys /\ handoffs[i] # key
        BY <1>0, <2>2 DEF Made
      <4>2. ~(handoffs[i] = "citation_to_writer" /\ key = "analyst_to_citation")
        BY <2>2 DEF HandoffInv, Made
      <4>3. ~(handoffs[i] = "reviewer_to_gate" /\ key = "writer_to_reviewer")
        BY <2>2 DEF HandoffInv, Made
      <4> QED BY <1>0, <1>1, <4>1, <4>2, <4>3
    <3> SUFFICES ASSUME NEW i \in 1..Len(handoffs'), NEW j \in 1..Len(handoffs'), i < j
                 PROVE  HandoffOrder[handoffs'[i]] < HandoffOrder[handoffs'[j]]
      BY DEF HandoffsInOrder
    <3>2. Len(handoffs') = Len(handoffs) + 1 /\ Len(handoffs) \in Nat
          /\ handoffs'[Len(handoffs) + 1] = key
          /\ \A k \in 1..Len(handoffs) : handoffs'[k] = handoffs[k]
      BY <1>0, <1>1, <2>2
    <3>3. CASE j = Len(handoffs) + 1
      BY <3>1, <3>2, <3>3
    <3>4. CASE j \in 1..Len(handoffs)
      BY <3>2, <3>4 DEF HandoffInv, HandoffsInOrder
    <3> QED BY <3>2, <3>3, <3>4
  <2> QED BY <1>2, <2>1, <2>2
<1>6. \A i \in 1..Len(handoffs') : Earlier[StageOf[handoffs'[i]]] \subseteq run'.done
  BY <1>0, <1>1, <1>4 DEF HandoffInv
<1>7. pc'["worker"] \in InStage
        => \A i \in 1..Len(handoffs') : HandoffOrder[handoffs'[i]] <= LastOrder[at']
  BY <1>0, <1>1, <1>3, <1>4
<1>8. (Made("citation_to_writer") => Made("analyst_to_citation"))'
  <2> SUFFICES ASSUME NEW i \in 1..Len(handoffs'), handoffs'[i] = "citation_to_writer"
               PROVE  Made("analyst_to_citation")'
    BY DEF Made
  <2>1. CASE i \in 1..Len(handoffs) /\ handoffs'[i] = handoffs[i]
    BY <1>4, <2>1 DEF HandoffInv, Made
  <2>2. CASE handoffs'[i] = key
    <3>1. Made("analyst_to_citation")
      BY <1>0, <1>1, <2>2 DEF HandoffInv
    <3> QED BY <1>4, <3>1 DEF Made
  <2> QED BY <1>4, <2>1, <2>2
<1>9. (Made("reviewer_to_gate") => Made("writer_to_reviewer"))'
  <2> SUFFICES ASSUME NEW i \in 1..Len(handoffs'), handoffs'[i] = "reviewer_to_gate"
               PROVE  Made("writer_to_reviewer")'
    BY DEF Made
  <2>1. CASE i \in 1..Len(handoffs) /\ handoffs'[i] = handoffs[i]
    BY <1>4, <2>1 DEF HandoffInv, Made
  <2>2. CASE handoffs'[i] = key
    <3>1. Made("writer_to_reviewer")
      BY <1>0, <1>1, <2>2 DEF HandoffInv
    <3> QED BY <1>4, <3>1 DEF Made
  <2> QED BY <1>4, <2>1, <2>2
<1>10. (pc["worker"] = "handoff" /\ hop = 1 => Made(StageHandoffs[at][1]))'
  <2> SUFFICES ASSUME pc'["worker"] = "handoff", hop' = 1
               PROVE  \E i \in 1..Len(handoffs') : handoffs'[i] = StageHandoffs[at'][1]
    BY DEF Made
  <2>1. at' = at /\ hop = 0
    BY <1>0, <1>3 DEF InStage
  <2>2. StageHandoffs[at'][1] = key
    BY <2>1 DEF key
  <2> QED BY <1>4, <2>2 DEF Made
<1> QED BY <1>5, <1>6, <1>7, <1>8, <1>9, <1>10 DEF HandoffInv

(* A stage is only begun when it is not completed, and then no later one   *)
(* has handoffs.                                                           *)
LEMMA BeginKeeps ==
    ASSUME LifeInv, ChainInv, HandoffInv, EnterStage
    PROVE  HandoffInv'
<1>0. /\ at \in Stages /\ at' = at /\ local.done = run.done
      /\ UNCHANGED <<handoffs, run>> /\ pc'["worker"] \in {"begin", "resume"}
      /\ pc'["worker"] = "begin" => at \notin run.done
      /\ handoffs \in Seq(HandoffKeys)
  BY OrderFacts DEF EnterStage, WorkerAt, Goto, OutsideStage, storeVars
<1>1. ASSUME at \notin run.done, NEW i \in 1..Len(handoffs)
      PROVE  HandoffOrder[handoffs[i]] <= LastOrder[at]
  <2>1. /\ handoffs[i] \in HandoffKeys
        /\ at \notin Earlier[StageOf[handoffs[i]]]
    BY <1>0, <1>1 DEF HandoffInv
  <2> QED BY <1>0, <2>1 DEF HandoffKeys, StageOf, Earlier, LastOrder, HandoffOrder, Stages
<1>2. /\ HandoffsInOrder'
      /\ (Made("citation_to_writer") => Made("analyst_to_citation"))'
      /\ (Made("reviewer_to_gate") => Made("writer_to_reviewer"))'
      /\ \A i \in 1..Len(handoffs') : Earlier[StageOf[handoffs'[i]]] \subseteq run'.done
  BY <1>0 DEF HandoffInv, HandoffsInOrder, Made
<1>3. pc'["worker"] # "handoff" /\ (pc'["worker"] \in InStage => pc'["worker"] = "begin")
  BY <1>0 DEF InStage, WorkPoints
<1> QED BY <1>0, <1>1, <1>2, <1>3 DEF HandoffInv

(* No other step of the worker makes a handoff, or comes into a stage. *)
LEMMA OtherStepsKeepHandoffs ==
    ASSUME LifeInv, ChainInv, [Next]_vars, ~Handoff, ~EnterStage
    PROVE  /\ UNCHANGED handoffs
           /\ pc'["worker"] \in InStage => pc["worker"] \in InStage /\ at' = at
           /\ pc'["worker"] = "handoff" /\ hop' = 1 => pc["worker"] = "handoff" /\ hop = 1
<1> USE DEF Goto, WorkerAt, InStage, WorkPoints
<1>0. /\ pc \in [Actors -> Points] /\ "worker" \in Actors /\ "manual" \in Actors
      /\ pc["worker"] \notin OutsideStage => at \in Stages
      /\ pc["worker"] \in WorkPoints => hop = 0
      /\ pc["worker"] \in {"complete", "checkpoint", "mark"} /\ at \in LateHandoff
           => hop = 0
  BY DEF LifeInv, TypeOK, InsideStage, Actors
<1>1. CASE \/ WorkerStarts \/ SaveRunning \/ CheckBeforeStage \/ CheckBeforeEnd
           \/ FinishStopped \/ Settle \/ Except \/ SaveFailed
  BY <1>0, <1>1 DEF WorkerStarts, SaveRunning, CheckBeforeStage, CheckBeforeEnd,
     StopCheck, FinishStopped, Settle, Except, SaveFailed, storeVars
<1>2. CASE BeginStage
  BY <1>0, <1>2 DEF BeginStage, storeVars
<1>3. CASE ResumeStage \/ CompleteStage \/ AppendCheckpoint \/ MarkCheckpoint
  BY <1>0, <1>3 DEF ResumeStage, CompleteStage, AppendCheckpoint,
     MarkCheckpoint, Proceed, storeVars, LateHandoff
<1>4. CASE BuildPlan \/ SaveBoard
  BY <1>0, <1>4 DEF BuildPlan, SaveBoard
<1>5. CASE ReconcileResearch \/ SubmitResearch \/ PollRun \/ PollResearch \/ RecheckStop
  BY <1>0, <1>5 DEF ReconcileResearch, SubmitResearch, PollRun, PollResearch,
     RecheckStop, storeVars
<1>6. CASE AskAnalysis \/ AskReporting
  BY <1>0, <1>6 DEF AskAnalysis, AskReporting, Returns, unchangedByWork
<1>7. ASSUME NEW a \in Actors, ServiceStep(a)
      PROVE  /\ UNCHANGED <<handoffs, at, hop>>
             /\ pc'["worker"] = pc["worker"] \/ pc["worker"] \in WorkPoints
  BY <1>0, <1>7 DEF ServiceStep, LockAnalysis, RunAnalyst, SaveClaims, RunCitation,
     LockReporting, WriteReport, SaveStatements, EnsureStatements, RunReviewer,
     RunQualityGate, Returns, Raises, unchangedByWork
<1>8. CASE \E a \in Actors : ServiceStep(a)
  BY <1>0, <1>7, <1>8
<1>9. CASE \/ Submit \/ RequestStop \/ DirectResearchRequest \/ Status
           \/ Research \/ Rest \/ UNCHANGED vars
  BY <1>9 DEF Submit, RequestStop, DirectResearchRequest, Status, Research, Rest,
     ReconcileInterrupted, ReconcileCompleted, storeVars, workerVars, vars
<1>10. CASE \E service \in {"call_analysis", "call_reporting"} : ManualRequest(service)
  BY <1>0, <1>10 DEF ManualRequest, storeVars
<1>11. CASE Crash
  BY <1>0, <1>11 DEF Crash, storeVars
<1> QED
  BY <1>1, <1>2, <1>3, <1>4, <1>5, <1>6, <1>8, <1>9, <1>10, <1>11
  DEF Next, Worker, User, Actors

LEMMA HandoffNext ==
    ASSUME LifeInv, ChainInv, HandoffInv, [Next]_vars
    PROVE  HandoffInv'
<1>1. CASE Handoff
  BY <1>1, HandoffKeeps
<1>2. CASE EnterStage
  BY <1>2, BeginKeeps
<1>3. CASE ~Handoff /\ ~EnterStage
  BY <1>3, StepsGoForward, OtherStepsKeepHandoffs, HandoffFrame
<1> QED BY <1>1, <1>2, <1>3

-----------------------------------------------------------------------------
(* What a requested stop lets begin. *)

(* After the stage that was being begun the worker only comes to the stop. *)
LEMMA StopNext ==
    ASSUME LifeInv, ChainInv, StopInv, [Next]_vars
    PROVE  StopInv'
<1> USE DEF StopInv, Goto, WorkerAt
<1>0. /\ pc \in [Actors -> Points] /\ "worker" \in Actors /\ "manual" \in Actors
      /\ pc["worker"] \notin OutsideStage => at \in Stages
      /\ run \in Run /\ local \in Run /\ begun \in Nat
      /\ ~Submit => (run.stop => run'.stop)
  BY StepsGoForward DEF LifeInv, TypeOK, InsideStage, Actors
<1>1. CASE \/ WorkerStarts \/ SaveRunning \/ CheckBeforeStage \/ CheckBeforeEnd
           \/ FinishStopped \/ Settle \/ Except \/ SaveFailed \/ EnterStage
  <2>1. ~Submit => StopInv'
    BY <1>0, <1>1 DEF WorkerStarts, SaveRunning, CheckBeforeStage, CheckBeforeEnd,
       StopCheck, FinishStopped, Settle, Except, SaveFailed, EnterStage
  <2> QED BY <1>0, <2>1 DEF Submit
<1>2. CASE BeginStage
  <2>1. /\ begun = 0 /\ begun' \in {0, 1} /\ (begun' = 1 => run.stop)
        /\ pc["worker"] = "begin" /\ pc'["worker"] = StageWork[at]
        /\ at \in Stages /\ future' = future /\ at' = at
    BY <1>0, <1>2 DEF BeginStage, OutsideStage
  <2>2. StageWork[at] \in {"plan", "reconcile", "analyze", "report"}
    BY <2>1 DEF StageWork, Stages
  <2>3. future # "queued" /\ ~Submit
    BY <2>1, SubmitFacts DEF LifeInv, Coupling
  <2> QED BY <1>0, <2>1, <2>2, <2>3
<1>3. CASE \/ ResumeStage \/ CompleteStage \/ AppendCheckpoint \/ MarkCheckpoint
           \/ Handoff
  <2>1. at \in Stages /\ UNCHANGED <<begun, future>> /\ ~Submit
    BY <1>0, <1>3, SubmitFacts DEF ResumeStage, CompleteStage, AppendCheckpoint,
       MarkCheckpoint, Handoff, OutsideStage
  <2>2. ASSUME begun = 1
        PROVE  /\ pc'["worker"] \in {"checkpoint", "mark", "handoff", "complete", "check"}
               /\ at' = "researching" => pc'["worker"] = "check"
    BY <1>0, <1>3, <2>1, <2>2 DEF ResumeStage, CompleteStage, AppendCheckpoint,
       MarkCheckpoint, Handoff, Proceed, NextStage, Stages
  <2> QED BY <1>0, <2>1, <2>2
<1>4. CASE BuildPlan \/ SaveBoard
  <2>1. at = "planning" /\ at' = at /\ UNCHANGED <<begun, future, run>>
        /\ pc'["worker"] \in {"save_board", "complete", "except"}
    BY <1>0, <1>4 DEF BuildPlan, SaveBoard, ChainInv, WorkPlace
  <2> QED BY <1>0, <2>1
<1>5. CASE ReconcileResearch \/ SubmitResearch \/ PollRun \/ PollResearch \/ RecheckStop
  <2>1. UNCHANGED <<begun, future, run>>
        /\ \/ pc'["worker"] \in {"poll", "submit", "status", "recheck", "except", "stop"}
           \/ pc'["worker"] = "complete" /\ ~run.stop
    BY <1>0, <1>5 DEF ReconcileResearch, SubmitResearch, PollRun, PollResearch,
       RecheckStop
  <2> QED BY <1>0, <2>1
<1>6. CASE AskAnalysis \/ AskReporting \/ \E a \in Actors : ServiceStep(a)
  <2>1. UNCHANGED <<begun, future, run, at>>
    BY <1>6 DEF AskAnalysis, AskReporting, ServiceStep, LockAnalysis, RunAnalyst,
       SaveClaims, RunCitation, LockReporting, WriteReport, SaveStatements,
       EnsureStatements, RunReviewer, RunQualityGate, unchangedByWork
  <2>2. \/ pc'["worker"] = pc["worker"]
        \/ /\ pc["worker"] \in AnalysisPoints \cup ReportingPoints
           /\ pc'["worker"] \in AnalysisPoints \cup ReportingPoints \cup {"handoff", "except"}
    <3>1. CASE AskAnalysis \/ AskReporting
      BY <1>0, <3>1 DEF AskAnalysis, AskReporting, Returns, AnalysisPoints,
         ReportingPoints
    <3>2. CASE \E a \in Actors : ServiceStep(a)
      BY <1>0, <3>2 DEF Actors, ServiceStep, LockAnalysis, RunAnalyst,
         SaveClaims, RunCitation, LockReporting, WriteReport, SaveStatements,
         EnsureStatements, RunReviewer, RunQualityGate, Returns, Raises,
         AnalysisPoints, ReportingPoints, InAnalysis, InReporting
    <3> QED BY <1>6, <3>1, <3>2
  <2>3. pc["worker"] \in AnalysisPoints \cup ReportingPoints => at # "researching"
    BY DEF ChainInv, WorkPlace
  <2> QED BY <2>1, <2>2, <2>3 DEF AnalysisPoints, ReportingPoints, InAnalysis, InReporting
<1>7. CASE Submit
  <2>1. begun' = 0
    BY <1>7 DEF Submit
  <2> QED BY <2>1
<1>8. CASE RequestStop
  BY <1>0, <1>8, StopFacts DEF RequestStop
<1>9. CASE /\ ~Submit
           /\ \/ DirectResearchRequest \/ Status \/ Research \/ Rest \/ UNCHANGED vars
  <2>1. UNCHANGED <<begun, future, pc, at>>
    BY <1>9 DEF DirectResearchRequest, Status, Research, Rest,
       ReconcileInterrupted, ReconcileCompleted, workerVars, vars
  <2> QED BY <1>0, <1>9, <2>1
<1>10. CASE \E service \in {"call_analysis", "call_reporting"} : ManualRequest(service)
  BY <1>0, <1>10 DEF ManualRequest
<1>11. CASE Crash
  BY <1>0, <1>11 DEF Crash
<1> QED
  BY <1>1, <1>2, <1>3, <1>4, <1>5, <1>6, <1>7, <1>8, <1>9, <1>10, <1>11
  DEF Next, Worker, User, Actors

LEMMA OrderInit == Init => OrderInv
<1>1. Init => pc["worker"] = "off" /\ handoffs = <<>> /\ checkpoints = <<>> /\ begun = 0
  BY DEF Init, Actors
<1> QED
  BY <1>1 DEF OrderInv, CheckpointsAreTrue, HandoffInv, HandoffsInOrder, StopInv,
     Made, InStage, WorkPoints

LEMMA OrderNext ==
    LifeInv /\ ServiceInv /\ ChainInv /\ OrderInv /\ [Next]_vars => OrderInv'
BY CheckpointsNext, HandoffNext, StopNext DEF OrderInv

LEMMA ChainAlways == Spec => []ChainInv
BY ChainInit, ChainNext, LifeAlways, ServiceAlways, PTL DEF Spec

LEMMA OrderAlways == Spec => []OrderInv
BY OrderInit, OrderNext, LifeAlways, ServiceAlways, ChainAlways, PTL DEF Spec

(* A checkpoint never claims a stage the saved run has not completed, over *)
(* all crashes and resumes (_complete_stage, _checkpoint).                 *)
THEOREM CheckpointsStayTrue == Spec => []CheckpointsAreTrue
<1>1. OrderInv => CheckpointsAreTrue
  BY DEF OrderInv
<1> QED BY <1>1, OrderAlways, PTL

(* Handoffs are recorded in the order of the pipeline and each of them     *)
(* once, however often stages are entered again (_handoff).                *)
THEOREM HandoffsStayInOrder == Spec => []HandoffsInOrder
<1>1. OrderInv => HandoffsInOrder
  BY DEF OrderInv, HandoffInv
<1> QED BY <1>1, OrderAlways, PTL

(* At most one stage is begun between a stop request and the end of the    *)
(* run, although no save of the worker looks for the request              *)
(* (_stop_if_requested, _begin_stage).                                     *)
THEOREM OneStageBegins == Spec => []OneStageAfterStop
<1>1. OrderInv => OneStageAfterStop
  BY DEF OrderInv, StopInv, OneStageAfterStop
<1> QED BY <1>1, OrderAlways, PTL

-----------------------------------------------------------------------------
(* The research behind the run, when only the pipeline drives it. *)

(* What the coordinator does by itself keeps it active or ends its thread. *)
LEMMA CoordinatorKeeps ==
    ASSUME ResearchTypeOK, ResearchIsLive => ResearchIsActive,
           \/ ResearchStopRequested \/ ResearchReconciled \/ ResearchWorker
           \/ CreateTasks \/ ResearchCrashed \/ ResearchSubmitted
           \/ ResearchRefused \/ UNCHANGED researchVars
    PROVE  /\ ResearchIsLive' => ResearchIsActive'
           /\ ~ResearchSubmitted /\ ResearchIsLive' => ResearchIsLive
<1> USE DEF ResearchIsLive, ResearchIsActive, ResearchActive
<1>1. CASE ResearchStopRequested \/ ResearchReconciled
  BY <1>1 DEF ResearchStopRequested, ResearchReconciled, researchVars
<1>2. CASE ResearchWorker
  BY <1>2 DEF ResearchWorker, ResearchProgress, ResearchPickedUp, ResearchStarts,
     ResearchTaskRun, ResearchGhostFails, ResearchRoundEnds, ResearchFinishes,
     ResearchCollects, ResearchTakesBack, ResearchGoesOn
<1>3. CASE CreateTasks \/ ResearchCrashed \/ ResearchRefused \/ UNCHANGED researchVars
  BY <1>3 DEF CreateTasks, ResearchCrashed, ResearchRefused, researchVars
<1>4. CASE ResearchSubmitted
  BY <1>4 DEF ResearchSubmitted, researchVars
<1> QED BY <1>1, <1>2, <1>3, <1>4

LEMMA ResearchNextInv ==
    ASSUME ~DirectResearch, LifeInv, ResearchInv, [Next]_vars
    PROVE  ResearchInv'
<1> USE DEF Goto, WorkerAt
<1>0. /\ pc \in [Actors -> Points] /\ "worker" \in Actors /\ "manual" \in Actors
      /\ ResearchTypeOK /\ (ResearchIsLive => ResearchIsActive)
      /\ pc["worker"] # "off" => future = "running"
  BY DEF LifeInv, TypeOK, Coupling, Actors, ResearchInv
<1>1. CASE SubmitResearch
  <2>1. ResearchIsLive' => ResearchIsActive'
    BY <1>0, <1>1, CoordinatorKeeps DEF SubmitResearch
  <2>2. CASE pc'["worker"] = "poll"
    BY <2>1, <2>2 DEF ResearchInv
  <2>3. CASE ResearchRefused
    <3>1. ResearchIsLive' => ResearchIsLive
      BY <2>3 DEF ResearchRefused, researchVars, ResearchIsLive
    <3>2. ~ResearchIsLive
      BY <1>1 DEF SubmitResearch, ResearchInv
    <3> QED BY <3>1, <3>2 DEF ResearchInv
  <2> QED BY <1>0, <1>1, <2>2, <2>3 DEF SubmitResearch
<1>2. CASE ReconcileResearch \/ PollRun
  <2>1. /\ ResearchIsLive' => ResearchIsActive'
        /\ ResearchIsLive' => ResearchIsLive
    <3>1. CASE ReconcileResearch
      BY <3>1 DEF ReconcileResearch, ResearchReconciled, researchVars, ResearchInv,
         ResearchIsLive, ResearchIsActive, ResearchActive
    <3>2. CASE PollRun
      BY <3>2 DEF PollRun, ResearchStopRequested, researchVars, ResearchInv,
         ResearchIsLive, ResearchIsActive, ResearchActive
    <3> QED BY <1>2, <3>1, <3>2
  <2>2. PollRun => pc'["worker"] = "status"
    BY <1>0 DEF PollRun
  <2>3. ReconcileResearch => ~ResearchIsLive
    BY DEF ReconcileResearch, ResearchInv
  <2> QED BY <1>2, <2>1, <2>2, <2>3 DEF ResearchInv
<1>3. CASE PollResearch
  BY <1>0, <1>3 DEF PollResearch, ResearchInv, ResearchIsLive, ResearchIsActive,
     ResearchActive, researchVars
<1>4. CASE RequestStop
  <2>1. pc' = pc
    BY <1>4 DEF RequestStop
  <2>2. /\ ResearchIsLive' => ResearchIsActive'
        /\ ResearchIsLive' => ResearchIsLive
    BY <1>0, <1>4 DEF RequestStop, ResearchStopRequested, researchVars,
       ResearchIsLive, ResearchIsActive, ResearchActive
  <2> QED BY <2>1, <2>2 DEF ResearchInv
<1>5. CASE Research
  <2>1. pc' = pc
    BY <1>5 DEF Research, workerVars
  <2>2. /\ ResearchIsLive' => ResearchIsActive'
        /\ ResearchIsLive' => ResearchIsLive
    <3>1. ResearchWorker
      BY <1>5 DEF Research
    <3> QED BY <1>0, <3>1 DEF ResearchWorker, ResearchProgress, ResearchPickedUp,
         ResearchStarts, ResearchTaskRun, ResearchGhostFails, ResearchRoundEnds,
         ResearchFinishes, ResearchCollects, ResearchTakesBack, ResearchGoesOn,
         ResearchIsLive, ResearchIsActive, ResearchActive
  <2> QED BY <2>1, <2>2 DEF ResearchInv
<1>6. CASE Crash
  BY <1>6 DEF Crash, ResearchCrashed, ResearchInv, ResearchIsLive
<1>7. CASE SaveBoard
  BY <1>0, <1>7 DEF SaveBoard, CreateTasks, ResearchInv, ResearchIsLive
<1>8. CASE \/ UNCHANGED researchVars /\ pc["worker"] \notin {"poll", "status"}
           \/ UNCHANGED researchVars /\ pc'["worker"] = pc["worker"]
  BY <1>8 DEF ResearchInv, ResearchIsLive, ResearchIsActive, researchVars
<1>9. CASE \/ WorkerStarts \/ SaveRunning \/ CheckBeforeStage \/ CheckBeforeEnd
           \/ FinishStopped \/ EnterStage \/ BeginStage \/ ResumeStage
           \/ CompleteStage \/ AppendCheckpoint \/ MarkCheckpoint \/ Handoff
           \/ BuildPlan \/ RecheckStop \/ Settle \/ Except \/ SaveFailed
           \/ AskAnalysis \/ AskReporting
  <2>1. UNCHANGED researchVars /\ pc["worker"] \notin {"poll", "status"}
    BY <1>9 DEF WorkerStarts, SaveRunning, CheckBeforeStage, CheckBeforeEnd,
       StopCheck, FinishStopped, EnterStage, BeginStage, ResumeStage,
       CompleteStage, AppendCheckpoint, MarkCheckpoint, Handoff, BuildPlan,
       RecheckStop, Settle, Except, SaveFailed, AskAnalysis, AskReporting,
       unchangedByWork
  <2> QED BY <1>8, <2>1
<1>10. CASE \E a \in Actors : ServiceStep(a)
  <2>1. /\ UNCHANGED researchVars
        /\ pc'["worker"] = pc["worker"] \/ pc["worker"] \notin {"poll", "status"}
    BY <1>0, <1>10 DEF Actors, ServiceStep, LockAnalysis, RunAnalyst, SaveClaims,
       RunCitation, LockReporting, WriteReport, SaveStatements, EnsureStatements,
       RunReviewer, RunQualityGate, Returns, Raises, unchangedByWork,
       InAnalysis, InReporting
  <2> QED BY <1>8, <2>1
<1>11. CASE \/ Submit \/ Status \/ Rest \/ UNCHANGED vars
            \/ \E service \in {"call_analysis", "call_reporting"} : ManualRequest(service)
  <2>1. UNCHANGED researchVars /\ pc'["worker"] = pc["worker"]
    BY <1>0, <1>11 DEF Submit, Status, Rest, ReconcileInterrupted,
       ReconcileCompleted, ManualRequest, workerVars, vars
  <2> QED BY <1>8, <2>1
<1> QED
  BY <1>1, <1>2, <1>3, <1>4, <1>5, <1>6, <1>7, <1>9, <1>10, <1>11
  DEF Next, Worker, User, DirectResearchRequest, Actors

(* When the run has ended, no research thread is queued or running, unless *)
(* the user starts one beside the pipeline (_run_research, request_stop).  *)
THEOREM ResearchEndsWithTheRun ==
    ASSUME ~DirectResearch
    PROVE  Spec => []NoResearchAfterTheEnd
<1>1. Init => ResearchInv
  BY DEF Init, ResearchInit, ResearchInv, ResearchIsLive
<1>2. LifeInv /\ ResearchInv /\ [Next]_vars => ResearchInv'
  BY ResearchNextInv
<1>3. LifeInv /\ ResearchInv => NoResearchAfterTheEnd
  BY DEF LifeInv, Coupling, ResearchInv, NoResearchAfterTheEnd, Active, Terminal
<1> QED BY <1>1, <1>2, <1>3, LifeAlways, PTL DEF Spec

(* The stages, what is recorded of them, a stop and the research behind    *)
(* them keep step, for any number of resumes, crashes and manual requests, *)
(* as long as the research is started by the pipeline (_execute).          *)
THEOREM RunsAreOrderly ==
    ASSUME ~DirectResearch
    PROVE  Spec => []RunIsOrderly
<1>1. TypeOK /\ CheckpointsAreTrue /\ HandoffsInOrder /\ OneStageAfterStop
        /\ NoResearchAfterTheEnd => RunIsOrderly
  BY DEF RunIsOrderly
<1> QED
  BY <1>1, TypeCorrect, CheckpointsStayTrue, HandoffsStayInOrder, OneStageBegins,
     ResearchEndsWithTheRun, PTL
=============================================================================
