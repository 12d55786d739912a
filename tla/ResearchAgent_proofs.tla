------------------------- MODULE ResearchAgent_proofs -------------------------
(***************************************************************************)
(* Theorems about ResearchAgent, for any tasks, URLs, budgets, resumptions *)
(* and crashes: what is cited is stored and traceable, a page is           *)
(* downloaded once (EvidenceIsSound), and the runs, the tasks and the      *)
(* mission tell one story (RunsAreAccounted).                              *)
(***************************************************************************)
EXTENDS ResearchAgent, FiniteSetTheorems, SequenceTheorems, TLAPS

Outcomes == Terminal \cup {"", "FAILED"}
Statuses == {"waiting", "evidence_extracted", "evidence_exhausted", "research_failed"}

RealSource == [url : Urls, asked : Urls, origin : Tasks \cup {"other"}]
AnySource  == RealSource \cup {NoSource}
Attempts ==
    ({"SEARCH"} \X Queries) \cup ({"FETCH"} \X Urls) \cup ({"READ"} \X AnySource)
      \cup ({"SUBMIT"} \X AnySource \X BOOLEAN)

Run == [outcome : Outcomes, steps : Nat, searches : Nat, sources : Nat,
        queries : SUBSET Queries, visited : SUBSET Urls, rejected : SUBSET Urls,
        failed : SUBSET Attempts, verified : SUBSET (Tasks \X RealSource)]
Work == [task : Tasks \cup {"none"}, at : Nat, run : Run, queries : SUBSET Queries,
         visited : SUBSET Urls, src : SUBSET RealSource]
Mission == [queries : SUBSET Queries, visited : SUBSET Urls, sources : SUBSET RealSource,
            verified : SUBSET (Tasks \X RealSource), merged : SUBSET (Tasks \X Nat),
            outcome : [Tasks -> Outcomes]]

(* The worker acts; what it does has come to an end, one way or another.   *)
Acting  == {"deciding", "paging", "saving"}
Failing == {"failing", "failrun", "dropping", "failtask"}
After   == {"settling", "projecting", "merging"} \cup Failing

TaskTypes ==
    /\ status \in [Tasks -> Statuses]
    /\ failure \in [Tasks -> {"none", "transient", "permanent"}]
    /\ requeues \in [Tasks -> 0..MAX_TRANSIENT_TASK_RESUMES]
    /\ runs \in [Tasks -> Seq(Run)]
    /\ tried \subseteq Tasks /\ cut \subseteq Tasks
    /\ coord \in {"none", "running", "completed", "failed"}
    /\ pc \in Acting \cup After \cup {"idle"}
    /\ crashes \in Nat

StoreTypes ==
    /\ sources \subseteq RealSource
    /\ paged \subseteq sources /\ chunked \subseteq paged
    /\ assoc \subseteq Tasks \X sources
    /\ mission \in Mission /\ mission.sources \subseteq sources

WorkTypes == w \in Work /\ w.src \subseteq sources

Types == TaskTypes /\ StoreTypes /\ WorkTypes

InBudget(r) ==
    /\ r.steps <= MaxSteps /\ r.searches <= MaxSearches /\ r.sources <= MaxSources
    /\ IsFiniteSet(r.failed) /\ Cardinality(r.failed) <= MaxFailed

BudgetInv ==
    /\ InBudget(w.run)
    /\ \A t \in Tasks : \A i \in 1..Len(runs[t]) : InBudget(runs[t][i])

EvidenceInv ==
    /\ evidence \subseteq Tasks \X paged
    /\ EvidenceIsTraceable

(* A run of a task cites evidence of the task only, and that is stored; a  *)
(* failed run cites none; one that ended with none says so.                *)
Cites(t, r) == \A e \in r.verified : e \in evidence /\ e[1] = t
IsTrue(r) ==
    /\ r.outcome = "FAILED" => r.verified = {}
    /\ r.outcome \in Terminal /\ r.verified = {} => r.outcome = "EXHAUSTED"

RunsInv ==
    \A t \in Tasks :
       /\ \A i \in 1..Len(runs[t]) : Cites(t, runs[t][i]) /\ IsTrue(runs[t][i])
       /\ \A i \in 1..(Len(runs[t]) - 1) : runs[t][i].outcome = "FAILED"

AllFailed(t) == \A i \in 1..Len(runs[t]) : runs[t][i].outcome = "FAILED"
LastRun(t)  == runs[t][Len(runs[t])]
LastIs(t, outcomes) == Len(runs[t]) > 0 /\ LastRun(t).outcome \in outcomes

(* The worker goes on with the last run of its task, or begins another     *)
(* one after those that failed.                                            *)
GoesOn == w.at = Len(runs[w.task]) /\ LastIs(w.task, {""})
Begins == w.at = Len(runs[w.task]) + 1 /\ AllFailed(w.task)

ActingInv ==
    pc \in Acting =>
       /\ GoesOn \/ Begins
       /\ Cites(w.task, w.run) /\ IsTrue(w.run) /\ w.run.outcome # "FAILED"
       /\ pc # "saving" => w.run.outcome = ""
       /\ w.visited = mission.visited
       /\ pc = "deciding" => \/ Begins /\ w.run = NewRun
                             \/ GoesOn /\ w.run = LastRun(w.task)

(* Once the worker has come to an end, what it has visited is saved, and   *)
(* how its task ended tells where the worker is.                           *)
AfterInv ==
    pc \in After =>
       /\ \/ w.run.visited = {}
          \/ Len(runs[w.task]) > 0 /\ w.run.visited \subseteq LastRun(w.task).visited
       /\ pc = "settling" => LastIs(w.task, Terminal)
       /\ pc \in {"failing", "failrun"} => AllFailed(w.task) \/ LastIs(w.task, {""})
       /\ pc \in {"dropping", "failtask"} => LastIs(w.task, {"FAILED"})
       /\ pc = "failtask" => \A e \in evidence : e[1] # w.task
       /\ pc \in {"projecting", "merging"} => LastIs(w.task, Outcomes \ {""})

WorkerInv ==
    /\ pc = "idle" => w = NoWork
    /\ pc # "idle" => w.task \in Tasks /\ coord = "running"
    /\ pc \notin {"idle", "projecting", "merging"} => status[w.task] = "waiting"
    /\ ActingInv /\ AfterInv

StatusInv ==
    \A t \in Tasks :
       /\ status[t] # "waiting" => Len(runs[t]) > 0
       /\ status[t] = "evidence_extracted" =>
             LastRun(t).outcome \in Terminal /\ LastRun(t).verified # {}
       /\ status[t] = "evidence_exhausted" =>
             LastRun(t).outcome = "EXHAUSTED" /\ LastRun(t).verified = {}
       /\ status[t] = "research_failed" =>
             LastRun(t).outcome = "FAILED" /\ \A e \in evidence : e[1] # t

(* What the mission was told of the last run of a task. *)
Knows(t) ==
    /\ mission.outcome[t] = LastRun(t).outcome
    /\ LastRun(t).verified \subseteq mission.verified

MissionInv ==
    /\ \A m \in mission.merged : m[2] \in 1..Len(runs[m[1]])
    /\ \A t \in Tasks : \A i \in 1..Len(runs[t]) :
          <<t, i>> \in mission.merged =>
             runs[t][i].outcome # "" /\ runs[t][i].visited \subseteq mission.visited
    /\ \A t \in Tasks : <<t, Len(runs[t])>> \in mission.merged => Knows(t)
    /\ \A t \in Tasks \ cut :
          status[t] # "waiting" => Knows(t) \/ (pc \in {"projecting", "merging"} /\ w.task = t)

(* What a page costs beyond one download is paid by the crashes; the one   *)
(* is the mission's or the worker's who has visited the page.              *)
DownloadsInv ==
    /\ downloads \in [Pages(Urls) -> Nat]
    /\ \A p \in Pages(Urls) :
          \/ downloads[p] <= crashes
          \/ downloads[p] <= crashes + 1 /\ p \in Pages(mission.visited \cup w.run.visited)

IInv == /\ Types /\ BudgetInv /\ EvidenceInv /\ RunsInv /\ WorkerInv /\ StatusInv
        /\ MissionInv /\ DownloadsInv

-----------------------------------------------------------------------------
(* What the invariant says. *)

(* The elements of a task's runs are runs, its last one among them. *)
LEMMA RunsAreRuns ==
    ASSUME Types, NEW t \in Tasks
    PROVE  /\ Len(runs[t]) \in Nat
           /\ DOMAIN runs[t] = 1..Len(runs[t])
           /\ runs[t] # <<>> <=> Len(runs[t]) > 0
           /\ \A i \in 1..Len(runs[t]) : runs[t][i] \in Run
           /\ Len(runs[t]) > 0 => Len(runs[t]) \in 1..Len(runs[t]) /\ LastRun(t) \in Run
  <1>1. runs[t] \in Seq(Run)  BY DEF Types, TaskTypes
  <1>2. /\ Len(runs[t]) \in Nat
        /\ DOMAIN runs[t] = 1..Len(runs[t])
        /\ runs[t] # <<>> <=> Len(runs[t]) > 0
        /\ \A i \in 1..Len(runs[t]) : runs[t][i] \in Run
      BY <1>1, LenProperties, ElementOfSeq, EmptySeq
  <1>3. Len(runs[t]) > 0 => Len(runs[t]) \in 1..Len(runs[t])  BY <1>2
  <1> QED  BY <1>2, <1>3 DEF LastRun

(* The invariant says that what is cited is stored. *)
LEMMA InvCited == IInv => RunsCiteStoredEvidence
  <1> SUFFICES ASSUME IInv, NEW r \in UNION {ToSet(runs[t]) : t \in Tasks},
                      NEW e \in r.verified
               PROVE  e \in evidence
      BY DEF RunsCiteStoredEvidence, Cited
  <1>1. PICK t \in Tasks : r \in ToSet(runs[t])  OBVIOUS
  <1>2. PICK i \in 1..Len(runs[t]) : r = runs[t][i]
      BY <1>1, RunsAreRuns DEF ToSet, IInv
  <1> QED  BY <1>2 DEF IInv, RunsInv, Cites

(* The invariant implies both of the checked invariants. *)
LEMMA InvTypeOK == IInv => TypeOK
  <1> SUFFICES ASSUME IInv PROVE TypeOK  OBVIOUS
  <1> USE DEF IInv
  <1>1. ASSUME NEW t \in Tasks, NEW r \in ToSet(runs[t]) \cup {w.run}
        PROVE  r \in Run /\ InBudget(r)
    <2>1. w.run \in Run /\ InBudget(w.run)
        BY DEF Types, WorkTypes, Work, BudgetInv
    <2>2. CASE r \in ToSet(runs[t])
      <3>1. PICK i \in 1..Len(runs[t]) : r = runs[t][i]
          BY <2>2, RunsAreRuns DEF ToSet
      <3> QED  BY <3>1, RunsAreRuns DEF BudgetInv
    <2> QED  BY <2>1, <2>2
  <1>2. \A t \in Tasks : \A r \in ToSet(runs[t]) \cup {w.run} :
          /\ r.steps <= MaxSteps /\ r.searches <= MaxSearches
          /\ r.sources <= MaxSources /\ Cardinality(r.failed) <= MaxFailed
          /\ r.queries \subseteq Queries /\ r.visited \cup r.rejected \subseteq Urls
      BY <1>1 DEF Run, InBudget
  <1>3. \A s \in sources : IsSource(s)
      BY DEF Types, StoreTypes, RealSource, IsSource
  <1> QED  BY <1>2, <1>3 DEF TypeOK, Types, TaskTypes, StoreTypes, Statuses

LEMMA InvSound == IInv => EvidenceIsSound
  <1> SUFFICES ASSUME IInv PROVE EvidenceIsSound  OBVIOUS
  <1>1. DownloadedOnce  
    <2> SUFFICES ASSUME NEW p \in DOMAIN downloads PROVE downloads[p] <= 1 + crashes
        BY DEF DownloadedOnce
    <2>1. p \in Pages(Urls) /\ downloads[p] \in Nat /\ crashes \in Nat
        BY DEF IInv, DownloadsInv, Types, TaskTypes
    <2> QED  BY <2>1 DEF IInv, DownloadsInv
  <1> QED  BY <1>1, InvCited, InvTypeOK DEF EvidenceIsSound, IInv, EvidenceInv

LEMMA InvAccounted == IInv => RunsAreAccounted
  <1> SUFFICES ASSUME IInv PROVE RunsAreAccounted  OBVIOUS
  <1> USE DEF IInv
  <1>1. \A t \in Tasks : Last(runs[t]) = LastRun(t)  BY DEF Last, LastRun
  <1>2. MissionKnowsItsWorkers
      BY <1>1 DEF MissionKnowsItsWorkers, MissionInv, Knows
  <1>3. StatusIsTrue  BY <1>1 DEF StatusIsTrue, StatusInv
  <1>4. InterruptedIsResumed  BY DEF InterruptedIsResumed, RunsInv
  <1>5. EndedIsLeftAlone
    <2> SUFFICES ASSUME pc = "deciding", NEW i \in DOMAIN runs[w.task],
                        runs[w.task][i].outcome \in Terminal
                 PROVE  FALSE
        BY DEF EndedIsLeftAlone, HasEnded
    <2>1. w.task \in Tasks /\ (GoesOn \/ Begins)
        BY DEF WorkerInv, ActingInv, Acting
    <2>2. i \in 1..Len(runs[w.task]) /\ Len(runs[w.task]) \in Nat  BY <2>1, RunsAreRuns
    <2>3. i = Len(runs[w.task]) \/ i \in 1..(Len(runs[w.task]) - 1)  BY <2>2
    <2>4. runs[w.task][i].outcome \in {"", "FAILED"}
        BY <2>1, <2>2, <2>3 DEF RunsInv, GoesOn, Begins, AllFailed, LastIs, LastRun
    <2> QED  BY <2>4 DEF Terminal
  <1> QED  BY <1>2, <1>3, <1>4, <1>5 DEF RunsAreAccounted

-----------------------------------------------------------------------------
(* Initially there is nothing but sources of other missions. *)

(* A new run is a run, within its budget, that cites nothing.              *)
LEMMA NewRunIsRun ==
    /\ NewRun \in Run /\ InBudget(NewRun) /\ NoWork \in Work
    /\ NewRun.outcome = "" /\ NewRun.verified = {} /\ NewRun.visited = {}
    /\ NoWork.run = NewRun /\ NoWork.src = {}
  <1>1. NewRun \in Run  BY DEF NewRun, Run, Outcomes
  <1>2. NewRun.failed = {} /\ IsFiniteSet({}) /\ Cardinality({}) = 0
      BY FS_EmptySet DEF NewRun
  <1>3. InBudget(NewRun)  BY <1>2, AgentAssumption DEF InBudget, NewRun
  <1> QED  BY <1>1, <1>3 DEF NoWork, Work, NewRun

LEMMA InitInv == Init => IInv
  <1> SUFFICES ASSUME Init PROVE IInv  OBVIOUS
  <1>1. /\ \A t \in Tasks : /\ runs[t] = <<>> /\ Len(runs[t]) = 0
                            /\ \A i \in 1..Len(runs[t]) : FALSE
                            /\ \A i \in 1..(Len(runs[t]) - 1) : FALSE
        /\ <<>> \in Seq(Run)
    <2>1. <<>> \in Seq(Run) /\ Len(<<>>) = 0  BY EmptySeq
    <2>2. \A t \in Tasks : runs[t] = <<>>  BY DEF Init
    <2>3. (\A i \in 1..0 : FALSE) /\ (\A i \in 1..(0 - 1) : FALSE)  OBVIOUS
    <2> QED  BY <2>1, <2>2, <2>3
  <1>2. PICK us \in SUBSET Foreign :
           sources = {[url |-> u, asked |-> u, origin |-> "other"] : u \in us}
      BY DEF Init
  <1>3. sources \subseteq RealSource
    <2>1. Foreign \subseteq Urls  BY AgentAssumption
    <2>2. ASSUME NEW u \in Urls
          PROVE  [url |-> u, asked |-> u, origin |-> "other"] \in RealSource
        BY DEF RealSource
    <2> QED  BY <1>2, <2>1, <2>2
  <1>4. TaskTypes
    <2>1. runs \in [Tasks -> Seq(Run)]  BY <1>1 DEF Init
    <2>2. requeues \in [Tasks -> 0..MAX_TRANSIENT_TASK_RESUMES]
      <3>1. MAX_TRANSIENT_TASK_RESUMES \in Nat  BY AgentAssumption
      <3>2. 0 \in 0..MAX_TRANSIENT_TASK_RESUMES  BY <3>1
      <3>3. requeues = [t \in Tasks |-> 0]  BY DEF Init
      <3> QED  BY <3>2, <3>3
    <2> QED  BY <2>1, <2>2 DEF TaskTypes, Init, Statuses
  <1>5. StoreTypes  BY <1>3 DEF StoreTypes, Init, Mission, Outcomes
  <1>6. WorkTypes  BY NewRunIsRun DEF WorkTypes, Init
  <1>7. BudgetInv
    <2>1. w = NoWork  BY DEF Init
    <2> QED  BY <1>1, <2>1, NewRunIsRun DEF BudgetInv
  <1>8. EvidenceInv  BY DEF EvidenceInv, EvidenceIsTraceable, Init
  <1>9. RunsInv  BY <1>1 DEF RunsInv
  <1>10. WorkerInv  BY DEF WorkerInv, ActingInv, AfterInv, Acting, After, Failing, Init
  <1>11. StatusInv  BY DEF StatusInv, Init
  <1>12. MissionInv  BY <1>1 DEF MissionInv, Init
  <1>13. DownloadsInv
    <2>1. downloads = [p \in Pages(Urls) |-> 0] /\ crashes = 0  BY DEF Init
    <2>2. downloads \in [Pages(Urls) -> Nat] /\ \A p \in Pages(Urls) : downloads[p] <= crashes
        BY <2>1
    <2> QED  BY <2>2 DEF DownloadsInv
  <1> QED  BY <1>4, <1>5, <1>6, <1>7, <1>8, <1>9, <1>10, <1>11, <1>12, <1>13 DEF IInv, Types

-----------------------------------------------------------------------------
(* One action of the LLM. *)

(* What an action does to the run without ending it or citing anything:    *)
(* it stays within the budget and forgets nothing.                         *)
Grows(r, r2) ==
    /\ r2 \in Run /\ InBudget(r2)
    /\ r.visited \subseteq r2.visited
    /\ r2.verified = r.verified /\ r2.outcome = r.outcome

(* Every action that the worker may take finds its budget not used up, and *)
(* spends a step of it.                                                    *)
LEMMA StepGrows ==
    ASSUME IInv, pc = "deciding", ~OutOfBudget
    PROVE  /\ w.run \in Run /\ w.run.outcome = ""
           /\ Stepped \in Run /\ InBudget(Stepped) /\ Grows(w.run, Stepped)
           /\ Stepped.visited = w.run.visited /\ Stepped.failed = w.run.failed
           /\ Stepped.sources = w.run.sources /\ Stepped.searches = w.run.searches
           /\ Stepped.rejected = w.run.rejected /\ Stepped.queries = w.run.queries
           /\ IsFiniteSet(w.run.failed) /\ Cardinality(w.run.failed) \in Nat
           /\ Cardinality(w.run.failed) < MaxFailed
  <1>1. w.run \in Run /\ InBudget(w.run)
      BY DEF IInv, Types, WorkTypes, Work, BudgetInv
  <1>2. w.run.outcome = ""  BY DEF IInv, WorkerInv, ActingInv, Acting
  <1>3. Cardinality(w.run.failed) \in Nat
      BY <1>1, FS_CardinalityType DEF InBudget
  <1>4. MaxSteps \in Nat /\ MaxFailed \in Nat  BY AgentAssumption
  <1>5. w.run.steps < MaxSteps /\ Cardinality(w.run.failed) < MaxFailed
      BY <1>1, <1>3, <1>4 DEF OutOfBudget, Run
  <1>6. Stepped \in Run  BY <1>1 DEF Stepped, Run
  <1>7. /\ Stepped.visited = w.run.visited /\ Stepped.failed = w.run.failed
        /\ Stepped.sources = w.run.sources /\ Stepped.searches = w.run.searches
        /\ Stepped.rejected = w.run.rejected /\ Stepped.queries = w.run.queries
        /\ Stepped.verified = w.run.verified /\ Stepped.outcome = w.run.outcome
        /\ w.run.visited \subseteq Stepped.visited /\ Stepped.steps = w.run.steps + 1
      BY <1>1 DEF Stepped, Run
  <1>8. InBudget(Stepped)
      BY <1>1, <1>5, <1>4, <1>7 DEF InBudget, Run
  <1>9. Grows(w.run, Stepped)  BY <1>6, <1>7, <1>8 DEF Grows
  <1> QED  BY <1>1, <1>2, <1>3, <1>5, <1>6, <1>7, <1>8, <1>9 DEF InBudget

(* A failed action is remembered. *)
LEMMA FailedGrows ==
    ASSUME NEW r \in Run, InBudget(r), Cardinality(r.failed) < MaxFailed,
           NEW id \in Attempts
    PROVE  Grows(r, [r EXCEPT !.failed = @ \cup {id}])
  <1> DEFINE r2 == [r EXCEPT !.failed = @ \cup {id}]
  <1>1. r2 \in Run  BY DEF Run
  <1>2. /\ r2.visited = r.visited /\ r2.failed = r.failed \cup {id}
        /\ r2.sources = r.sources /\ r2.searches = r.searches /\ r2.steps = r.steps
        /\ r2.verified = r.verified /\ r2.outcome = r.outcome
      BY DEF Run
  <1>3. IsFiniteSet(r2.failed) /\ Cardinality(r2.failed) <= Cardinality(r.failed) + 1
    <2>1. Cardinality(r.failed) \in Nat  BY FS_CardinalityType DEF InBudget
    <2>2. IsFiniteSet(r.failed)  BY DEF InBudget
    <2>3. /\ IsFiniteSet(r.failed \cup {id})
          /\ \/ Cardinality(r.failed \cup {id}) = Cardinality(r.failed)
             \/ Cardinality(r.failed \cup {id}) = Cardinality(r.failed) + 1
        BY <2>2, FS_AddElement
    <2> HIDE DEF r2
    <2> QED  BY <1>2, <2>1, <2>3
  <1>4. Cardinality(r.failed) \in Nat /\ Cardinality(r2.failed) \in Nat /\ MaxFailed \in Nat
      BY <1>3, AgentAssumption, FS_CardinalityType DEF InBudget
  <1>5. InBudget(r2)  BY <1>2, <1>3, <1>4 DEF InBudget
  <1> QED  BY <1>1, <1>2, <1>5 DEF Grows

(* A query and a URL that is turned down are remembered. *)
LEMMA QueriesGrow ==
    ASSUME NEW r \in Run, InBudget(r), NEW q \in Queries
    PROVE  Grows(r, [r EXCEPT !.queries = @ \cup {q}])
  <1> QED  BY DEF Grows, Run, InBudget

LEMMA RejectedGrows ==
    ASSUME NEW r \in Run, InBudget(r), NEW u \in Urls
    PROVE  Grows(r, [r EXCEPT !.rejected = @ \cup {u}])
  <1> QED  BY DEF Grows, Run, InBudget

LEMMA GrowsTwice ==
    ASSUME NEW r, NEW s, NEW r2, Grows(r, s), Grows(s, r2)
    PROVE  Grows(r, r2)
  <1> QED  BY DEF Grows

(* What every action of the LLM comes to, whether it is rejected, fails or *)
(* is carried out: the worker has more of its run, and there is nothing    *)
(* new but sources, and evidence of its task.                              *)
Acted ==
    /\ pc = "deciding" /\ pc' \in {"paging", "saving"}
    /\ WorkTypes' /\ InBudget(w'.run)
    /\ w'.task = w.task /\ w'.at = w.at /\ w'.visited = w.visited
    /\ Cites(w.task, w.run)' /\ IsTrue(w'.run) /\ w'.run.outcome # "FAILED"
    /\ pc' # "saving" => w'.run.outcome = ""
    /\ StoreTypes' /\ EvidenceInv' /\ DownloadsInv'
    /\ evidence \subseteq evidence'
    /\ \A e \in evidence' : e \in evidence \/ e[1] = w.task
    /\ UNCHANGED <<taskVars, coverage, mission, coord, tried, cut, resumed, crashes>>

Others == <<taskVars, coverage, mission, coord, tried, cut, resumed, crashes>>

(* The types of the worker after an action. *)
LEMMA WorkerTypes ==
    ASSUME IInv, NEW r \in Run, NEW S \in SUBSET RealSource
    PROVE  /\ [w EXCEPT !.run = r] \in Work
           /\ [w EXCEPT !.run = r, !.src = S] \in Work
           /\ [w EXCEPT !.run = r].run = r /\ [w EXCEPT !.run = r].task = w.task
           /\ [w EXCEPT !.run = r].at = w.at /\ [w EXCEPT !.run = r].visited = w.visited
           /\ [w EXCEPT !.run = r].src = w.src
           /\ [w EXCEPT !.run = r, !.src = S].run = r
           /\ [w EXCEPT !.run = r, !.src = S].task = w.task
           /\ [w EXCEPT !.run = r, !.src = S].at = w.at
           /\ [w EXCEPT !.run = r, !.src = S].visited = w.visited
           /\ [w EXCEPT !.run = r, !.src = S].src = S
  <1>1. w \in Work  BY DEF IInv, Types, WorkTypes
  <1> QED  BY <1>1 DEF Work

(* A run that has only grown cites what it did, and has no outcome. *)
LEMMA GrownIsSound ==
    ASSUME IInv, pc = "deciding", NEW r, Grows(w.run, r)
    PROVE  /\ r \in Run /\ InBudget(r) /\ w.run.visited \subseteq r.visited
           /\ r.outcome = "" /\ Cites(w.task, r) /\ IsTrue(r) /\ w.task \in Tasks
  <1> QED  BY DEF IInv, WorkerInv, ActingInv, Acting, Grows, Cites, IsTrue, Terminal

(* An action without any effect but on the run and on what is chunked. *)
LEMMA PlainActs ==
    ASSUME IInv, pc = "deciding", pc' = "saving", NEW r, Grows(w.run, r),
           w' = [w EXCEPT !.run = r], chunked' \subseteq paged,
           UNCHANGED Others, UNCHANGED <<sources, paged, assoc, evidence, downloads>>
    PROVE  Acted
  <1>1. /\ r \in Run /\ InBudget(r) /\ w.run.visited \subseteq r.visited
        /\ r.outcome = "" /\ Cites(w.task, r) /\ IsTrue(r)
      BY GrownIsSound
  <1>2. /\ w' \in Work /\ w'.run = r /\ w'.task = w.task /\ w'.at = w.at
        /\ w'.visited = w.visited /\ w'.src = w.src
    <2>1. {} \in SUBSET RealSource  OBVIOUS
    <2> QED  BY <1>1, <2>1, WorkerTypes
  <1>3. WorkTypes'  BY <1>2 DEF WorkTypes, IInv, Types
  <1>4. Cites(w.task, w.run)'  BY <1>1, <1>2 DEF Cites
  <1>5. StoreTypes'  BY DEF IInv, Types, StoreTypes, Others
  <1>6. EvidenceInv'  BY DEF IInv, EvidenceInv, EvidenceIsTraceable, Readable
  <1>7. DownloadsInv'
    <2>1. /\ UNCHANGED <<crashes, mission, downloads>>
          /\ w.run.visited \subseteq w'.run.visited
        BY <1>1, <1>2 DEF Others
    <2> QED  BY <2>1 DEF IInv, DownloadsInv, Pages
  <1> QED  BY <1>1, <1>2, <1>3, <1>4, <1>5, <1>6, <1>7 DEF Acted, Others

(* FINISH and the end of the budget: the outcome is what was verified.     *)
LEMMA EndingActs ==
    ASSUME IInv, pc = "deciding", pc' = "saving", NEW r \in Run, InBudget(r),
           r.visited = w.run.visited, r.verified = w.run.verified,
           r.outcome \in Terminal, r.verified = {} => r.outcome = "EXHAUSTED",
           w' = [w EXCEPT !.run = r],
           UNCHANGED Others, UNCHANGED <<artifacts, evidence, downloads>>
    PROVE  Acted
  <1>2. /\ w' \in Work /\ w'.run = r /\ w'.task = w.task /\ w'.at = w.at
        /\ w'.visited = w.visited /\ w'.src = w.src
    <2>1. {} \in SUBSET RealSource  OBVIOUS
    <2> QED  BY <2>1, WorkerTypes
  <1>3. WorkTypes'  BY <1>2 DEF WorkTypes, IInv, Types, artifacts
  <1>4. Cites(w.task, w.run)'
      BY <1>2 DEF IInv, WorkerInv, ActingInv, Acting, Cites
  <1>5. StoreTypes'  BY DEF IInv, Types, StoreTypes, Others, artifacts
  <1>6. EvidenceInv'  BY DEF IInv, EvidenceInv, EvidenceIsTraceable, Readable, artifacts
  <1>7. DownloadsInv'
    <2>1. /\ UNCHANGED <<crashes, mission, downloads>>
          /\ w.run.visited = w'.run.visited
        BY <1>2 DEF Others
    <2> QED  BY <2>1 DEF IInv, DownloadsInv
  <1> QED  BY <1>2, <1>3, <1>4, <1>5, <1>6, <1>7 DEF Acted, Others, IsTrue, Terminal

LEMMA FinishActs == ASSUME IInv, FinishAction PROVE Acted
  <1>1. PICK claimed \in Terminal :
           w' = [w EXCEPT !.run = [Stepped EXCEPT !.outcome = Outcome(claimed)]]
      BY DEF FinishAction
  <1> DEFINE r == [Stepped EXCEPT !.outcome = Outcome(claimed)]
  <1>2. pc = "deciding" /\ ~OutOfBudget /\ pc' = "saving"
      BY DEF FinishAction, Decides
  <1>3. /\ Stepped \in Run /\ InBudget(Stepped) /\ Stepped.visited = w.run.visited
        /\ Stepped.verified = w.run.verified
      BY <1>2, StepGrows DEF Grows
  <1>4. /\ Outcome(claimed) \in Terminal
        /\ w.run.verified = {} => Outcome(claimed) = "EXHAUSTED"
      BY DEF Outcome, Terminal
  <1>5. /\ r \in Run /\ r.visited = w.run.visited /\ r.verified = w.run.verified
        /\ r.outcome = Outcome(claimed) /\ InBudget(r)
      BY <1>3, <1>4 DEF Run, Outcomes, InBudget
  <1>6. UNCHANGED Others /\ UNCHANGED <<artifacts, evidence, downloads>>
      BY DEF FinishAction, Decides, Others
  <1> HIDE DEF r
  <1> QED  BY <1>1, <1>2, <1>4, <1>5, <1>6, EndingActs DEF r

LEMMA BudgetActs == ASSUME IInv, BudgetOutcome PROVE Acted
  <1> DEFINE o == IF w.run.verified # {} THEN "PARTIAL" ELSE "EXHAUSTED"
             r == [w.run EXCEPT !.outcome = o]
  <1>1. w.run \in Run /\ InBudget(w.run)
      BY DEF IInv, Types, WorkTypes, Work, BudgetInv
  <1>2. /\ r \in Run /\ r.visited = w.run.visited /\ r.verified = w.run.verified
        /\ r.outcome = o /\ InBudget(r)
      BY <1>1 DEF Run, Outcomes, Terminal, InBudget
  <1>3. w' = [w EXCEPT !.run = r]
    <2>1. w \in Work  BY DEF IInv, Types, WorkTypes
    <2> QED  BY <2>1 DEF BudgetOutcome, Work
  <1>4. /\ pc = "deciding" /\ pc' = "saving"
        /\ UNCHANGED Others /\ UNCHANGED <<artifacts, evidence, downloads>>
      BY DEF BudgetOutcome, Others, history
  <1>5. o \in Terminal /\ (w.run.verified = {} => o = "EXHAUSTED")  BY DEF Terminal
  <1> HIDE DEF r, o
  <1> QED  BY <1>2, <1>3, <1>4, <1>5, EndingActs

LEMMA InvalidActs == ASSUME IInv, InvalidAction PROVE Acted
  <1>1. /\ pc = "deciding" /\ ~OutOfBudget /\ pc' = "saving" /\ w' = Rejected
        /\ UNCHANGED Others /\ UNCHANGED <<artifacts, evidence, downloads>>
      BY DEF InvalidAction, Decides, Others
  <1>2. Grows(w.run, Stepped)  BY <1>1, StepGrows
  <1>3. chunked' \subseteq paged  BY <1>1 DEF IInv, Types, StoreTypes, artifacts
  <1> QED  BY <1>1, <1>2, <1>3, PlainActs DEF Rejected, artifacts

LEMMA SearchActs ==
    ASSUME IInv, NEW q \in Queries, NEW wide \in BOOLEAN, Search(q, wide)
    PROVE  Acted
  <1> DEFINE id == <<"SEARCH", q>>
             asked == [Stepped EXCEPT !.queries = @ \cup {q}]
  <1>1. /\ pc = "deciding" /\ ~OutOfBudget /\ pc' = "saving" /\ UNCHANGED Others
        /\ UNCHANGED <<sources, paged, chunked, assoc, evidence, downloads>>
      BY DEF Search, Decides, Others
  <1>2. chunked' \subseteq paged  BY <1>1 DEF IInv, Types, StoreTypes
  <1>3. Grows(w.run, Stepped) /\ Stepped \in Run /\ InBudget(Stepped)
      BY <1>1, StepGrows
  <1>4. Grows(Stepped, asked)  BY <1>3, QueriesGrow
  <1>5. /\ asked \in Run /\ InBudget(asked) /\ asked.searches = w.run.searches
        /\ Cardinality(asked.failed) < MaxFailed
    <2>1. asked.failed = w.run.failed /\ asked.searches = w.run.searches
        BY <1>1, <1>3, StepGrows DEF Run
    <2> QED  BY <1>1, <1>4, <2>1, StepGrows DEF Grows
  <1>6. CASE w' = Rejected
      BY <1>1, <1>2, <1>3, <1>6, PlainActs DEF Rejected
  <1>7. CASE w' = [w EXCEPT !.run = [asked EXCEPT !.failed = @ \cup {id}]]
    <2> DEFINE r == [asked EXCEPT !.failed = @ \cup {id}]
    <2>1. id \in Attempts  BY DEF Attempts
    <2> HIDE DEF asked, id
    <2>2. Grows(asked, r)  BY <1>5, <2>1, FailedGrows
    <2>3. Grows(w.run, r)  BY <1>3, <1>4, <2>2, GrowsTwice
    <2> HIDE DEF r
    <2> QED  BY <1>1, <1>2, <1>7, <2>3, PlainActs DEF r
  <1>8. CASE /\ w' = [w EXCEPT !.run = [asked EXCEPT !.searches = @ + 1]]
             /\ ~(w.run.searches >= MaxSearches)
    <2> DEFINE r == [asked EXCEPT !.searches = @ + 1]
    <2> HIDE DEF asked
    <2>1. MaxSearches \in Nat /\ asked.searches \in Nat
        BY <1>5, AgentAssumption DEF Run
    <2>2. r \in Run /\ InBudget(r) /\ asked.visited \subseteq r.visited
          /\ r.verified = asked.verified /\ r.outcome = asked.outcome
        BY <1>5, <1>8, <2>1 DEF Run, InBudget
    <2>3. Grows(asked, r)  BY <2>2 DEF Grows
    <2>4. Grows(w.run, r)  BY <1>3, <1>4, <2>3, GrowsTwice
    <2> HIDE DEF r
    <2> QED  BY <1>1, <1>2, <1>8, <2>4, PlainActs DEF r
  <1> QED  BY <1>6, <1>7, <1>8 DEF Search

(* An action that fails. *)
LEMMA FailureActs ==
    ASSUME IInv, pc = "deciding", ~OutOfBudget, pc' = "saving", NEW id \in Attempts,
           w' = FailedBy(id), chunked' \subseteq paged,
           UNCHANGED Others, UNCHANGED <<sources, paged, assoc, evidence, downloads>>
    PROVE  Acted
  <1> DEFINE r == [Stepped EXCEPT !.failed = @ \cup {id}]
  <1>1. /\ Grows(w.run, Stepped) /\ Stepped \in Run /\ InBudget(Stepped)
        /\ Cardinality(Stepped.failed) < MaxFailed
      BY StepGrows
  <1>2. Grows(Stepped, r)  BY <1>1, FailedGrows
  <1>3. Grows(w.run, r)  BY <1>1, <1>2, GrowsTwice
  <1> HIDE DEF r
  <1> QED  BY <1>3, PlainActs DEF FailedBy, r

LEMMA ReadActs ==
    ASSUME IInv, NEW s \in sources \cup {NoSource}, Read(s)
    PROVE  Acted
  <1>1. /\ pc = "deciding" /\ ~OutOfBudget /\ pc' = "saving" /\ UNCHANGED Others
        /\ UNCHANGED <<sources, paged, assoc, evidence, downloads>>
      BY DEF Read, Decides, Others
  <1>2. Grows(w.run, Stepped)  BY <1>1, StepGrows
  <1>3. chunked \subseteq paged  BY DEF IInv, Types, StoreTypes
  <1>4. <<"READ", s>> \in Attempts
      BY DEF IInv, Types, StoreTypes, Attempts, AnySource
  <1>5. CASE w' = Rejected /\ UNCHANGED chunked
      BY <1>1, <1>2, <1>3, <1>5, PlainActs DEF Rejected
  <1>6. CASE w' = FailedBy(<<"READ", s>>) /\ UNCHANGED chunked
      BY <1>1, <1>3, <1>4, <1>6, FailureActs
  <1>7. CASE w' = [w EXCEPT !.run = Stepped] /\ chunked' = chunked \cup {s} /\ s \in paged
      BY <1>1, <1>2, <1>3, <1>7, PlainActs
  <1> QED  BY <1>5, <1>6, <1>7 DEF Read

LEMMA SubmitActs ==
    ASSUME IInv, NEW s \in sources, NEW verbatim \in BOOLEAN, SubmitEvidence(s, verbatim)
    PROVE  Acted
  <1> DEFINE id == <<"SUBMIT", s, verbatim>>
             e == <<w.task, s>>
             r == [Stepped EXCEPT !.verified = @ \cup {e}]
  <1>1. /\ pc = "deciding" /\ ~OutOfBudget /\ pc' = "saving" /\ UNCHANGED Others
        /\ UNCHANGED <<artifacts, downloads>>
      BY DEF SubmitEvidence, Decides, Others
  <1>2. Grows(w.run, Stepped) /\ Stepped \in Run /\ InBudget(Stepped)
      BY <1>1, StepGrows
  <1>3. chunked' \subseteq paged  BY <1>1 DEF IInv, Types, StoreTypes, artifacts
  <1>4. id \in Attempts  BY DEF IInv, Types, StoreTypes, Attempts, AnySource
  <1>5. CASE w' = Rejected /\ UNCHANGED evidence
      BY <1>1, <1>2, <1>3, <1>5, PlainActs DEF Rejected, artifacts
  <1>6. CASE w' = FailedBy(id) /\ UNCHANGED evidence
      BY <1>1, <1>3, <1>4, <1>6, FailureActs DEF artifacts
  <1>7. CASE /\ evidence' = evidence \cup {e} /\ w' = [w EXCEPT !.run = r]
             /\ Verifiable(s)
    <2>1. /\ Stepped.outcome = "" /\ Cites(w.task, Stepped) /\ w.task \in Tasks
          /\ w.run.visited \subseteq Stepped.visited
        BY <1>1, <1>2, GrownIsSound
    <2>2. s \in paged /\ Readable(w.task, s) /\ s \in RealSource
        BY <1>7 DEF Verifiable, IInv, Types, StoreTypes
    <2>11. e \in Tasks \X RealSource /\ e[1] = w.task /\ e[2] = s  BY <2>1, <2>2
    <2> HIDE DEF e
    <2>3. /\ r \in Run /\ r.outcome = "" /\ r.visited = Stepped.visited
          /\ r.verified = Stepped.verified \cup {e} /\ InBudget(r)
        BY <1>2, <2>1, <2>11 DEF Run, InBudget
    <2>4. /\ w' \in Work /\ w'.run = r /\ w'.task = w.task /\ w'.at = w.at
          /\ w'.visited = w.visited /\ w'.src = w.src
      <3>1. {} \in SUBSET RealSource  OBVIOUS
      <3> HIDE DEF r
      <3> QED  BY <1>7, <2>3, <3>1, WorkerTypes
    <2> HIDE DEF r
    <2>5. WorkTypes'  BY <1>1, <2>4 DEF WorkTypes, IInv, Types, artifacts
    <2>6. Cites(w.task, w.run)'  BY <1>7, <2>1, <2>3, <2>4, <2>11 DEF Cites
    <2>7. StoreTypes'  BY <1>1 DEF IInv, Types, StoreTypes, Others, artifacts
    <2>8. EvidenceInv'
      <3>1. e \in Tasks \X paged  BY <2>1, <2>2 DEF e
      <3>2. \A f \in evidence' : f \in evidence \/ f = e  BY <1>7
      <3>3. UNCHANGED <<paged, assoc>>  BY <1>1 DEF artifacts
      <3> QED  BY <2>2, <2>11, <3>1, <3>2, <3>3
               DEF IInv, EvidenceInv, EvidenceIsTraceable, Readable
    <2>9. DownloadsInv'
      <3>1. /\ UNCHANGED <<crashes, mission, downloads>>
            /\ w.run.visited \subseteq w'.run.visited
          BY <1>1, <2>1, <2>3, <2>4 DEF Others
      <3> QED  BY <3>1 DEF IInv, DownloadsInv, Pages
    <2>10. IsTrue(w'.run)  BY <2>3, <2>4 DEF IsTrue, Terminal
    <2>12. evidence \subseteq evidence' /\ \A f \in evidence' : f \in evidence \/ f[1] = w.task
        BY <1>7, <2>11
    <2> QED  BY <1>1, <2>3, <2>4, <2>5, <2>6, <2>7, <2>8, <2>9, <2>10, <2>12 DEF Acted, Others
  <1> QED  BY <1>5, <1>6, <1>7 DEF SubmitEvidence

(* FETCH of a URL that was turned down or cannot be had. *)
LEMMA NoFetchActs ==
    ASSUME IInv, pc = "deciding", ~OutOfBudget, pc' = "saving", NEW u \in Urls,
           \/ w' = [w EXCEPT !.run = [Stepped EXCEPT !.rejected = @ \cup {u}]]
           \/ FetchFails(u),
           UNCHANGED Others, UNCHANGED <<artifacts, evidence, downloads>>
    PROVE  Acted
  <1>1. /\ Grows(w.run, Stepped) /\ Stepped \in Run /\ InBudget(Stepped)
        /\ Cardinality(Stepped.failed) < MaxFailed
      BY StepGrows
  <1>2. chunked' \subseteq paged  BY DEF IInv, Types, StoreTypes, artifacts
  <1>3. CASE w' = [w EXCEPT !.run = [Stepped EXCEPT !.rejected = @ \cup {u}]]
    <2> DEFINE r == [Stepped EXCEPT !.rejected = @ \cup {u}]
    <2>1. Grows(Stepped, r)  BY <1>1, RejectedGrows
    <2>2. Grows(w.run, r)  BY <1>1, <2>1, GrowsTwice
    <2> HIDE DEF r
    <2> QED  BY <1>2, <1>3, <2>2, PlainActs DEF r, artifacts
  <1>4. CASE FetchFails(u)
    <2> DEFINE r1 == [Stepped EXCEPT !.failed = @ \cup {<<"FETCH", u>>}]
               r2 == [r1 EXCEPT !.rejected = @ \cup {u}]
    <2>1. <<"FETCH", u>> \in Attempts  BY DEF Attempts
    <2>2. Grows(Stepped, r1)  BY <1>1, <2>1, FailedGrows
    <2>3. Grows(r1, r2)
      <3> HIDE DEF r1
      <3>1. r1 \in Run /\ InBudget(r1)  BY <2>2 DEF Grows
      <3> QED  BY <3>1, RejectedGrows
    <2>4. Grows(w.run, r2)
      <3> HIDE DEF r1, r2
      <3> QED  BY <1>1, <2>2, <2>3, GrowsTwice
    <2>5. r2 = [Stepped EXCEPT !.failed = @ \cup {<<"FETCH", u>>},
                               !.rejected = @ \cup {u}]
        BY <1>1 DEF Run
    <2>6. w' = [w EXCEPT !.run = r2]  BY <1>4, <2>5 DEF FetchFails
    <2> HIDE DEF r2
    <2> QED  BY <1>2, <2>4, <2>6, PlainActs DEF artifacts
  <1> QED  BY <1>3, <1>4

(* The run has one more URL that it visited, and n more sources. *)
LEMMA VisitedGrows ==
    ASSUME IInv, pc = "deciding", ~OutOfBudget, NEW u \in Urls, NEW n \in {0, 1},
           w.run.sources + n <= MaxSources
    PROVE  /\ Visited(u, n) \in Work /\ Visited(u, n).task = w.task
           /\ Visited(u, n).at = w.at /\ Visited(u, n).visited = w.visited
           /\ Visited(u, n).src = w.src
           /\ Grows(w.run, Visited(u, n).run)
           /\ Visited(u, n).run.visited = w.run.visited \cup {u}
  <1> DEFINE r == [Stepped EXCEPT !.visited = @ \cup {u}, !.sources = @ + n]
  <1>1. /\ Grows(w.run, Stepped) /\ Stepped \in Run /\ InBudget(Stepped)
        /\ Stepped.visited = w.run.visited /\ Stepped.sources = w.run.sources
      BY StepGrows
  <1>2. /\ r \in Run /\ r.visited = Stepped.visited \cup {u}
        /\ r.sources = Stepped.sources + n /\ r.steps = Stepped.steps
        /\ r.searches = Stepped.searches /\ r.failed = Stepped.failed
        /\ r.verified = Stepped.verified /\ r.outcome = Stepped.outcome
    <2>1. Stepped.sources + n \in Nat  BY <1>1 DEF Run
    <2>2. Stepped.visited \cup {u} \in SUBSET Urls  BY <1>1 DEF Run
    <2> DEFINE m == Stepped.sources + n
               us == Stepped.visited \cup {u}
    <2>3. r = [Stepped EXCEPT !.visited = us, !.sources = m]  OBVIOUS
    <2> HIDE DEF r, m, us
    <2>4. r \in Run  BY <1>1, <2>1, <2>2, <2>3 DEF Run, m, us
    <2>5. r.sources = m /\ r.visited = us  BY <1>1, <2>3 DEF Run
    <2>6. /\ r.steps = Stepped.steps
          /\ r.searches = Stepped.searches /\ r.failed = Stepped.failed
          /\ r.verified = Stepped.verified /\ r.outcome = Stepped.outcome
        BY <1>1, <2>3 DEF Run
    <2> QED  BY <2>4, <2>5, <2>6 DEF m, us
  <1> HIDE DEF r
  <1>3. InBudget(r)  BY <1>1, <1>2 DEF InBudget
  <1>4. Grows(w.run, r)  BY <1>1, <1>2, <1>3 DEF Grows
  <1>5. Visited(u, n) = [w EXCEPT !.run = r]  BY DEF Visited, r
  <1>6. {} \in SUBSET RealSource  OBVIOUS
  <1>7. /\ Visited(u, n) \in Work /\ Visited(u, n).task = w.task
        /\ Visited(u, n).at = w.at /\ Visited(u, n).visited = w.visited
        /\ Visited(u, n).src = w.src /\ Visited(u, n).run = r
    <2> DEFINE w2 == [w EXCEPT !.run = r]
    <2>1. /\ w2 \in Work /\ w2.task = w.task /\ w2.at = w.at /\ w2.visited = w.visited
          /\ w2.src = w.src /\ w2.run = r
        BY <1>2, <1>6, WorkerTypes
    <2> HIDE DEF w2
    <2>2. Visited(u, n) = w2  BY <1>5 DEF w2
    <2> QED  BY <2>1, <2>2
  <1> QED  BY <1>1, <1>2, <1>4, <1>7

(* FETCH of a page that is known. *)
LEMMA ReuseActs ==
    ASSUME IInv, pc = "deciding", ~OutOfBudget, NEW u \in Urls, NEW s \in sources,
           Reuse(s, u), UNCHANGED Others, UNCHANGED evidence
    PROVE  Acted
  <1>1. w.run \in Run /\ InBudget(w.run) /\ w.task \in Tasks
      BY DEF IInv, Types, WorkTypes, Work, BudgetInv, WorkerInv
  <1>2. w.run.sources + 0 <= MaxSources  BY <1>1 DEF InBudget, Run
  <1>3. /\ w' \in Work /\ w'.task = w.task /\ w'.at = w.at /\ w'.visited = w.visited
        /\ w'.src = w.src /\ Grows(w.run, w'.run)
        /\ w'.run.visited = w.run.visited \cup {u}
      BY <1>2, VisitedGrows DEF Reuse
  <1>4. /\ InBudget(w'.run) /\ w'.run.outcome = "" /\ Cites(w.task, w'.run)
        /\ IsTrue(w'.run)
      BY <1>3, GrownIsSound
  <1>5. /\ assoc \subseteq assoc' /\ assoc' \subseteq assoc \cup {<<w.task, s>>}
        /\ UNCHANGED <<sources, paged, chunked, downloads>> /\ pc' = "saving"
      BY DEF Reuse, Associated
  <1>6. <<w.task, s>> \in Tasks \X sources  BY <1>1
  <1>7. WorkTypes'  BY <1>3, <1>5 DEF WorkTypes, IInv, Types
  <1>8. Cites(w.task, w.run)'  BY <1>3, <1>4 DEF Cites
  <1>9. StoreTypes'  BY <1>5, <1>6 DEF IInv, Types, StoreTypes, Others
  <1>10. EvidenceInv'
      BY <1>5 DEF IInv, EvidenceInv, EvidenceIsTraceable, Readable
  <1>11. DownloadsInv'
    <2>1. UNCHANGED <<crashes, mission, downloads>> /\ w.run.visited \subseteq w'.run.visited
        BY <1>3, <1>5 DEF Others
    <2> QED  BY <2>1 DEF IInv, DownloadsInv, Pages
  <1> QED  BY <1>3, <1>4, <1>5, <1>7, <1>8, <1>9, <1>10, <1>11 DEF Acted, Others

(* FETCH of a page that neither the mission nor the worker has visited:    *)
(* its only download, but for those of workers that died.                  *)
LEMMA NewSourceActs ==
    ASSUME IInv, pc = "deciding", ~OutOfBudget, NEW u \in Urls, ~Blocked(u),
           w.run.sources < MaxSources, NEW s \in RealSource, s.origin = w.task,
           PageOf[s.asked] = PageOf[u],
           NewSource(s, u), pc' = "paging", UNCHANGED Others, UNCHANGED evidence
    PROVE  Acted
  <1>1. w.run \in Run /\ w.task \in Tasks /\ MaxSources \in Nat
      BY AgentAssumption DEF IInv, Types, WorkTypes, Work, WorkerInv
  <1>2. w.run.sources + 1 <= MaxSources  BY <1>1 DEF Run
  <1> DEFINE v == Visited(u, 1)
  <1>3. /\ v \in Work /\ v.task = w.task /\ v.at = w.at /\ v.visited = w.visited
        /\ Grows(w.run, v.run) /\ v.run.visited = w.run.visited \cup {u}
      BY <1>2, VisitedGrows
  <1>4. /\ InBudget(v.run) /\ v.run.outcome = "" /\ Cites(w.task, v.run)
        /\ IsTrue(v.run)
      BY <1>3, GrownIsSound
  <1>5. /\ w' = [v EXCEPT !.src = {s}] /\ sources' = sources \cup {s}
        /\ downloads' = [downloads EXCEPT ![PageOf[s.asked]] = @ + 1]
        /\ UNCHANGED <<paged, chunked, assoc>>
      BY DEF NewSource
  <1> HIDE DEF v
  <1>6. /\ w' \in Work /\ w'.task = w.task /\ w'.at = w.at /\ w'.visited = w.visited
        /\ w'.run = v.run /\ w'.src = {s}
      BY <1>3, <1>5 DEF Work
  <1>7. WorkTypes'  BY <1>5, <1>6 DEF WorkTypes
  <1>8. Cites(w.task, w.run)'  BY <1>4, <1>6 DEF Cites
  <1>9. StoreTypes'  BY <1>5 DEF IInv, Types, StoreTypes, Others
  <1>10. EvidenceInv'
      BY <1>5 DEF IInv, EvidenceInv, EvidenceIsTraceable, Readable
  <1>11. DownloadsInv'
    <2>1. UNCHANGED <<crashes, mission>> /\ w'.run.visited = w.run.visited \cup {u}
        BY <1>3, <1>6 DEF Others
    <2>2. PageOf[u] \in Pages(Urls) /\ PageOf[u] \in Pages(w'.run.visited)
        BY <2>1 DEF Pages
    <2>3. PageOf[u] \notin Pages(mission.visited \cup w.run.visited)
      <3>1. w.visited = mission.visited  BY DEF IInv, WorkerInv, ActingInv, Acting
      <3> QED  BY <3>1 DEF Blocked, Pages
    <2>4. downloads \in [Pages(Urls) -> Nat] /\ crashes \in Nat
        BY DEF IInv, DownloadsInv, Types, TaskTypes
    <2>5. downloads[PageOf[u]] <= crashes  BY <2>2, <2>3 DEF IInv, DownloadsInv
    <2>6. downloads' = [downloads EXCEPT ![PageOf[u]] = downloads[PageOf[u]] + 1]
        BY <1>5
    <2>7. downloads' \in [Pages(Urls) -> Nat]  BY <2>2, <2>4, <2>6
    <2>8. ASSUME NEW p \in Pages(Urls)
          PROVE  \/ downloads'[p] <= crashes'
                 \/ /\ downloads'[p] <= crashes' + 1
                    /\ p \in Pages(mission.visited \cup w.run.visited)'
      <3>1. CASE p = PageOf[u]
        <4>1. downloads'[p] = downloads[p] + 1  BY <2>2, <2>4, <2>6, <3>1
        <4>2. downloads[p] \in Nat  BY <2>4
        <4>3. downloads'[p] <= crashes' + 1  BY <2>1, <2>4, <2>5, <3>1, <4>1, <4>2
        <4>4. p \in Pages(mission.visited \cup w.run.visited)'
            BY <2>2, <3>1 DEF Pages
        <4> QED  BY <4>3, <4>4
      <3>2. CASE p # PageOf[u]
        <4>1. downloads'[p] = downloads[p]  BY <2>4, <2>6, <3>2
        <4>2. \/ downloads[p] <= crashes
              \/ downloads[p] <= crashes + 1 /\ p \in Pages(mission.visited \cup w.run.visited)
            BY DEF IInv, DownloadsInv
        <4> QED  BY <2>1, <4>1, <4>2 DEF Pages
      <3> QED  BY <3>1, <3>2
    <2> QED  BY <2>7, <2>8 DEF DownloadsInv
  <1> QED  BY <1>4, <1>5, <1>6, <1>7, <1>8, <1>9, <1>10, <1>11 DEF Acted, Others

LEMMA FetchActs == ASSUME IInv, NEW u \in Urls, Fetch(u) PROVE Acted
  <1>1. /\ pc = "deciding" /\ ~OutOfBudget /\ UNCHANGED Others
        /\ UNCHANGED <<candidates, evidence>>
      BY DEF Fetch, Others
  <1>2. sources \subseteq RealSource /\ w.task \in Tasks /\ w.run \in Run
      BY <1>1 DEF IInv, Types, StoreTypes, WorkTypes, Work, WorkerInv
  <1>3. CASE /\ \/ w' = [w EXCEPT !.run = [Stepped EXCEPT !.rejected = @ \cup {u}]]
                \/ FetchFails(u)
             /\ pc' = "saving"
             /\ UNCHANGED <<sources, paged, chunked, assoc, downloads>>
      BY <1>1, <1>3, NoFetchActs DEF artifacts
  <1>4. ASSUME NEW s \in sources, Reuse(s, u) PROVE Acted
      BY <1>1, <1>4, ReuseActs
  <1>5. ASSUME ~Blocked(u), ~(w.run.sources >= MaxSources), NEW s \in RealSource,
               s.origin = w.task, PageOf[s.asked] = PageOf[u], NewSource(s, u),
               pc' = "paging"
        PROVE  Acted
    <2>1. w.run.sources < MaxSources  BY <1>2, <1>5, AgentAssumption DEF Run
    <2> QED  BY <1>1, <1>5, <2>1, NewSourceActs
  <1>6. CASE ~Blocked(u) /\ ~(w.run.sources >= MaxSources) /\ FetchNative(u)
    <2>1. PICK c \in Candidate(u) :
             /\ NewSource([url |-> c, asked |-> c, origin |-> w.task], u)
             /\ pc' = "paging"
        BY <1>6 DEF FetchNative
    <2>2. c \in Urls /\ PageOf[c] = PageOf[u]
        BY DEF Candidate, Selected
    <2> DEFINE s == [url |-> c, asked |-> c, origin |-> w.task]
    <2>3. s \in RealSource /\ s.origin = w.task /\ PageOf[s.asked] = PageOf[u]
        BY <1>2, <2>2 DEF RealSource
    <2> HIDE DEF s
    <2> QED  BY <1>5, <1>6, <2>1, <2>3 DEF s
  <1>7. CASE ~Blocked(u) /\ ~(w.run.sources >= MaxSources) /\ FetchWeb(u)
    <2>1. Known(u) \subseteq sources  BY DEF Known
    <2>2. CASE Known(u) # {}
        BY <1>4, <1>7, <2>1, <2>2 DEF FetchWeb
    <2>3. CASE FetchFails(u) /\ pc' = "saving"
               /\ UNCHANGED <<sources, paged, chunked, assoc, downloads>>
        BY <1>3, <2>3
    <2>4. ASSUME NEW final \in {v \in Urls : PageOf[v] = PageOf[u]},
                 IF Known(final) # {} THEN \E s \in Known(final) : Reuse(s, u)
                 ELSE /\ NewSource([url |-> final, asked |-> u, origin |-> w.task], u)
                      /\ pc' = "paging"
          PROVE  Acted
      <3>1. Known(final) \subseteq sources  BY DEF Known
      <3>2. CASE Known(final) # {}  BY <1>4, <2>4, <3>1, <3>2
      <3>3. CASE Known(final) = {}
        <4> DEFINE s == [url |-> final, asked |-> u, origin |-> w.task]
        <4>1. s \in RealSource /\ s.origin = w.task /\ PageOf[s.asked] = PageOf[u]
            BY <1>2 DEF RealSource
        <4>2. NewSource(s, u) /\ pc' = "paging"  BY <2>4, <3>3
        <4> HIDE DEF s
        <4> QED  BY <1>5, <1>7, <4>1, <4>2
      <3> QED  BY <3>2, <3>3
    <2> QED  BY <1>7, <2>2, <2>3, <2>4 DEF FetchWeb
  <1> QED  BY <1>3, <1>6, <1>7 DEF Fetch

-----------------------------------------------------------------------------
(* The steps preserve the invariant. *)

(* The parts of the invariant about what is saved hold as long as the      *)
(* runs stay and evidence is only added for tasks that are still waiting.  *)
LEMMA SavedStays ==
    ASSUME IInv, UNCHANGED runs, evidence \subseteq evidence'
    PROVE  RunsInv'
  <1> QED  BY DEF IInv, RunsInv, Cites, IsTrue

LEMMA ActedStep == ASSUME IInv, Acted PROVE IInv'
  <1> USE DEF IInv
  <1>1. /\ UNCHANGED <<status, failure, requeues, runs, mission, coord, tried, cut, crashes>>
        /\ w.task \in Tasks /\ status[w.task] = "waiting" /\ w'.task = w.task
        /\ w'.at = w.at /\ pc' \in {"paging", "saving"} /\ coord = "running"
      BY DEF Acted, taskVars, WorkerInv, Acting
  <1>2. Types'
    <2>1. TaskTypes'  BY <1>1 DEF Types, TaskTypes, Acting
    <2> QED  BY <2>1 DEF Acted, Types
  <1>3. BudgetInv'  BY <1>1 DEF Acted, BudgetInv, InBudget
  <1>4. EvidenceInv' /\ DownloadsInv'  BY DEF Acted
  <1>5. RunsInv'  BY <1>1, SavedStays DEF Acted
  <1>6. WorkerInv'
    <2>1. GoesOn' \/ Begins'
      <3>1. GoesOn \/ Begins  BY DEF Acted, WorkerInv, ActingInv, Acting
      <3> QED  BY <1>1, <3>1 DEF GoesOn, Begins, LastIs, LastRun, AllFailed
    <2>2. ActingInv'
      <3>1. w'.visited = mission'.visited
          BY <1>1 DEF Acted, WorkerInv, ActingInv, Acting
      <3> QED  BY <1>1, <2>1, <3>1 DEF Acted, ActingInv
    <2>3. AfterInv'  BY <1>1 DEF AfterInv, After, Failing
    <2> QED  BY <1>1, <2>2, <2>3 DEF WorkerInv
  <1>7. StatusInv'
    <2>1. \A e \in evidence' : e \in evidence \/ e[1] = w.task  BY DEF Acted
    <2> QED  BY <1>1, <2>1 DEF StatusInv, LastRun
  <1>8. MissionInv'
    <2>1. pc = "deciding"  BY DEF Acted
    <2> QED  BY <1>1, <2>1 DEF MissionInv, Knows, LastRun
  <1> QED  BY <1>2, <1>3, <1>4, <1>5, <1>6, <1>7, <1>8

LEMMA SubmitStep == ASSUME IInv, Submit PROVE IInv'
  <1> USE DEF IInv
  <1>1. pc = "idle" /\ coord # "running" /\ coord' = "running" /\ tried' = {}
      BY DEF Submit, WorkerInv
  <1>2. UNCHANGED <<failure, runs, artifacts, evidence, coverage, mission, pc, w,
                    history, crashes>>
      BY DEF Submit
  <1>3. \A t \in Tasks : status'[t] = "waiting" \/ status'[t] = status[t]
      BY DEF Submit
  <1>4. Types'
    <2>1. status' \in [Tasks -> Statuses]
        BY DEF Submit, Types, TaskTypes, Statuses
    <2>2. requeues' \in [Tasks -> 0..MAX_TRANSIENT_TASK_RESUMES]
      <3>1. MAX_TRANSIENT_TASK_RESUMES \in Nat  BY AgentAssumption
      <3>2. ASSUME NEW t \in Tasks
            PROVE  (IF t \in Requeueable THEN requeues[t] + 1 ELSE requeues[t])
                      \in 0..MAX_TRANSIENT_TASK_RESUMES
        <4>1. requeues[t] \in 0..MAX_TRANSIENT_TASK_RESUMES  BY DEF Types, TaskTypes
        <4>2. t \in Requeueable => requeues[t] < MAX_TRANSIENT_TASK_RESUMES
            BY DEF Requeueable
        <4> QED  BY <3>1, <4>1, <4>2
      <3>3. requeues' = [t \in Tasks |-> IF t \in Requeueable THEN requeues[t] + 1
                                         ELSE requeues[t]]
          BY DEF Submit
      <3> QED  BY <3>2, <3>3
    <2>3. TaskTypes'  BY <1>1, <1>2, <2>1, <2>2 DEF Types, TaskTypes, history
    <2> QED  BY <1>2, <2>3 DEF Types, StoreTypes, WorkTypes, artifacts
  <1>5. BudgetInv'  BY <1>2 DEF BudgetInv, InBudget
  <1>6. EvidenceInv'
      BY <1>2 DEF EvidenceInv, EvidenceIsTraceable, Readable, artifacts
  <1>7. RunsInv'  BY <1>2, SavedStays
  <1>8. WorkerInv'
      BY <1>1, <1>2 DEF WorkerInv, ActingInv, AfterInv, Acting, After, Failing
  <1>9. StatusInv'
    <2> SUFFICES ASSUME NEW t \in Tasks, status'[t] # "waiting"
                 PROVE  status'[t] = status[t]
        BY <1>2 DEF StatusInv, LastRun
    <2> QED  BY <1>3
  <1>10. MissionInv'  BY <1>1, <1>2, <1>3 DEF MissionInv, Knows, LastRun, history
  <1>11. DownloadsInv'  BY <1>2 DEF DownloadsInv, history
  <1> QED  BY <1>4, <1>5, <1>6, <1>7, <1>8, <1>9, <1>10, <1>11

LEMMA RunTaskStep == ASSUME IInv, RunTask PROVE IInv'
  <1> USE DEF IInv
  <1>1. /\ pc = "idle" /\ w = NoWork /\ coord = "running" /\ coord' = "running"
      BY DEF RunTask, WorkerInv
  <1>2. UNCHANGED <<status, failure, requeues, runs, sources, paged, chunked, evidence,
                    mission, downloads, cut, crashes>>
      BY DEF RunTask, taskVars, history
  <1>3. PICK t \in Tasks : status[t] = "waiting" /\ tried' = tried \cup {t} /\ RunOnce(t)
      BY DEF RunTask, Untried
  <1>4. /\ Len(runs[t]) \in Nat /\ DOMAIN runs[t] = 1..Len(runs[t])
        /\ \A i \in 1..Len(runs[t]) : runs[t][i] \in Run /\ InBudget(runs[t][i])
        /\ Len(runs[t]) > 0 => Len(runs[t]) \in 1..Len(runs[t])
      BY RunsAreRuns DEF BudgetInv
  <1>5. assoc' = assoc \cup ({t} \X mission.sources)
      BY <1>3 DEF RunOnce, PrepareWorker
  <1>6. mission \in Mission /\ mission.sources \subseteq sources
      BY DEF Types, StoreTypes
  <1>7. StoreTypes'
      BY <1>2, <1>5, <1>6 DEF Types, StoreTypes
  <1>8. EvidenceInv'
      BY <1>2, <1>5 DEF EvidenceInv, EvidenceIsTraceable, Readable
  <1>9. RunsInv'  BY <1>2, SavedStays
  <1>10. StatusInv'  BY <1>2 DEF StatusInv, LastRun
  <1>11. MissionInv'
      BY <1>1, <1>2 DEF MissionInv, Knows, LastRun
  <1>12. CASE HasEnded(t)
    <2>1. w' = [NoWork EXCEPT !.task = t] /\ pc' = "projecting"
        BY <1>3, <1>12 DEF RunOnce
    <2>2. /\ w' \in Work /\ w'.task = t /\ w'.run = NewRun /\ w'.src = {}
        BY <2>1, NewRunIsRun DEF NoWork, Work
    <2>3. Types'
        BY <1>1, <1>2, <1>3, <1>7, <2>1, <2>2 DEF Types, TaskTypes, WorkTypes, After
    <2>4. BudgetInv'  BY <1>2, <2>2, NewRunIsRun DEF BudgetInv
    <2>5. LastIs(t, Terminal)
      <3>1. PICK i \in 1..Len(runs[t]) : runs[t][i].outcome \in Terminal
          BY <1>4, <1>12 DEF HasEnded
      <3>2. i = Len(runs[t]) \/ i \in 1..(Len(runs[t]) - 1)  BY <1>4
      <3> QED  BY <1>4, <3>1, <3>2 DEF LastIs, LastRun, RunsInv, Terminal
    <2>6. AfterInv'
        BY <1>2, <2>1, <2>2, <2>5, NewRunIsRun
        DEF AfterInv, LastIs, LastRun, Outcomes, Terminal, Failing
    <2>7. WorkerInv'
        BY <1>1, <2>1, <2>2, <2>6 DEF WorkerInv, ActingInv, Acting
    <2>8. DownloadsInv'
        BY <1>1, <1>2, <2>2, NewRunIsRun DEF DownloadsInv, NoWork
    <2> QED  BY <1>8, <1>9, <1>10, <1>11, <2>3, <2>4, <2>7, <2>8
  <1>13. CASE ~HasEnded(t)
    <2> DEFINE c == CurrentRun(t)
    <2>1. w' = Worker(t) /\ pc' = "deciding"  BY <1>3, <1>13 DEF RunOnce
    <2>2. \/ /\ c.at = Len(runs[t]) /\ c.run = LastRun(t) /\ Len(runs[t]) > 0
             /\ LastRun(t).outcome = ""
          \/ /\ c.at = Len(runs[t]) + 1 /\ c.run = NewRun /\ AllFailed(t)
      <3>1. CASE Len(runs[t]) > 0 /\ runs[t][Len(runs[t])].outcome = ""
          BY <3>1 DEF CurrentRun, LastRun
      <3>2. CASE ~(Len(runs[t]) > 0 /\ runs[t][Len(runs[t])].outcome = "")
        <4>1. c.at = Len(runs[t]) + 1 /\ c.run = NewRun  BY <3>2 DEF CurrentRun
        <4>2. ASSUME NEW i \in 1..Len(runs[t]) PROVE runs[t][i].outcome = "FAILED"
          <5>1. runs[t][i].outcome \in Outcomes \ Terminal
              BY <1>4, <1>13 DEF Run, HasEnded
          <5>2. i = Len(runs[t]) \/ i \in 1..(Len(runs[t]) - 1)  BY <1>4
          <5>3. CASE i \in 1..(Len(runs[t]) - 1)  BY <5>3 DEF RunsInv
          <5>4. CASE i = Len(runs[t])
            <6>1. Len(runs[t]) > 0  BY <1>4, <5>4
            <6>2. runs[t][i].outcome # ""  BY <3>2, <5>4, <6>1
            <6> QED  BY <5>1, <6>2 DEF Outcomes
          <5> QED  BY <5>2, <5>3, <5>4
        <4> QED  BY <4>1, <4>2 DEF AllFailed
      <3> QED  BY <3>1, <3>2
    <2>3. c.at \in Nat /\ c.run \in Run /\ InBudget(c.run)
      <3>1. CASE c.run = LastRun(t) /\ c.at = Len(runs[t]) /\ Len(runs[t]) > 0
        <4> QED  BY <1>4, <3>1 DEF LastRun
      <3>2. CASE c.run = NewRun /\ c.at = Len(runs[t]) + 1
        <4>1. Len(runs[t]) + 1 \in Nat  BY <1>4
        <4> QED  BY <3>2, <4>1, NewRunIsRun
      <3> QED  BY <2>2, <3>1, <3>2
    <2> HIDE DEF c
    <2>4. /\ w' \in Work /\ w'.task = t /\ w'.at = c.at /\ w'.run = c.run /\ w'.src = {}
          /\ w'.visited = mission.visited
      <3>1. w' = [NoWork EXCEPT !.task = t, !.at = c.at, !.run = c.run,
                                !.queries = mission.queries, !.visited = mission.visited]
          BY <2>1 DEF Worker, c
      <3>2. mission.queries \subseteq Queries /\ mission.visited \subseteq Urls
          BY <1>6 DEF Mission
      <3> QED  BY <2>3, <3>1, <3>2, NewRunIsRun DEF Work
    <2>5. Types'
        BY <1>1, <1>2, <1>3, <1>7, <2>1, <2>4 DEF Types, TaskTypes, WorkTypes, Acting
    <2>6. BudgetInv'  BY <1>2, <2>3, <2>4 DEF BudgetInv
    <2>7. /\ Cites(t, c.run) /\ IsTrue(c.run) /\ c.run.outcome = ""
      <3>1. CASE c.run = LastRun(t) /\ Len(runs[t]) > 0 /\ LastRun(t).outcome = ""
        <4> QED  BY <1>4, <3>1 DEF RunsInv, LastRun
      <3>2. CASE c.run = NewRun
          BY <3>2, NewRunIsRun DEF Cites, IsTrue, Terminal
      <3> QED  BY <2>2, <3>1, <3>2
    <2>8. ActingInv'
      <3>1. (GoesOn /\ w.run = LastRun(w.task))' \/ (Begins /\ w.run = NewRun)'
          BY <1>2, <2>2, <2>4 DEF GoesOn, Begins, LastIs, LastRun, AllFailed
      <3>2. Cites(w.task, w.run)' /\ IsTrue(w.run)' /\ w'.run.outcome = ""
          BY <1>2, <2>4, <2>7 DEF Cites, IsTrue
      <3> QED  BY <1>2, <2>1, <2>4, <3>1, <3>2 DEF ActingInv
    <2>9. WorkerInv'
        BY <1>1, <1>2, <1>3, <2>1, <2>4, <2>8 DEF WorkerInv, AfterInv, After, Failing
    <2>10. DownloadsInv'
      <3>1. w.run.visited = {}  BY <1>1, NewRunIsRun
      <3>2. UNCHANGED <<downloads, crashes, mission>>  BY <1>2
      <3> QED  BY <3>1, <3>2 DEF DownloadsInv, Pages
    <2> QED  BY <1>8, <1>9, <1>10, <1>11, <2>5, <2>6, <2>9, <2>10
  <1> QED  BY <1>12, <1>13

(* The task t has a new last run, or another one in place of its last.     *)
ReplacesLast(t, r) ==
    /\ runs' \in [Tasks -> Seq(Run)]
    /\ \A u \in Tasks \ {t} : runs'[u] = runs[u]
    /\ Len(runs'[t]) \in Nat /\ Len(runs'[t]) > 0 /\ LastRun(t)' = r
    /\ \A i \in 1..(Len(runs'[t]) - 1) :
          i \in 1..Len(runs[t]) /\ runs'[t][i] = runs[t][i]
    /\ \/ Len(runs'[t]) = Len(runs[t]) + 1 /\ AllFailed(t)
       \/ Len(runs'[t]) = Len(runs[t]) /\ LastRun(t).outcome \in {"", "FAILED"}

(* Appending a run, or writing over the last one, does that.               *)
LEMMA Appended ==
    ASSUME Types, NEW t \in Tasks, NEW r \in Run, AllFailed(t),
           runs' = [runs EXCEPT ![t] = Append(runs[t], r)]
    PROVE  ReplacesLast(t, r)
  <1>1. runs[t] \in Seq(Run) /\ runs \in [Tasks -> Seq(Run)]  BY DEF Types, TaskTypes
  <1>2. Len(runs[t]) \in Nat  BY RunsAreRuns
  <1> DEFINE a == Append(runs[t], r)
  <1>3. /\ a \in Seq(Run) /\ Len(a) = Len(runs[t]) + 1
        /\ \A i \in 1..Len(runs[t]) : a[i] = runs[t][i]
        /\ a[Len(runs[t]) + 1] = r
      BY <1>1, AppendProperties
  <1> HIDE DEF a
  <1>4. runs' = [runs EXCEPT ![t] = a]  BY DEF a
  <1>5. runs' \in [Tasks -> Seq(Run)] /\ runs'[t] = a /\ \A u \in Tasks \ {t} : runs'[u] = runs[u]
      BY <1>1, <1>3, <1>4
  <1> QED  BY <1>2, <1>3, <1>5 DEF ReplacesLast, LastRun

LEMMA Overwritten ==
    ASSUME Types, NEW t \in Tasks, NEW r \in Run, Len(runs[t]) > 0,
           LastRun(t).outcome \in {"", "FAILED"},
           runs' = [runs EXCEPT ![t] = [runs[t] EXCEPT ![Len(runs[t])] = r]]
    PROVE  ReplacesLast(t, r)
  <1>1. runs[t] \in Seq(Run) /\ runs \in [Tasks -> Seq(Run)]  BY DEF Types, TaskTypes
  <1>2. Len(runs[t]) \in Nat /\ Len(runs[t]) \in 1..Len(runs[t])  BY RunsAreRuns
  <1> DEFINE a == [runs[t] EXCEPT ![Len(runs[t])] = r]
  <1>3. /\ a \in Seq(Run) /\ Len(a) = Len(runs[t]) /\ a[Len(a)] = r
        /\ \A i \in 1..(Len(a) - 1) : i \in 1..Len(runs[t]) /\ a[i] = runs[t][i]
    <2> DEFINE s == runs[t]
               n == Len(runs[t])
    <2>1. /\ s \in Seq(Run) /\ n \in 1..Len(s) /\ n = Len(s) /\ Len(s) \in Nat
          /\ r \in Run /\ a = [s EXCEPT ![n] = r]
        BY <1>1, <1>2 DEF a
    <2> HIDE DEF s, n
    <2>2. /\ [s EXCEPT ![n] = r] \in Seq(Run) /\ Len([s EXCEPT ![n] = r]) = Len(s)
          /\ \A j \in 1..Len(s) : [s EXCEPT ![n] = r][j] = IF j = n THEN r ELSE s[j]
        BY ONLY <2>1, ExceptSeq
    <2>4. /\ a \in Seq(Run) /\ Len(a) = Len(s)
          /\ \A j \in 1..Len(s) : a[j] = IF j = n THEN r ELSE s[j]
        BY <2>1, <2>2
    <2>5. /\ a[Len(a)] = r
          /\ \A i \in 1..(Len(a) - 1) : i \in 1..Len(s) /\ a[i] = s[i]
        BY ONLY <2>1, <2>4
    <2> QED  BY <2>4, <2>5 DEF s
  <1> HIDE DEF a
  <1>4. runs' = [runs EXCEPT ![t] = a]  BY DEF a
  <1>5. runs' \in [Tasks -> Seq(Run)] /\ runs'[t] = a /\ \A u \in Tasks \ {t} : runs'[u] = runs[u]
      BY <1>1, <1>3, <1>4
  <1> QED  BY <1>2, <1>3, <1>5 DEF ReplacesLast, LastRun

(* What that preserves: a last run that the mission was told of is only    *)
(* ever one that failed, and stays what it was told.                       *)
LEMMA LastReplaced ==
    ASSUME IInv, NEW t \in Tasks, NEW r \in Run, ReplacesLast(t, r),
           InBudget(r), Cites(t, r), IsTrue(r), status[t] = "waiting",
           pc \notin {"projecting", "merging"},
           LastIs(t, {"FAILED"}) /\ Len(runs'[t]) = Len(runs[t])
              => r.outcome = "FAILED" /\ r.visited = LastRun(t).visited,
           UNCHANGED <<status, mission, evidence, cut>>
    PROVE  /\ \A u \in Tasks : \A i \in 1..Len(runs'[u]) : InBudget(runs'[u][i])
           /\ RunsInv' /\ StatusInv' /\ MissionInv'
  <1> USE DEF IInv
  <1>1. \A u \in Tasks : /\ Len(runs[u]) \in Nat
                         /\ Len(runs[u]) > 0 => Len(runs[u]) \in 1..Len(runs[u])
      BY RunsAreRuns
  <1>2. /\ \A u \in Tasks \ {t} : runs'[u] = runs[u]
        /\ Len(runs'[t]) \in Nat /\ Len(runs'[t]) > 0
        /\ runs'[t][Len(runs'[t])] = r
        /\ \A i \in 1..(Len(runs'[t]) - 1) :
              i \in 1..Len(runs[t]) /\ runs'[t][i] = runs[t][i]
        /\ \/ Len(runs'[t]) = Len(runs[t]) + 1 /\ AllFailed(t)
           \/ Len(runs'[t]) = Len(runs[t]) /\ LastRun(t).outcome \in {"", "FAILED"}
      BY DEF ReplacesLast, LastRun
  <1>3. ASSUME NEW i \in 1..Len(runs'[t])
        PROVE  \/ i = Len(runs'[t]) /\ runs'[t][i] = r
               \/ /\ i \in 1..(Len(runs'[t]) - 1) /\ i \in 1..Len(runs[t])
                  /\ runs'[t][i] = runs[t][i]
    <2>1. i = Len(runs'[t]) \/ i \in 1..(Len(runs'[t]) - 1)
      <3>1. Len(runs'[t]) \in Nat  BY <1>2
      <3> QED  BY <3>1
    <2> QED  BY <1>2, <2>1
  <1>4. ASSUME NEW u \in Tasks, NEW i \in 1..Len(runs'[u])
        PROVE  InBudget(runs'[u][i])
    <2>1. CASE u # t  BY <1>2, <2>1 DEF BudgetInv
    <2>2. CASE u = t  BY <1>3, <2>2 DEF BudgetInv
    <2> QED  BY <2>1, <2>2
  <1>5. RunsInv'
    <2>6. \A v \in Tasks : \A x : Cites(v, x) => \A e \in x.verified : e \in evidence' /\ e[1] = v
        BY DEF Cites
    <2> SUFFICES ASSUME NEW u \in Tasks
                 PROVE  /\ \A i \in 1..Len(runs'[u]) :
                              Cites(u, runs'[u][i]) /\ IsTrue(runs'[u][i])
                        /\ \A i \in 1..(Len(runs'[u]) - 1) : runs'[u][i].outcome = "FAILED"
        BY <2>6 DEF RunsInv, IsTrue, Cites
    <2>1. CASE u # t
      <3>1. runs'[u] = runs[u]  BY <1>2, <2>1
      <3> QED  BY <3>1 DEF RunsInv
    <2>2. CASE u = t
      <3>1. ASSUME NEW i \in 1..Len(runs'[t])
            PROVE  Cites(t, runs'[t][i]) /\ IsTrue(runs'[t][i])
          BY <1>3 DEF RunsInv
      <3>2. ASSUME NEW i \in 1..(Len(runs'[t]) - 1)
            PROVE  runs'[t][i].outcome = "FAILED"
        <4>1. i \in 1..Len(runs[t]) /\ runs'[t][i] = runs[t][i]  BY <1>2
        <4>2. CASE AllFailed(t)  BY <4>1, <4>2 DEF AllFailed
        <4>3. CASE Len(runs'[t]) = Len(runs[t])  BY <4>1, <4>3 DEF RunsInv
        <4> QED  BY <1>2, <4>2, <4>3
      <3> QED  BY <2>2, <3>1, <3>2
    <2> QED  BY <2>1, <2>2
  <1>6. StatusInv'
    <2> SUFFICES ASSUME NEW u \in Tasks, status[u] # "waiting"
                 PROVE  runs'[u] = runs[u]
        BY DEF StatusInv, LastRun
    <2> QED  BY <1>2
  <1>7. MissionInv'
    <2>1. ASSUME NEW m \in mission.merged PROVE m[2] \in 1..Len(runs'[m[1]])
      <3>1. m[2] \in 1..Len(runs[m[1]]) /\ m[1] \in Tasks
          BY DEF MissionInv, Types, StoreTypes, Mission
      <3>2. CASE m[1] # t  BY <1>2, <3>1, <3>2
      <3>3. CASE m[1] = t
        <4>1. Len(runs[t]) \in Nat /\ Len(runs'[t]) \in Nat  BY <1>1, <1>2
        <4>2. Len(runs[t]) <= Len(runs'[t])
          <5>1. Len(runs'[t]) = Len(runs[t]) + 1 \/ Len(runs'[t]) = Len(runs[t])
              BY <1>2
          <5> QED  BY <4>1, <5>1
        <4>3. m[2] \in 1..Len(runs[t])  BY <3>1, <3>3
        <4> QED  BY <3>3, <4>1, <4>2, <4>3
      <3> QED  BY <3>2, <3>3
    <2>2. <<t, Len(runs[t]) + 1>> \notin mission.merged
      <3> SUFFICES ASSUME <<t, Len(runs[t]) + 1>> \in mission.merged PROVE FALSE
          OBVIOUS
      <3>1. Len(runs[t]) + 1 \in 1..Len(runs[t])  BY DEF MissionInv
      <3> QED  BY <1>1, <3>1
    <2>3. ASSUME <<t, Len(runs'[t])>> \in mission.merged
          PROVE  /\ Len(runs'[t]) = Len(runs[t])
                 /\ LastRun(t).outcome = "FAILED" /\ r.outcome = "FAILED"
                 /\ r.visited = LastRun(t).visited
                 /\ r.visited \subseteq mission.visited /\ Knows(t)
      <3>1. Len(runs'[t]) = Len(runs[t]) /\ LastRun(t).outcome \in {"", "FAILED"}
          BY <1>2, <2>2, <2>3
      <3>2. Len(runs[t]) > 0 /\ Len(runs[t]) \in 1..Len(runs[t])  BY <1>1, <1>2, <3>1
      <3>3. /\ LastRun(t).outcome # "" /\ LastRun(t).visited \subseteq mission.visited
            /\ Knows(t)
          BY <2>3, <3>1, <3>2 DEF MissionInv, LastRun
      <3>4. LastIs(t, {"FAILED"})
          BY <3>1, <3>2, <3>3 DEF LastIs
      <3> QED  BY <3>1, <3>3, <3>4
    <2>4. ASSUME NEW u \in Tasks, NEW i \in 1..Len(runs'[u]), <<u, i>> \in mission.merged
          PROVE  runs'[u][i].outcome # "" /\ runs'[u][i].visited \subseteq mission.visited
      <3>1. CASE u # t  BY <1>2, <2>4, <3>1 DEF MissionInv
      <3>2. CASE u = t /\ i = Len(runs'[t])  BY <1>2, <2>3, <2>4, <3>2
      <3>3. CASE u = t /\ i \in 1..Len(runs[t]) /\ runs'[t][i] = runs[t][i]
          BY <2>4, <3>3 DEF MissionInv
      <3> QED  BY <1>3, <3>1, <3>2, <3>3
    <2>5. ASSUME NEW u \in Tasks, <<u, Len(runs'[u])>> \in mission.merged
          PROVE  Knows(u)'
      <3>1. CASE u # t  BY <1>2, <2>5, <3>1 DEF MissionInv, Knows, LastRun
      <3>2. CASE u = t
        <4>1. /\ r.outcome = "FAILED" /\ LastRun(t).outcome = "FAILED" /\ Knows(t)
              /\ r.verified = {}
            BY <2>3, <2>5, <3>2 DEF IsTrue
        <4>2. LastRun(t)' = r  BY <1>2 DEF LastRun
        <4> QED  BY <3>2, <4>1, <4>2 DEF Knows
      <3> QED  BY <3>1, <3>2
    <2>6. ASSUME NEW u \in Tasks \ cut, status[u] # "waiting" PROVE Knows(u)'
      <3>1. u # t  BY <2>6
      <3> QED  BY <1>2, <2>6, <3>1 DEF MissionInv, Knows, LastRun
    <2> QED  BY <2>1, <2>4, <2>5, <2>6 DEF MissionInv
  <1> QED  BY <1>4, <1>5, <1>6, <1>7

(* What is read again of a run that has an outcome.                        *)
LEMMA EndedIsRun ==
    ASSUME NEW r \in Run
    PROVE  /\ Ended(r) \in Run /\ InBudget(Ended(r))
           /\ Ended(r).outcome = r.outcome /\ Ended(r).verified = r.verified
           /\ Ended(r).visited = r.visited
  <1>1. NewRun \in Run /\ InBudget(NewRun)  BY NewRunIsRun
  <1>2. /\ Ended(r) \in Run
        /\ Ended(r).outcome = r.outcome /\ Ended(r).verified = r.verified
        /\ Ended(r).visited = r.visited /\ Ended(r).steps = NewRun.steps
        /\ Ended(r).searches = NewRun.searches /\ Ended(r).sources = NewRun.sources
        /\ Ended(r).failed = NewRun.failed
      BY <1>1 DEF Ended, Run
  <1> QED  BY <1>1, <1>2 DEF InBudget

LEMMA SaveStep == ASSUME IInv, Save PROVE IInv'
  <1> USE DEF IInv
  <1> DEFINE t == w.task
             r == IF w.run.outcome = "" THEN w.run ELSE Ended(w.run)
  <1>1. /\ pc = "saving" /\ UNCHANGED <<status, failure, requeues, artifacts, evidence,
              coverage, mission, coord, tried, w, history, crashes>>
        /\ pc' = IF w.run.outcome = "" THEN "deciding" ELSE "settling"
      BY DEF Save
  <1>2. /\ w \in Work /\ w.run \in Run /\ InBudget(w.run) /\ t \in Tasks
        /\ status[t] = "waiting" /\ coord = "running"
        /\ GoesOn \/ Begins
        /\ Cites(t, w.run) /\ IsTrue(w.run) /\ w.run.outcome # "FAILED"
        /\ w.visited = mission.visited
      BY <1>1 DEF Types, WorkTypes, Work, BudgetInv, WorkerInv, ActingInv, Acting
  <1>3. /\ r \in Run /\ InBudget(r) /\ r.outcome = w.run.outcome
        /\ r.verified = w.run.verified /\ r.visited = w.run.visited
      BY <1>2, EndedIsRun
  <1>4. Len(runs[t]) \in Nat  BY <1>2, RunsAreRuns
  <1>5. runs' = [runs EXCEPT ![t] = IF w.at > Len(runs[t]) THEN Append(runs[t], r)
                                    ELSE [runs[t] EXCEPT ![w.at] = r]]
      BY DEF Save, Saved
  <1>6. r.outcome = "" => r = w.run  BY <1>3
  <1> HIDE DEF r
  <1>7. ReplacesLast(t, r) /\ w.at = Len(runs'[t])
    <2>1. CASE Begins
      <3>1. w.at = Len(runs[t]) + 1 /\ AllFailed(t)  BY <2>1 DEF Begins
      <3>2. w.at > Len(runs[t])  BY ONLY <1>4, <3>1
      <3>3. runs' = [runs EXCEPT ![t] = Append(runs[t], r)]  BY <1>5, <3>2
      <3>4. ReplacesLast(t, r)  BY <1>2, <1>3, <3>1, <3>3, Appended
      <3>5. runs'[t] = Append(runs[t], r) /\ runs[t] \in Seq(Run)
          BY <1>2, <3>3 DEF Types, TaskTypes
      <3>6. Len(Append(runs[t], r)) = Len(runs[t]) + 1
          BY <1>3, <3>5, AppendProperties
      <3> QED  BY <3>1, <3>4, <3>5, <3>6
    <2>2. CASE GoesOn
      <3>1. w.at = Len(runs[t]) /\ Len(runs[t]) > 0 /\ LastRun(t).outcome = ""
          BY <2>2 DEF GoesOn, LastIs
      <3> DEFINE m == Len(runs[t])
      <3>8. m \in Nat /\ m > 0 /\ w.at = m  BY <1>4, <3>1
      <3> HIDE DEF m
      <3>9. ~(m > m) /\ m \in 1..m  BY <3>8
      <3>2. ~(w.at > Len(runs[t]))  BY <3>8, <3>9 DEF m
      <3>3. runs' = [runs EXCEPT ![t] = [runs[t] EXCEPT ![Len(runs[t])] = r]]
          BY <1>5, <3>1, <3>2
      <3>4. ReplacesLast(t, r)  BY <1>2, <1>3, <3>1, <3>3, Overwritten
      <3>5. runs'[t] = [runs[t] EXCEPT ![Len(runs[t])] = r] /\ runs[t] \in Seq(Run)
          BY <1>2, <3>3 DEF Types, TaskTypes
      <3>6. Len(runs[t]) \in 1..Len(runs[t])  BY <3>9 DEF m
      <3>7. Len(runs'[t]) = Len(runs[t])
        <4> DEFINE s == runs[t]
                   n == Len(runs[t])
        <4>1. s \in Seq(Run) /\ n \in 1..Len(s) /\ r \in Run  BY <1>3, <3>5, <3>6
        <4> HIDE DEF s, n
        <4>2. Len([s EXCEPT ![n] = r]) = Len(s)  BY ONLY <4>1, ExceptSeq
        <4> QED  BY <3>5, <4>2 DEF s, n
      <3> QED  BY <3>1, <3>4, <3>7
    <2> QED  BY <1>2, <2>1, <2>2
  <1>8. LastIs(t, {"FAILED"}) => Len(runs'[t]) # Len(runs[t])
    <2>1. CASE GoesOn  BY <2>1 DEF GoesOn, LastIs
    <2>2. CASE Begins
      <3>1. Len(runs'[t]) = Len(runs[t]) + 1  BY <1>7, <2>2 DEF Begins
      <3> QED  BY ONLY <1>4, <3>1
    <2> QED  BY <1>2, <2>1, <2>2
  <1>9. Cites(t, r) /\ IsTrue(r)  BY <1>2, <1>3 DEF Cites, IsTrue
  <1>10. /\ \A u \in Tasks : \A i \in 1..Len(runs'[u]) : InBudget(runs'[u][i])
         /\ RunsInv' /\ StatusInv' /\ MissionInv'
      BY <1>1, <1>2, <1>3, <1>7, <1>8, <1>9, LastReplaced DEF history
  <1>11. /\ Len(runs'[t]) > 0 /\ LastRun(t)' = r  BY <1>7 DEF ReplacesLast
  <1>12. Types'
    <2>1. runs' \in [Tasks -> Seq(Run)]  BY <1>7 DEF ReplacesLast
    <2>2. TaskTypes'
        BY <1>1, <2>1 DEF Types, TaskTypes, Acting, After, history
    <2> QED  BY <1>1, <2>2 DEF Types, StoreTypes, WorkTypes, artifacts
  <1>13. BudgetInv'  BY <1>1, <1>2, <1>10 DEF BudgetInv
  <1>14. EvidenceInv' /\ DownloadsInv'
      BY <1>1 DEF EvidenceInv, EvidenceIsTraceable, Readable, DownloadsInv, artifacts, history
  <1>15. WorkerInv'
    <2>1. CASE w.run.outcome = ""
      <3>1. pc' = "deciding" /\ r = w.run  BY <1>1, <1>3, <1>6, <2>1
      <3>2. GoesOn' /\ (w.run = LastRun(w.task))'
          BY <1>1, <1>7, <1>11, <2>1, <3>1 DEF GoesOn, LastIs
      <3>3. ActingInv'
          BY <1>1, <1>2, <2>1, <3>1, <3>2 DEF ActingInv, Cites, IsTrue
      <3>4. AfterInv'  BY <3>1 DEF AfterInv, After, Failing
      <3> QED  BY <1>1, <1>2, <3>1, <3>3, <3>4 DEF WorkerInv
    <2>2. CASE w.run.outcome # ""
      <3>1. pc' = "settling"  BY <1>1, <2>2
      <3>2. r.outcome \in Terminal
          BY <1>2, <1>3, <2>2 DEF Run, Outcomes
      <3>3. LastIs(w.task, Terminal)'
          BY <1>1, <1>11, <3>2 DEF LastIs
      <3>4. (Len(runs[w.task]) > 0 /\ w.run.visited \subseteq LastRun(w.task).visited)'
          BY <1>1, <1>3, <1>11
      <3>5. AfterInv'  BY <3>1, <3>3, <3>4 DEF AfterInv
      <3>6. ActingInv'  BY <3>1 DEF ActingInv, Acting
      <3> QED  BY <1>1, <1>2, <3>1, <3>5, <3>6 DEF WorkerInv
    <2> QED  BY <2>1, <2>2
  <1> QED  BY <1>10, <1>12, <1>13, <1>14, <1>15

(* The failure record makes the last saved run of the task a failed one.   *)
LEMMA FailRunStep == ASSUME IInv, FailRun PROVE IInv'
  <1> USE DEF IInv
  <1> DEFINE t == w.task
  <1>1. /\ pc = "failrun" /\ pc' = "dropping"
        /\ UNCHANGED <<status, failure, requeues, artifacts, evidence, coverage,
                       mission, coord, tried, w, history, crashes>>
        /\ runs' = [runs EXCEPT ![t] = FailedRuns(t)]
      BY DEF FailRun
  <1>2. /\ t \in Tasks /\ status[t] = "waiting" /\ coord = "running"
        /\ AllFailed(t) \/ LastIs(t, {""})
        /\ \/ w.run.visited = {}
           \/ Len(runs[t]) > 0 /\ w.run.visited \subseteq LastRun(t).visited
      BY <1>1 DEF WorkerInv, AfterInv, After, Failing
  <1>3. /\ Len(runs[t]) \in Nat
        /\ runs[t] # <<>> <=> Len(runs[t]) > 0
        /\ Len(runs[t]) > 0 => Len(runs[t]) \in 1..Len(runs[t]) /\ LastRun(t) \in Run
      BY <1>2, RunsAreRuns
  <1>4. \E r \in Run :
           /\ ReplacesLast(t, r) /\ InBudget(r)
           /\ r.outcome = "FAILED" /\ r.verified = {}
           /\ w.run.visited \subseteq r.visited
           /\ LastIs(t, {"FAILED"}) => r.visited = LastRun(t).visited
    <2>1. CASE HasRun(t)
      <3> DEFINE l == LastRun(t)
                 r == [Ended(l) EXCEPT !.outcome = "FAILED", !.verified = {}]
      <3>1. Len(runs[t]) > 0 /\ l \in Run /\ Len(runs[t]) \in 1..Len(runs[t])
          BY <1>3, <2>1 DEF HasRun
      <3>2. runs' = [runs EXCEPT ![t] = [runs[t] EXCEPT ![Len(runs[t])] = r]]
          BY <1>1, <2>1 DEF FailedRuns, LastRun
      <3>3. l.outcome \in {"", "FAILED"}
          BY <1>2, <3>1 DEF LastIs, AllFailed, LastRun
      <3> HIDE DEF l
      <3>4. /\ Ended(l) \in Run /\ InBudget(Ended(l)) /\ Ended(l).visited = l.visited
          BY <3>1, EndedIsRun
      <3>5. /\ r \in Run /\ InBudget(r) /\ r.visited = l.visited
            /\ r.outcome = "FAILED" /\ r.verified = {}
          BY <3>4 DEF Run, InBudget, Outcomes
      <3> HIDE DEF r
      <3>6. ReplacesLast(t, r)
          BY <1>2, <3>1, <3>2, <3>3, <3>5, Overwritten DEF l
      <3>7. w.run.visited \subseteq r.visited  BY <1>2, <3>5 DEF l
      <3>8. r.visited = LastRun(t).visited  BY <3>5 DEF l
      <3> QED  BY <3>5, <3>6, <3>7, <3>8
    <2>2. CASE ~HasRun(t)
      <3> DEFINE r == [NewRun EXCEPT !.outcome = "FAILED"]
      <3>1. runs[t] = <<>> /\ Len(runs[t]) = 0  BY <1>3, <2>2 DEF HasRun
      <3>2. runs' = [runs EXCEPT ![t] = <<r>>]  BY <1>1, <2>2 DEF FailedRuns
      <3>3. r \in Run /\ InBudget(r) /\ r.outcome = "FAILED" /\ r.verified = {}
          BY NewRunIsRun DEF Run, InBudget, Outcomes
      <3> HIDE DEF r
      <3>4. runs' = [runs EXCEPT ![t] = Append(runs[t], r)]
        <4>1. Append(<<>>, r) = <<r>>  OBVIOUS
        <4> QED  BY <3>1, <3>2, <4>1
      <3>5. AllFailed(t)
        <4>1. \A i \in 1..Len(runs[t]) : FALSE  BY <3>1
        <4> QED  BY <4>1 DEF AllFailed
      <3>6. ReplacesLast(t, r)  BY <1>2, <3>3, <3>4, <3>5, Appended
      <3>7. w.run.visited = {} /\ ~LastIs(t, {"FAILED"})  BY <1>2, <3>1 DEF LastIs
      <3> QED  BY <3>3, <3>6, <3>7
    <2> QED  BY <2>1, <2>2
  <1>5. PICK r \in Run :
           /\ ReplacesLast(t, r) /\ InBudget(r)
           /\ r.outcome = "FAILED" /\ r.verified = {}
           /\ w.run.visited \subseteq r.visited
           /\ LastIs(t, {"FAILED"}) => r.visited = LastRun(t).visited
      BY <1>4
  <1>6. Cites(t, r) /\ IsTrue(r)  BY <1>5 DEF Cites, IsTrue, Terminal
  <1>7. /\ \A u \in Tasks : \A i \in 1..Len(runs'[u]) : InBudget(runs'[u][i])
        /\ RunsInv' /\ StatusInv' /\ MissionInv'
      BY <1>1, <1>2, <1>5, <1>6, LastReplaced DEF history
  <1>8. Types'
    <2>1. runs' \in [Tasks -> Seq(Run)]  BY <1>5 DEF ReplacesLast
    <2>2. TaskTypes'
        BY <1>1, <2>1 DEF Types, TaskTypes, Acting, After, Failing, history
    <2> QED  BY <1>1, <2>2 DEF Types, StoreTypes, WorkTypes, artifacts
  <1>9. BudgetInv'  BY <1>1, <1>7 DEF BudgetInv
  <1>10. EvidenceInv' /\ DownloadsInv'
      BY <1>1 DEF EvidenceInv, EvidenceIsTraceable, Readable, DownloadsInv, artifacts, history
  <1>11. WorkerInv'
    <2>1. Len(runs'[t]) > 0 /\ LastRun(t)' = r  BY <1>5 DEF ReplacesLast
    <2>2. LastIs(w.task, {"FAILED"})'  BY <1>1, <1>5, <2>1 DEF LastIs
    <2>3. (Len(runs[w.task]) > 0 /\ w.run.visited \subseteq LastRun(w.task).visited)'
        BY <1>1, <1>5, <2>1
    <2>4. AfterInv'  BY <1>1, <2>2, <2>3 DEF AfterInv
    <2>5. ActingInv'  BY <1>1 DEF ActingInv, Acting
    <2> QED  BY <1>1, <1>2, <2>4, <2>5 DEF WorkerInv
  <1> QED  BY <1>7, <1>8, <1>9, <1>10, <1>11

(* Steps that save neither a run, nor a source, nor evidence, nor what the *)
(* mission knows leave most of the invariant as it is.                     *)
LEMMA QuietStep ==
    ASSUME IInv,
           UNCHANGED <<runs, sources, paged, chunked, assoc, evidence, mission, w,
                       downloads, crashes>>
    PROVE  /\ StoreTypes' /\ WorkTypes' /\ BudgetInv' /\ EvidenceInv' /\ RunsInv'
           /\ DownloadsInv'
  <1> USE DEF IInv
  <1>1. StoreTypes' /\ WorkTypes'  BY DEF Types, StoreTypes, WorkTypes
  <1>2. BudgetInv'  BY DEF BudgetInv
  <1>3. EvidenceInv'  BY DEF EvidenceInv, EvidenceIsTraceable, Readable
  <1>4. RunsInv'  BY SavedStays
  <1>5. DownloadsInv'  BY DEF DownloadsInv
  <1> QED  BY <1>1, <1>2, <1>3, <1>4, <1>5

LEMMA EndRoundStep == ASSUME IInv, EndRound PROVE IInv'
  <1> USE DEF IInv
  <1>1. /\ pc = "idle" /\ coord' \in {"completed", "failed"}
        /\ UNCHANGED <<taskVars, artifacts, evidence, mission, tried, pc, w, history, crashes>>
      BY DEF EndRound
  <1>2. /\ StoreTypes' /\ WorkTypes' /\ BudgetInv' /\ EvidenceInv' /\ RunsInv'
        /\ DownloadsInv'
      BY <1>1, QuietStep DEF taskVars, artifacts, history
  <1>3. TaskTypes'  BY <1>1 DEF Types, TaskTypes, taskVars, history
  <1>4. WorkerInv'
      BY <1>1 DEF WorkerInv, ActingInv, AfterInv, Acting, After, Failing
  <1>5. StatusInv'  BY <1>1 DEF StatusInv, LastRun, taskVars
  <1>6. MissionInv'  BY <1>1 DEF MissionInv, Knows, LastRun, taskVars, history
  <1> QED  BY <1>2, <1>3, <1>4, <1>5, <1>6 DEF Types

LEMMA SavePageStep == ASSUME IInv, SavePage PROVE IInv'
  <1> USE DEF IInv
  <1>1. /\ pc = "paging" /\ pc' = "saving" /\ w' = [w EXCEPT !.src = {}]
        /\ paged' = paged \cup w.src
        /\ chunked' = chunked \cup {s \in w.src : s.url \in Native(w.task)}
        /\ UNCHANGED <<taskVars, candidates, sources, assoc, evidence, coverage,
                       mission, coord, tried, history, crashes>>
      BY DEF SavePage
  <1>2. w \in Work /\ w.src \subseteq sources  BY DEF Types, WorkTypes
  <1>3. /\ w' \in Work /\ w'.task = w.task /\ w'.at = w.at /\ w'.run = w.run
        /\ w'.visited = w.visited /\ w'.src = {}
      BY <1>1, <1>2 DEF Work
  <1>4. TaskTypes'  BY <1>1 DEF Types, TaskTypes, taskVars, history, Acting
  <1>5. StoreTypes'  BY <1>1, <1>2 DEF Types, StoreTypes
  <1>6. Types'  BY <1>3, <1>4, <1>5 DEF Types, WorkTypes
  <1>7. BudgetInv'  BY <1>1, <1>3 DEF BudgetInv, taskVars
  <1>8. EvidenceInv'  BY <1>1 DEF EvidenceInv, EvidenceIsTraceable, Readable
  <1>9. RunsInv'  BY <1>1, SavedStays DEF taskVars
  <1>10. StatusInv' /\ MissionInv'
      BY <1>1 DEF StatusInv, MissionInv, Knows, LastRun, taskVars, history
  <1>11. DownloadsInv'  BY <1>1, <1>3 DEF DownloadsInv, history
  <1>12. WorkerInv'
    <2>1. /\ w.task \in Tasks /\ coord = "running" /\ status[w.task] = "waiting"
          /\ GoesOn \/ Begins
          /\ Cites(w.task, w.run) /\ IsTrue(w.run) /\ w.run.outcome # "FAILED"
          /\ w.visited = mission.visited
        BY <1>1 DEF WorkerInv, ActingInv, Acting
    <2>2. UNCHANGED <<status, runs, coord, evidence, mission>>  BY <1>1 DEF taskVars
    <2>3. GoesOn' \/ Begins'
        BY <1>3, <2>1, <2>2 DEF GoesOn, Begins, LastIs, LastRun, AllFailed
    <2>4. ActingInv'
        BY <1>1, <1>3, <2>1, <2>2, <2>3 DEF ActingInv, Cites, IsTrue
    <2>5. AfterInv'  BY <1>1 DEF AfterInv, After, Failing
    <2> QED  BY <1>1, <1>3, <2>1, <2>2, <2>4, <2>5 DEF WorkerInv
  <1> QED  BY <1>6, <1>7, <1>8, <1>9, <1>10, <1>11, <1>12

LEMMA CrashStep == ASSUME IInv, Crash PROVE IInv'
  <1> USE DEF IInv
  <1>1. /\ coord' = "failed" /\ pc' = "idle" /\ w' = NoWork /\ crashes' = crashes + 1
        /\ cut' = IF pc \in {"projecting", "merging"} THEN cut \cup {w.task} ELSE cut
        /\ UNCHANGED <<taskVars, artifacts, evidence, coverage, mission, tried, downloads>>
      BY DEF Crash
  <1>2. pc # "idle" => w.task \in Tasks  BY DEF WorkerInv
  <1>3. crashes \in Nat  BY DEF Types, TaskTypes
  <1>4. TaskTypes'
    <2>1. cut' \subseteq Tasks  BY <1>1, <1>2 DEF Types, TaskTypes
    <2> QED  BY <1>1, <1>3, <2>1 DEF Types, TaskTypes, taskVars
  <1>5. StoreTypes'  BY <1>1 DEF Types, StoreTypes, artifacts
  <1>6. WorkTypes'  BY <1>1, NewRunIsRun DEF WorkTypes
  <1>7. BudgetInv'  BY <1>1, NewRunIsRun DEF BudgetInv, taskVars
  <1>8. EvidenceInv'
      BY <1>1 DEF EvidenceInv, EvidenceIsTraceable, Readable, artifacts
  <1>9. RunsInv'  BY <1>1, SavedStays DEF taskVars
  <1>10. StatusInv'  BY <1>1 DEF StatusInv, LastRun, taskVars
  <1>11. WorkerInv'
      BY <1>1 DEF WorkerInv, ActingInv, AfterInv, Acting, After, Failing
  <1>12. MissionInv'
    <2>1. ASSUME NEW t \in Tasks \ cut', status[t] # "waiting" PROVE Knows(t)
        BY <1>1, <2>1 DEF MissionInv
    <2> QED  BY <1>1, <2>1 DEF MissionInv, Knows, LastRun, taskVars
  <1>13. DownloadsInv'
    <2>1. ASSUME NEW p \in Pages(Urls) PROVE downloads[p] <= crashes + 1
      <3>1. downloads[p] \in Nat  BY DEF DownloadsInv
      <3> QED  BY <1>3, <3>1 DEF DownloadsInv
    <2> QED  BY <1>1, <2>1 DEF DownloadsInv
  <1> QED  BY <1>4, <1>5, <1>6, <1>7, <1>8, <1>9, <1>10, <1>11, <1>12, <1>13 DEF Types

LEMMA SaveStatusStep == ASSUME IInv, SaveStatus PROVE IInv'
  <1> USE DEF IInv
  <1> DEFINE t == w.task
  <1>1. /\ pc = "settling" /\ pc' = "projecting"
        /\ status' = [status EXCEPT ![t] = Settled(t)]
        /\ UNCHANGED <<failure, requeues, runs, artifacts, evidence, coverage, mission,
                       coord, tried, w, history, crashes>>
      BY DEF SaveStatus
  <1>2. /\ t \in Tasks /\ coord = "running" /\ LastIs(t, Terminal)
        /\ \/ w.run.visited = {}
           \/ Len(runs[t]) > 0 /\ w.run.visited \subseteq LastRun(t).visited
      BY <1>1 DEF WorkerInv, AfterInv, After
  <1>3. status \in [Tasks -> Statuses]  BY DEF Types, TaskTypes
  <1>4. \/ LastRun(t).verified # {} /\ Settled(t) = "evidence_extracted"
        \/ LastRun(t).verified = {} /\ Settled(t) = "evidence_exhausted"
      BY DEF Settled, Last, LastRun
  <1>5. /\ status'[t] = Settled(t) /\ \A u \in Tasks \ {t} : status'[u] = status[u]
        /\ status' \in [Tasks -> Statuses]
      BY <1>1, <1>2, <1>3, <1>4 DEF Statuses
  <1>6. /\ StoreTypes' /\ WorkTypes' /\ BudgetInv' /\ EvidenceInv' /\ RunsInv'
        /\ DownloadsInv'
      BY <1>1, QuietStep DEF artifacts, history
  <1>7. TaskTypes'  BY <1>1, <1>5 DEF Types, TaskTypes, After, history
  <1>8. WorkerInv'
    <2>1. LastIs(w.task, Outcomes \ {""})'
        BY <1>1, <1>2 DEF LastIs, LastRun, Outcomes, Terminal
    <2>2. AfterInv'  BY <1>1, <1>2, <2>1 DEF AfterInv, LastRun
    <2>3. ActingInv'  BY <1>1 DEF ActingInv, Acting
    <2> QED  BY <1>1, <1>2, <2>2, <2>3 DEF WorkerInv
  <1>9. LastRun(t).verified = {} => LastRun(t).outcome = "EXHAUSTED"
    <2>1. Len(runs[t]) \in 1..Len(runs[t])  BY <1>2, RunsAreRuns DEF LastIs
    <2> QED  BY <1>2, <2>1 DEF RunsInv, IsTrue, LastIs, LastRun
  <1>10. StatusInv'
    <2> SUFFICES ASSUME NEW u \in Tasks
                 PROVE  /\ status'[u] # "waiting" => Len(runs[u]) > 0
                        /\ status'[u] = "evidence_extracted" =>
                              LastRun(u).outcome \in Terminal /\ LastRun(u).verified # {}
                        /\ status'[u] = "evidence_exhausted" =>
                              LastRun(u).outcome = "EXHAUSTED" /\ LastRun(u).verified = {}
                        /\ status'[u] = "research_failed" =>
                              LastRun(u).outcome = "FAILED" /\ \A e \in evidence : e[1] # u
        BY <1>1 DEF StatusInv, LastRun
    <2>1. CASE u # t  BY <1>5, <2>1 DEF StatusInv
    <2>2. CASE u = t  BY <1>2, <1>4, <1>5, <1>9, <2>2 DEF LastIs
    <2> QED  BY <2>1, <2>2
  <1>11. MissionInv'
    <2>1. \A u \in Tasks \ cut :
             status'[u] # "waiting" => Knows(u) \/ u = t
        BY <1>1, <1>5 DEF MissionInv
    <2> QED  BY <1>1, <2>1 DEF MissionInv, Knows, LastRun, history
  <1> QED  BY <1>6, <1>7, <1>8, <1>10, <1>11 DEF Types

(* The projection finds everything that is cited, so it does not fail.     *)
LEMMA ProjectStep == ASSUME IInv, Project PROVE IInv'
  <1> USE DEF IInv
  <1>1. /\ pc = "projecting" /\ pc' = "merging"
        /\ UNCHANGED <<taskVars, artifacts, evidence, mission, coord, tried, w, history,
                       crashes>>
      BY InvCited DEF Project, RunsCiteStoredEvidence
  <1>2. /\ StoreTypes' /\ WorkTypes' /\ BudgetInv' /\ EvidenceInv' /\ RunsInv'
        /\ DownloadsInv'
      BY <1>1, QuietStep DEF taskVars, artifacts, history
  <1>3. TaskTypes'  BY <1>1 DEF Types, TaskTypes, taskVars, After, history
  <1>4. WorkerInv'
    <2>1. AfterInv'
        BY <1>1 DEF WorkerInv, AfterInv, After, LastIs, LastRun, taskVars
    <2> QED  BY <1>1, <2>1 DEF WorkerInv, ActingInv, Acting
  <1>5. StatusInv'  BY <1>1 DEF StatusInv, LastRun, taskVars
  <1>6. MissionInv'  BY <1>1 DEF MissionInv, Knows, LastRun, taskVars, history
  <1> QED  BY <1>2, <1>3, <1>4, <1>5, <1>6 DEF Types

(* A step of the failure record or of the LLM's call that only moves the   *)
(* worker on.                                                              *)
LEMMA FailureStep ==
    ASSUME IInv,
           (pc = "deciding" /\ pc' = "failing") \/ (pc = "failing" /\ pc' = "failrun"),
           failure' \in [Tasks -> {"none", "transient", "permanent"}],
           UNCHANGED <<status, requeues, runs, artifacts, evidence, coverage, mission,
                       coord, tried, w, history, crashes>>
    PROVE  IInv'
  <1> USE DEF IInv
  <1>1. /\ StoreTypes' /\ WorkTypes' /\ BudgetInv' /\ EvidenceInv' /\ RunsInv'
        /\ DownloadsInv'
      BY QuietStep DEF artifacts, history
  <1>2. TaskTypes'  BY DEF Types, TaskTypes, After, Failing, history
  <1>3. /\ w.task \in Tasks /\ coord = "running" /\ status[w.task] = "waiting"
        /\ AllFailed(w.task) \/ LastIs(w.task, {""})
        /\ \/ w.run.visited = {}
           \/ Len(runs[w.task]) > 0 /\ w.run.visited \subseteq LastRun(w.task).visited
    <2>1. CASE pc = "deciding"
        BY <2>1, NewRunIsRun
        DEF WorkerInv, ActingInv, Acting, GoesOn, Begins, LastIs
    <2>2. CASE pc = "failing"
        BY <2>2 DEF WorkerInv, AfterInv, After, Failing
    <2> QED  BY <2>1, <2>2
  <1>4. pc' \in {"failing", "failrun"}  OBVIOUS
  <1>5. AfterInv'
      BY <1>3, <1>4 DEF AfterInv, AllFailed, LastIs, LastRun
  <1>6. WorkerInv'  BY <1>3, <1>4, <1>5 DEF WorkerInv, ActingInv, Acting
  <1>7. StatusInv'  BY DEF StatusInv, LastRun
  <1>8. MissionInv'  BY DEF MissionInv, Knows, LastRun, history
  <1> QED  BY <1>1, <1>2, <1>6, <1>7, <1>8 DEF Types

LEMMA DecisionFailsStep == ASSUME IInv, DecisionFails PROVE IInv'
  <1>1. /\ pc = "deciding" /\ pc' = "failing"
        /\ UNCHANGED <<status, failure, requeues, runs, artifacts, evidence, coverage,
                       mission, coord, tried, w, history, crashes>>
      BY DEF DecisionFails, taskVars
  <1>2. failure' \in [Tasks -> {"none", "transient", "permanent"}]
      BY <1>1 DEF IInv, Types, TaskTypes
  <1>3. (pc = "deciding" /\ pc' = "failing") \/ (pc = "failing" /\ pc' = "failrun")
      BY <1>1
  <1> QED  BY <1>1, <1>2, <1>3, FailureStep

LEMMA RecordFailureStep == ASSUME IInv, RecordFailure PROVE IInv'
  <1>1. failure' \in [Tasks -> {"none", "transient", "permanent"}]
      BY DEF RecordFailure, IInv, Types, TaskTypes
  <1> QED  BY <1>1, FailureStep DEF RecordFailure

(* All evidence of the task is deleted, after no run cites it any more.    *)
LEMMA DropEvidenceStep == ASSUME IInv, DropEvidence PROVE IInv'
  <1> USE DEF IInv
  <1> DEFINE t == w.task
  <1>1. /\ pc = "dropping" /\ pc' = "failtask"
        /\ evidence' = {e \in evidence : e[1] # t}
        /\ UNCHANGED <<taskVars, artifacts, coverage, mission, coord, tried, w, history,
                       crashes>>
      BY DEF DropEvidence
  <1>2. /\ t \in Tasks /\ coord = "running" /\ status[t] = "waiting"
        /\ LastIs(t, {"FAILED"})
        /\ \/ w.run.visited = {}
           \/ Len(runs[t]) > 0 /\ w.run.visited \subseteq LastRun(t).visited
      BY <1>1 DEF WorkerInv, AfterInv, After, Failing
  <1>3. TaskTypes' /\ StoreTypes' /\ WorkTypes'
      BY <1>1 DEF Types, TaskTypes, StoreTypes, WorkTypes, taskVars, artifacts, history,
                  After, Failing
  <1>4. BudgetInv' /\ DownloadsInv'
      BY <1>1 DEF BudgetInv, DownloadsInv, taskVars, history
  <1>5. EvidenceInv'
      BY <1>1 DEF EvidenceInv, EvidenceIsTraceable, Readable, artifacts
  <1>6. RunsInv'
    <2>1. UNCHANGED runs  BY <1>1 DEF taskVars
    <2>2. ASSUME NEW u \in Tasks, NEW i \in 1..Len(runs[u]), NEW e \in runs[u][i].verified
          PROVE  e \in evidence' /\ e[1] = u
      <3>1. e \in evidence /\ e[1] = u  BY DEF RunsInv, Cites
      <3>2. CASE u # t  BY <1>1, <3>1, <3>2
      <3>3. CASE u = t
        <4>1. Len(runs[t]) \in Nat  BY <1>2, RunsAreRuns
        <4>2. i = Len(runs[t]) \/ i \in 1..(Len(runs[t]) - 1)  BY <3>3, <4>1
        <4>3. runs[t][i].outcome = "FAILED"
            BY <1>2, <3>3, <4>2 DEF RunsInv, LastIs, LastRun
        <4> QED  BY <3>3, <4>3 DEF RunsInv, IsTrue
      <3> QED  BY <3>2, <3>3
    <2>3. \A u \in Tasks : \A i : Cites(u, runs[u][i])' <=>
             \A e \in runs[u][i].verified : e \in evidence' /\ e[1] = u
        BY <2>1 DEF Cites
    <2> QED  BY <2>1, <2>2 DEF RunsInv, Cites, IsTrue
  <1>7. WorkerInv'
    <2>1. \A e \in evidence' : e[1] # w.task  BY <1>1
    <2>2. UNCHANGED <<status, runs>>  BY <1>1 DEF taskVars
    <2>3. LastIs(w.task, {"FAILED"})'  BY <1>1, <1>2, <2>2 DEF LastIs, LastRun
    <2>4. AfterInv'  BY <1>1, <1>2, <2>1, <2>2, <2>3 DEF AfterInv, LastRun
    <2> QED  BY <1>1, <1>2, <2>2, <2>4 DEF WorkerInv, ActingInv, Acting
  <1>8. StatusInv'  BY <1>1 DEF StatusInv, LastRun, taskVars
  <1>9. MissionInv'  BY <1>1 DEF MissionInv, Knows, LastRun, taskVars, history
  <1> QED  BY <1>3, <1>4, <1>5, <1>6, <1>7, <1>8, <1>9 DEF Types

LEMMA FailTaskStep == ASSUME IInv, FailTask PROVE IInv'
  <1> USE DEF IInv
  <1> DEFINE t == w.task
  <1>1. /\ pc = "failtask" /\ pc' = "merging"
        /\ status' = [status EXCEPT ![t] = "research_failed"]
        /\ UNCHANGED <<failure, requeues, runs, artifacts, evidence, coverage, mission,
                       coord, tried, w, history, crashes>>
      BY DEF FailTask
  <1>2. /\ t \in Tasks /\ coord = "running" /\ LastIs(t, {"FAILED"})
        /\ \A e \in evidence : e[1] # t
        /\ \/ w.run.visited = {}
           \/ Len(runs[t]) > 0 /\ w.run.visited \subseteq LastRun(t).visited
      BY <1>1 DEF WorkerInv, AfterInv, After, Failing
  <1>3. status \in [Tasks -> Statuses]  BY DEF Types, TaskTypes
  <1>4. /\ status'[t] = "research_failed" /\ \A u \in Tasks \ {t} : status'[u] = status[u]
        /\ status' \in [Tasks -> Statuses]
      BY <1>1, <1>2, <1>3 DEF Statuses
  <1>5. /\ StoreTypes' /\ WorkTypes' /\ BudgetInv' /\ EvidenceInv' /\ RunsInv'
        /\ DownloadsInv'
      BY <1>1, QuietStep DEF artifacts, history
  <1>6. TaskTypes'  BY <1>1, <1>4 DEF Types, TaskTypes, After, history
  <1>7. WorkerInv'
    <2>1. LastIs(w.task, Outcomes \ {""})'
        BY <1>1, <1>2 DEF LastIs, LastRun, Outcomes, Terminal
    <2>2. AfterInv'  BY <1>1, <1>2, <2>1 DEF AfterInv, LastRun
    <2> QED  BY <1>1, <1>2, <2>2 DEF WorkerInv, ActingInv, Acting
  <1>8. StatusInv'
    <2>1. \A u \in Tasks : LastRun(u)' = LastRun(u) /\ Len(runs[u])' = Len(runs[u])
        BY <1>1 DEF LastRun
    <2>2. evidence' = evidence  BY <1>1
    <2>3. \A u \in Tasks : u # t => status'[u] = status[u]  BY <1>4
    <2> QED  BY <1>2, <1>4, <2>1, <2>2, <2>3 DEF StatusInv, LastIs
  <1>9. MissionInv'
    <2>1. \A u \in Tasks \ cut : status'[u] # "waiting" => Knows(u) \/ u = t
        BY <1>1, <1>4 DEF MissionInv
    <2> QED  BY <1>1, <2>1 DEF MissionInv, Knows, LastRun, history
  <1> QED  BY <1>5, <1>6, <1>7, <1>8, <1>9 DEF Types

(* The mission is told of the last run of the task, unless it was before.  *)
LEMMA MergeStep == ASSUME IInv, Merge PROVE IInv'
  <1> USE DEF IInv
  <1>0. pc = "merging" /\ w.task \in Tasks  BY DEF Merge, WorkerInv
  <1>15. PICK t \in Tasks : t = w.task  BY <1>0
  <1> DEFINE n == Len(runs[t])
             run == LastRun(t)
  <1>1. /\ pc = "merging" /\ pc' = "idle" /\ w' = NoWork /\ mission' = Merged(t)
        /\ UNCHANGED <<taskVars, artifacts, evidence, coverage, coord, tried, history,
                       crashes>>
      BY <1>15 DEF Merge
  <1>2. /\ t \in Tasks /\ LastIs(t, Outcomes \ {""})
        /\ \/ w.run.visited = {}
           \/ Len(runs[t]) > 0 /\ w.run.visited \subseteq run.visited
      BY <1>1, <1>15 DEF WorkerInv, AfterInv, After
  <1>3. n \in Nat /\ n > 0 /\ n \in 1..n /\ run \in Run /\ run.outcome # ""
      BY <1>2, RunsAreRuns DEF LastIs
  <1>4. /\ mission \in Mission /\ mission.sources \subseteq sources
        /\ sources \subseteq RealSource /\ paged \subseteq sources
      BY DEF Types, StoreTypes
  <1>5. /\ mission' \in Mission /\ mission'.sources \subseteq sources
        /\ mission.visited \cup run.visited \subseteq mission'.visited
        /\ mission.verified \subseteq mission'.verified
        /\ mission'.merged = mission.merged \cup {<<t, n>>}
        /\ mission'.outcome[t] = run.outcome /\ run.verified \subseteq mission'.verified
        /\ \A u \in Tasks \ {t} : mission'.outcome[u] = mission.outcome[u]
    <2>1. CASE <<t, n>> \in mission.merged
      <3>1. mission' = mission  BY <1>1, <2>1 DEF Merged
      <3>2. run.visited \subseteq mission.visited
          BY <1>2, <1>3, <2>1 DEF MissionInv, LastRun
      <3>3. mission.outcome[t] = run.outcome /\ run.verified \subseteq mission.verified
          BY <1>2, <2>1 DEF MissionInv, Knows
      <3> QED  BY <1>4, <2>1, <3>1, <3>2, <3>3
    <2>2. CASE <<t, n>> \notin mission.merged
      <3> DEFINE so == SourcesOf(t, run)
      <3>1. so \subseteq sources
          BY <1>4 DEF SourcesOf, EvidenceInv
      <3>7. n # 0
        <4>1. n \in Nat /\ n > 0  BY <1>3
        <4> HIDE DEF n
        <4> QED  BY ONLY <4>1
      <3>2. mission' = MergedWith(t, n)  BY <1>1, <2>2, <3>7 DEF Merged
      <3> HIDE DEF so
      <3>3. mission' = [mission EXCEPT !.queries = @ \cup run.queries,
                           !.visited = @ \cup run.visited, !.sources = @ \cup so,
                           !.verified = @ \cup run.verified,
                           !.merged = @ \cup {<<t, n>>}, !.outcome[t] = run.outcome]
          BY <3>2 DEF MergedWith, LastRun, so
      <3> HIDE DEF run, n
      <3>4. <<t, n>> \in Tasks \X Nat  BY <1>2, <1>3
      <3>5. mission' \in Mission  BY <1>2, <1>3, <1>4, <3>1, <3>3, <3>4 DEF Mission, Run
      <3>6. /\ mission'.sources = mission.sources \cup so
            /\ mission'.visited = mission.visited \cup run.visited
            /\ mission'.verified = mission.verified \cup run.verified
            /\ mission'.merged = mission.merged \cup {<<t, n>>}
            /\ mission'.outcome = [mission.outcome EXCEPT ![t] = run.outcome]
          BY <1>4, <3>3 DEF Mission
      <3>8. mission.outcome \in [Tasks -> Outcomes]  BY <1>4 DEF Mission
      <3> QED  BY <1>2, <1>4, <3>1, <3>5, <3>6, <3>8
    <2> QED  BY <2>1, <2>2
  <1>6. UNCHANGED <<status, failure, requeues, runs, sources, paged, chunked, assoc>>
      BY <1>1 DEF taskVars, artifacts
  <1>7. Types'
    <2>1. TaskTypes'  BY <1>1, <1>6 DEF Types, TaskTypes, history
    <2>2. StoreTypes'  BY <1>5, <1>6 DEF Types, StoreTypes
    <2> QED  BY <1>1, <2>1, <2>2, NewRunIsRun DEF Types, WorkTypes
  <1>8. BudgetInv'  BY <1>1, <1>6, NewRunIsRun DEF BudgetInv
  <1>9. EvidenceInv'  BY <1>1, <1>6 DEF EvidenceInv, EvidenceIsTraceable, Readable
  <1>10. RunsInv'  BY <1>1, <1>6, SavedStays
  <1>11. WorkerInv'
      BY <1>1 DEF WorkerInv, ActingInv, AfterInv, Acting, After, Failing
  <1>12. StatusInv'  BY <1>1, <1>6 DEF StatusInv, LastRun
  <1>13. DownloadsInv'
    <2>1. w.run.visited \subseteq mission'.visited  BY <1>2, <1>5
    <2>2. UNCHANGED <<downloads, crashes>>  BY <1>1 DEF history
    <2>3. \A p : p \in Pages(mission.visited \cup w.run.visited)
                 => p \in Pages(mission.visited \cup w.run.visited)'
        BY <1>5, <2>1 DEF Pages
    <2> QED  BY <2>2, <2>3 DEF DownloadsInv
  <1>14. MissionInv'
    <2>1. Knows(t)'  BY <1>1, <1>5, <1>6 DEF Knows, LastRun
    <2>2. ASSUME NEW u \in Tasks, u # t, Knows(u) PROVE Knows(u)'
      <3>1. LastRun(u)' = LastRun(u)  BY <1>6 DEF LastRun
      <3>2. mission'.outcome[u] = mission.outcome[u]  BY <1>5, <2>2
      <3> QED  BY <1>5, <2>2, <3>1, <3>2 DEF Knows
    <2>3. ASSUME NEW m \in mission'.merged PROVE m[2] \in 1..Len(runs[m[1]])
      <3>1. CASE m \in mission.merged  BY <3>1 DEF MissionInv
      <3>2. CASE m = <<t, n>>  BY <1>3, <3>2
      <3> QED  BY <1>5, <3>1, <3>2
    <2>4. ASSUME NEW u \in Tasks, NEW i \in 1..Len(runs[u]), <<u, i>> \in mission'.merged
          PROVE  runs[u][i].outcome # "" /\ runs[u][i].visited \subseteq mission'.visited
      <3>1. CASE <<u, i>> \in mission.merged  BY <1>5, <3>1 DEF MissionInv
      <3>2. CASE <<u, i>> = <<t, n>>
        <4>1. u = t /\ i = n  BY <3>2
        <4> QED  BY <1>3, <1>5, <4>1 DEF LastRun
      <3>3. <<u, i>> \in mission.merged \cup {<<t, n>>}
        <4> HIDE DEF n, run
        <4> QED  BY <1>5, <2>4
      <3> QED  BY <3>1, <3>2, <3>3
    <2>5. ASSUME NEW u \in Tasks, <<u, Len(runs[u])>> \in mission'.merged PROVE Knows(u)'
      <3>1. CASE u = t  BY <2>1, <3>1
      <3>2. CASE u # t
        <4>1. <<u, Len(runs[u])>> \in mission.merged  BY <1>5, <2>5, <3>2
        <4> QED  BY <2>2, <3>2, <4>1 DEF MissionInv
      <3> QED  BY <3>1, <3>2
    <2>6. ASSUME NEW u \in Tasks \ cut, status[u] # "waiting" PROVE Knows(u)'
      <3>1. CASE u = t  BY <2>1, <3>1
      <3>2. CASE u # t
        <4>1. Knows(u)  BY <1>15, <2>6, <3>2 DEF MissionInv
        <4> QED  BY <2>2, <3>2, <4>1
      <3> QED  BY <3>1, <3>2
    <2>7. cut' = cut  BY <1>1 DEF history
    <2> QED  BY <1>6, <2>3, <2>4, <2>5, <2>6, <2>7 DEF MissionInv
  <1> QED  BY <1>7, <1>8, <1>9, <1>10, <1>11, <1>12, <1>13, <1>14

-----------------------------------------------------------------------------

LEMMA StutterStep == ASSUME IInv, UNCHANGED vars PROVE IInv'
  <1> USE DEF IInv
  <1>1. UNCHANGED <<status, failure, requeues, runs, candidates, sources, paged, chunked,
                    assoc, evidence, coverage, mission, coord, tried, pc, w, downloads,
                    cut, crashes>>
      BY DEF vars, taskVars, artifacts, history
  <1>2. /\ StoreTypes' /\ WorkTypes' /\ BudgetInv' /\ EvidenceInv' /\ RunsInv'
        /\ DownloadsInv'
      BY <1>1, QuietStep
  <1>3. TaskTypes'  BY <1>1 DEF Types, TaskTypes
  <1>4. WorkerInv'
      BY <1>1 DEF WorkerInv, ActingInv, AfterInv, GoesOn, Begins, AllFailed, LastIs,
                  LastRun, Cites, IsTrue
  <1>5. StatusInv' /\ MissionInv'  BY <1>1 DEF StatusInv, MissionInv, Knows, LastRun
  <1> QED  BY <1>2, <1>3, <1>4, <1>5 DEF Types

(* Every step of the coordinator, of the worker and of a crash preserves   *)
(* the invariant.                                                          *)
LEMMA StepInv == IInv /\ [Next]_vars => IInv'
  <1> SUFFICES ASSUME IInv, [Next]_vars PROVE IInv'  OBVIOUS
  <1>1. CASE Submit  BY <1>1, SubmitStep
  <1>2. CASE RunTask  BY <1>2, RunTaskStep
  <1>3. CASE EndRound  BY <1>3, EndRoundStep
  <1>4. CASE Crash  BY <1>4, CrashStep
  <1>5. CASE FinishAction \/ InvalidAction \/ BudgetOutcome
      BY <1>5, FinishActs, InvalidActs, BudgetActs, ActedStep
  <1>6. ASSUME NEW q \in Queries, NEW wide \in BOOLEAN, Search(q, wide) PROVE IInv'
      BY <1>6, SearchActs, ActedStep
  <1>7. ASSUME NEW u \in Urls, Fetch(u) PROVE IInv'
      BY <1>7, FetchActs, ActedStep
  <1>8. CASE SavePage  BY <1>8, SavePageStep
  <1>9. ASSUME NEW s \in sources \cup {NoSource}, Read(s) PROVE IInv'
      BY <1>9, ReadActs, ActedStep
  <1>10. ASSUME NEW s \in sources, NEW verbatim \in BOOLEAN, SubmitEvidence(s, verbatim)
         PROVE  IInv'
      BY <1>10, SubmitActs, ActedStep
  <1>11. CASE Save  BY <1>11, SaveStep
  <1>12. CASE SaveStatus  BY <1>12, SaveStatusStep
  <1>13. CASE Project  BY <1>13, ProjectStep
  <1>14. CASE Merge  BY <1>14, MergeStep
  <1>15. CASE DecisionFails  BY <1>15, DecisionFailsStep
  <1>16. CASE RecordFailure  BY <1>16, RecordFailureStep
  <1>17. CASE FailRun  BY <1>17, FailRunStep
  <1>18. CASE DropEvidence  BY <1>18, DropEvidenceStep
  <1>19. CASE FailTask  BY <1>19, FailTaskStep
  <1>20. CASE UNCHANGED vars  BY <1>20, StutterStep
  <1> QED  BY <1>1, <1>2, <1>3, <1>4, <1>5, <1>6, <1>7, <1>8, <1>9, <1>10, <1>11, <1>12,
              <1>13, <1>14, <1>15, <1>16, <1>17, <1>18, <1>19, <1>20
           DEF Next, WorkerStep

LEMMA AgentInvariant == Spec => []IInv
  <1>1. Init => IInv  BY InitInv
  <1>2. IInv /\ [Next]_vars => IInv'  BY StepInv
  <1> QED  BY <1>1, <1>2, PTL DEF Spec

(* Evidence is only taken from stored pages that its task may read, no run *)
(* cites evidence that is not stored, no run goes beyond its budget, and a *)
(* page is downloaded once for all the tasks of a mission, unless the      *)
(* process died: for any tasks, pages, budgets, resumptions and crashes.   *)
THEOREM EvidenceStaysSound == Spec => []EvidenceIsSound
  <1>1. IInv => EvidenceIsSound  BY InvSound
  <1> QED  BY <1>1, AgentInvariant, PTL

(* The status of a task tells what its last run found, the mission knows   *)
(* what came of every settled task, an interrupted run is gone on with,    *)
(* and no LLM call is paid for a task that has ended.                      *)
THEOREM RunsStayAccounted == Spec => []RunsAreAccounted
  <1>1. IInv => RunsAreAccounted  BY InvAccounted
  <1> QED  BY <1>1, AgentInvariant, PTL
=============================================================================
