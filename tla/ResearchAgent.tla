---------------------------- MODULE ResearchAgent ----------------------------
(***************************************************************************)
(* The research workers of one mission: ResearchEvidenceAgentService and   *)
(* ResearchEvidenceAgent (execution/research_agent.py) with the            *)
(* fetch of collection/service.py, the evidence verifier of                *)
(* agents/web_evidence.py, the mission memory of                           *)
(* execution/research_mission.py, the projection of intake/step6e4.py and  *)
(* the failure record of execution/research_agent_coordinator.py.          *)
(*                                                                         *)
(* The coordinator runs the tasks of the mission one after the other.  A   *)
(* worker lets the LLM choose an action, carries it out and saves its run, *)
(* until an outcome is reached; then the status of the task, the coverage  *)
(* and the mission are brought up to date, one save after the other.  The  *)
(* process may die between any two of them.  What the LLM chooses, what a  *)
(* search selects and where a page redirects to are choices; a source is   *)
(* known by its URL, the URL it was asked for and the task it came from,   *)
(* and has one quotable passage.                                           *)
(***************************************************************************)
EXTENDS Naturals, Sequences, FiniteSets, SequencesExt, FiniteSetsExt

CONSTANTS
    TaskSeq,         \* the tasks of the mission in the coordinator's order
    Queries,
    Anchored,        \* queries that keep the competitor or a domain of it
    Urls,            \* URLs as they are written
    PageOf,          \* canonical_source_url: the page a URL denotes
    ZhihuUrls,       \* URLs the Zhihu tool may return, with their text
    Seeds,           \* seed_urls of the tasks
    Foreign,         \* URLs that workers of another mission may have fetched
    FeedbackTasks,   \* tasks whose objective is about experience or feedback
    MaxSteps, MaxSearches, MaxSources, MaxFailed,  \* ResearchAgentBudget
    MAX_TRANSIENT_TASK_RESUMES,
    MaxResumes,      \* bound: how often the coordinator is submitted again
    MaxCrashes       \* bound: how often the process may die

Tasks == ToSet(TaskSeq)

ASSUME AgentAssumption ==
    /\ IsInjective(TaskSeq)
    /\ Anchored \subseteq Queries
    /\ ZhihuUrls \cup Seeds \cup Foreign \subseteq Urls
    /\ FeedbackTasks \subseteq Tasks
    /\ {MaxSteps, MaxSearches, MaxSources, MaxFailed} \subseteq Nat \ {0}
    /\ {MAX_TRANSIENT_TASK_RESUMES, MaxResumes, MaxCrashes} \subseteq Nat

VARIABLES
    \* what is saved
    status,      \* status of a task
    failure,     \* its latest recorded failure
    requeues,    \* its metadata.transient_resume_count
    runs,        \* its agent runs
    candidates,  \* research_source_candidates of a task
    sources, paged, chunked,  \* source documents; those with a page; with chunks
    assoc,       \* source_task_associations
    evidence,    \* verified evidence: a task and the source it quotes
    coverage,    \* the evidence the coverage was projected from
    mission,     \* the ResearchMissionState
    \* the coordinator and its worker
    coord,       \* how the coordinator's run ended, or "running"
    tried,       \* tasks it has run
    pc,
    w,           \* the worker's copy of its run and of the mission's memory
    \* history and bounds
    downloads,   \* downloads of a page
    cut,         \* tasks whose worker died after the status and before the merge
    resumed, crashes

artifacts == <<candidates, sources, paged, chunked, assoc>>
taskVars  == <<status, failure, requeues, runs>>
history   == <<downloads, cut>>
vars == <<taskVars, artifacts, evidence, coverage, mission, coord, tried, pc, w,
          history, resumed, crashes>>

-----------------------------------------------------------------------------
(* Runs and actions. *)

NewRun == [outcome |-> "", steps |-> 0, searches |-> 0, sources |-> 0,
           queries |-> {}, visited |-> {}, rejected |-> {}, failed |-> {},
           verified |-> {}]
NoWork == [task |-> "none", at |-> 0, run |-> NewRun, queries |-> {}, visited |-> {},
           src |-> {}]

(* What is read again of a run that has an outcome: not how it spent its   *)
(* budget, nor what failed.                                                *)
Ended(r) == [NewRun EXCEPT !.outcome = r.outcome, !.queries = r.queries,
                           !.visited = r.visited, !.verified = r.verified]

Terminal == {"COMPLETE", "PARTIAL", "EXHAUSTED"}
HasRun(t)  == runs[t] # <<>>
HasEnded(t) == \E i \in DOMAIN runs[t] : runs[t][i].outcome \in Terminal

Pages(us)   == {PageOf[u] : u \in us}
Selected(t) == {u \in Urls : candidates[t][u] \in {"web", "native"}}
Native(t)   == {u \in Urls : candidates[t][u] = "native"}
\* READ and SUBMIT_EVIDENCE accept a source of the task or associated to it.
Readable(t, s) == s.origin = t \/ <<t, s>> \in assoc

Init ==
    /\ status = [t \in Tasks |-> "waiting"]
    /\ failure = [t \in Tasks |-> "none"]
    /\ requeues = [t \in Tasks |-> 0]
    /\ runs = [t \in Tasks |-> <<>>]
    /\ candidates = [t \in Tasks |-> [u \in Urls |-> "none"]]
    /\ \E us \in SUBSET Foreign :
          sources = {[url |-> u, asked |-> u, origin |-> "other"] : u \in us}
    /\ paged = sources /\ chunked = {} /\ assoc = {}
    /\ evidence = {} /\ coverage = {}
    /\ mission = [queries |-> {}, visited |-> {}, sources |-> {}, verified |-> {},
                  merged |-> {}, outcome |-> [t \in Tasks |-> ""]]
    /\ coord = "none" /\ tried = {} /\ pc = "idle" /\ w = NoWork
    /\ downloads = [p \in Pages(Urls) |-> 0]
    /\ cut = {} /\ resumed = 0 /\ crashes = 0

-----------------------------------------------------------------------------
(* The coordinator. *)

Untried == {t \in Tasks : status[t] = "waiting" /\ t \notin tried}

(* _requeue_transient_research_tasks: a task whose latest failure was the  *)
(* transport's and whose scope is not covered, a bounded number of times.  *)
Requeueable ==
    {t \in Tasks : /\ coord = "failed" /\ status[t] = "research_failed"
                   /\ failure[t] = "transient"
                   /\ \A e \in coverage : e[1] # t
                   /\ requeues[t] < MAX_TRANSIENT_TASK_RESUMES}

(* submit *)
Submit ==
    /\ coord # "running"
    /\ resumed <= MaxResumes /\ resumed' = resumed + 1
    /\ status' = [t \in Tasks |-> IF t \in Requeueable THEN "waiting" ELSE status[t]]
    /\ requeues' = [t \in Tasks |-> IF t \in Requeueable THEN requeues[t] + 1
                                    ELSE requeues[t]]
    /\ \E t \in Tasks : status'[t] = "waiting"
    /\ coord' = "running" /\ tried' = {}
    /\ UNCHANGED <<failure, runs, artifacts, evidence, coverage, mission, pc, w,
                   history, crashes>>

(* merge_worker: what the run did and the sources it may read are added to *)
(* the mission, once.                                                      *)
SourcesOf(t, run) ==
    {e[2] : e \in run.verified \cap evidence}
      \cup {s \in sources : s.origin = t \/ <<t, s>> \in assoc}

MergedWith(t, i) ==
    LET run == runs[t][i] IN
    [mission EXCEPT !.queries = @ \cup run.queries, !.visited = @ \cup run.visited,
                    !.sources = @ \cup SourcesOf(t, run),
                    !.verified = @ \cup run.verified,
                    !.merged = @ \cup {<<t, i>>}, !.outcome[t] = run.outcome]

\* Fault: only the first run of a task is merged.
MergedFirst(t) ==
    LET i == Len(runs[t]) IN
    IF i = 0 \/ \E m \in mission.merged : m[1] = t THEN mission ELSE MergedWith(t, i)

Merged(t) ==
    LET i == Len(runs[t]) IN
    IF i = 0 \/ <<t, i>> \in mission.merged THEN mission ELSE MergedWith(t, i)

(* prepare_worker: the sources of the mission are associated to the task.  *)
PrepareWorker(t) == assoc' = assoc \cup ({t} \X mission.sources)

(* execute goes on with the last run, unless it has an outcome.            *)
CurrentRun(t) ==
    LET n == Len(runs[t]) IN
    IF n > 0 /\ runs[t][n].outcome = "" THEN [at |-> n, run |-> runs[t][n]]
    ELSE [at |-> n + 1, run |-> NewRun]

(* worker_dedup_state: what the mission has tried is copied once.          *)
Worker(t) ==
    [NoWork EXCEPT !.task = t, !.at = CurrentRun(t).at, !.run = CurrentRun(t).run,
                   !.queries = mission.queries, !.visited = mission.visited]

(* run_once, up to the agent: a task with a run that has ended is only     *)
(* projected and merged; its status is left as it is.                      *)
RunOnce(t) ==
    /\ PrepareWorker(t)
    /\ IF HasEnded(t)
       THEN w' = [NoWork EXCEPT !.task = t] /\ pc' = "projecting"
       ELSE w' = Worker(t) /\ pc' = "deciding"

RunTask ==
    /\ coord = "running" /\ pc = "idle"
    /\ \E i \in DOMAIN TaskSeq :
          /\ TaskSeq[i] \in Untried
          /\ \A j \in 1..(i - 1) : TaskSeq[j] \notin Untried
          /\ tried' = tried \cup {TaskSeq[i]}
          /\ RunOnce(TaskSeq[i])
    /\ UNCHANGED <<taskVars, candidates, sources, paged, chunked, evidence,
                   coverage, mission, coord, history, resumed, crashes>>

(* project: the coverage is rebuilt from everything a run has verified; it *)
(* raises when a run cites evidence that is not stored.                    *)
Cited == UNION {r.verified : r \in UNION {ToSet(runs[t]) : t \in Tasks}}

(* The round is over: the coverage is refreshed, which may fail.           *)
EndRound ==
    /\ coord = "running" /\ pc = "idle" /\ Untried = {}
    /\ \/ coord' = "completed" /\ Cited \subseteq evidence /\ coverage' = Cited
       \/ coord' = "failed" /\ UNCHANGED coverage
    /\ UNCHANGED <<taskVars, artifacts, evidence, mission, tried, pc, w, history,
                   resumed, crashes>>

(* The process dies; reconcile_interrupted closes the coordinator's run.   *)
Crash ==
    /\ crashes < MaxCrashes /\ crashes' = crashes + 1
    /\ coord = "running"
    /\ coord' = "failed" /\ pc' = "idle" /\ w' = NoWork
    /\ cut' = IF pc \in {"projecting", "merging"} THEN cut \cup {w.task} ELSE cut
    /\ UNCHANGED <<taskVars, artifacts, evidence, coverage, mission, tried,
                   downloads, resumed>>

-----------------------------------------------------------------------------
(* The agent: one action of the LLM and its execution.                     *)

OutOfBudget == w.run.steps >= MaxSteps \/ Cardinality(w.run.failed) >= MaxFailed

Stepped == [w.run EXCEPT !.steps = @ + 1]

\* Fault: a rejected action is not counted as a step.
RejectedFaulty == [w EXCEPT !.run = w.run]

(* An action that is known to be invalid is not carried out.               *)
Rejected == [w EXCEPT !.run = Stepped]

(* An action that was tried and failed may not be tried again.             *)
FailedBy(id) == [w EXCEPT !.run = [Stepped EXCEPT !.failed = @ \cup {id}]]

Decides ==
    /\ pc = "deciding" /\ ~OutOfBudget
    /\ pc' = "saving"
    /\ UNCHANGED <<taskVars, coverage, mission, coord, tried, cut, resumed, crashes>>

(* _budget_outcome *)
BudgetOutcome ==
    /\ pc = "deciding" /\ OutOfBudget
    /\ w' = [w EXCEPT !.run.outcome = IF w.run.verified # {} THEN "PARTIAL"
                                      ELSE "EXHAUSTED"]
    /\ pc' = "saving"
    /\ UNCHANGED <<taskVars, artifacts, evidence, coverage, mission, coord, tried,
                   history, resumed, crashes>>

(* FINISH: what the LLM claims is corrected by what was verified.          *)
Outcome(claimed) ==
    IF w.run.verified = {} THEN "EXHAUSTED"
    ELSE IF claimed = "EXHAUSTED" THEN "PARTIAL"
    ELSE claimed

FinishAction ==
    /\ Decides
    /\ \E claimed \in Terminal :
          w' = [w EXCEPT !.run = [Stepped EXCEPT !.outcome = Outcome(claimed)]]
    /\ UNCHANGED <<artifacts, evidence, downloads>>

(* _validate_research_policy_action: a field is missing. *)
InvalidAction ==
    /\ Decides /\ w' = Rejected
    /\ UNCHANGED <<artifacts, evidence, downloads>>

(* _search_with_collector adds what the web brings and the selection takes; *)
(* a candidate that is selected stays so. *)
WebFound(c, hits) == [u \in Urls |-> IF u \in hits /\ c[u] # "native" THEN "web" ELSE c[u]]

(* _search_zhihu_candidates: what the community has is not selected yet. *)
ZhihuFound(c, hits) == [u \in Urls |-> IF u \in hits /\ c[u] = "none" THEN "pending" ELSE c[u]]

(* _select_pending_external_candidates: by the quality of the page, for    *)
(* good. *)
Judged(c, good) ==
    [u \in Urls |-> IF c[u] # "pending" THEN c[u] ELSE IF u \in good THEN "native" ELSE "rejected"]

(* A search asks the web, then the community; that may raise at any point. *)
Found(c) ==
    LET brought == {ZhihuFound(WebFound(c, web), zhihu) :
                       web \in SUBSET Urls, zhihu \in SUBSET ZhihuUrls}
    IN brought \cup {Judged(d, good) : d \in brought, good \in SUBSET ZhihuUrls}

(* SEARCH.  A query is remembered before it is checked; a wide scope needs *)
(* an earlier search or an objective about experience or feedback.         *)
Search(q, wide) ==
    LET id == <<"SEARCH", q>>
        asked == [Stepped EXCEPT !.queries = @ \cup {q}] IN
    /\ Decides
    /\ IF id \in w.run.failed \/ q \in w.queries \/ q \in w.run.queries
       THEN w' = Rejected /\ UNCHANGED candidates
       ELSE IF \/ q \notin Anchored
               \/ w.run.searches >= MaxSearches
               \/ wide /\ w.run.searches = 0 /\ w.task \notin FeedbackTasks
       THEN /\ w' = [w EXCEPT !.run = [asked EXCEPT !.failed = @ \cup {id}]]
            /\ UNCHANGED candidates
       ELSE /\ w' = [w EXCEPT !.run = [asked EXCEPT !.searches = @ + 1]]
            /\ \E c \in Found(candidates[w.task]) :
                  candidates' = [candidates EXCEPT ![w.task] = c]
    /\ UNCHANGED <<sources, paged, chunked, assoc, evidence, downloads>>

-----------------------------------------------------------------------------
(* FETCH. *)

(* ProductionResearchTools.fetch: a candidate of the same page, the ones   *)
(* with their own text first, then the one written like the URL.           *)
Candidate(u) ==
    LET same == {c \in Selected(w.task) : PageOf[c] = PageOf[u]} IN
    IF same \cap Native(w.task) # {} THEN same \cap Native(w.task)
    ELSE IF u \in same THEN {u} ELSE same

Known(u) == {s \in sources : u \in {s.url, s.asked}}

(* _associate_reused_source: only for a URL the task found or was given,   *)
(* as it is written.                                                       *)
Associated(s, u) ==
    IF u \in Seeds \/ u \in Candidate(u) THEN assoc \cup {<<w.task, s>>} ELSE assoc

Visited(u, n) ==
    [w EXCEPT !.run = [Stepped EXCEPT !.visited = @ \cup {u}, !.sources = @ + n]]

FetchFails(u) ==
    w' = [w EXCEPT !.run = [Stepped EXCEPT !.failed = @ \cup {<<"FETCH", u>>},
                                           !.rejected = @ \cup {u}]]

(* A new source is saved, its page after it, see SavePage.                 *)
NewSource(s, u) ==
    /\ sources' = sources \cup {s}
    /\ w' = [Visited(u, 1) EXCEPT !.src = {s}]
    /\ downloads' = [downloads EXCEPT ![PageOf[s.asked]] = @ + 1]
    /\ UNCHANGED <<paged, chunked, assoc>>

Reuse(s, u) ==
    /\ assoc' = Associated(s, u)
    /\ w' = Visited(u, 0) /\ pc' = "saving"
    /\ UNCHANGED <<sources, paged, chunked, downloads>>

(* fetch_and_persist_url: a source known under the URL is used again, also *)
(* when it is only known under the one the page redirects to.              *)
FetchWeb(u) ==
    IF Known(u) # {} THEN \E s \in Known(u) : Reuse(s, u)
    ELSE \/ /\ FetchFails(u) /\ pc' = "saving"
            /\ UNCHANGED <<sources, paged, chunked, assoc, downloads>>
         \/ \E final \in {v \in Urls : PageOf[v] = PageOf[u]} :
               IF Known(final) # {} THEN \E s \in Known(final) : Reuse(s, u)
               ELSE /\ NewSource([url |-> final, asked |-> u, origin |-> w.task], u)
                    /\ pc' = "paging"

(* The Zhihu tool has returned the text with the search.                   *)
FetchNative(u) ==
    \E c \in Candidate(u) :
       /\ NewSource([url |-> c, asked |-> c, origin |-> w.task], u)
       /\ pc' = "paging"

Blocked(u) ==
    \/ <<"FETCH", u>> \in w.run.failed
    \/ PageOf[u] \in Pages(w.visited \cup w.run.visited \cup w.run.rejected)

Fetch(u) ==
    /\ pc = "deciding" /\ ~OutOfBudget
    /\ IF Blocked(u)
       THEN /\ w' = [w EXCEPT !.run = [Stepped EXCEPT !.rejected = @ \cup {u}]]
            /\ pc' = "saving"
            /\ UNCHANGED <<sources, paged, chunked, assoc, downloads>>
       ELSE IF \/ PageOf[u] \notin Pages(Selected(w.task) \cup Seeds)
               \/ w.run.sources >= MaxSources
       THEN /\ FetchFails(u) /\ pc' = "saving"
            /\ UNCHANGED <<sources, paged, chunked, assoc, downloads>>
       ELSE IF Candidate(u) \cap Native(w.task) # {} THEN FetchNative(u)
       ELSE FetchWeb(u)
    /\ UNCHANGED <<taskVars, candidates, evidence, coverage, mission, coord, tried,
                   cut, resumed, crashes>>

(* The page of the new source is saved after it, native text is chunked.   *)
SavePage ==
    /\ pc = "paging" /\ pc' = "saving"
    /\ paged' = paged \cup w.src
    /\ chunked' = chunked \cup {s \in w.src : s.url \in Native(w.task)}
    /\ w' = [w EXCEPT !.src = {}]
    /\ UNCHANGED <<taskVars, candidates, sources, assoc, evidence, coverage,
                   mission, coord, tried, history, resumed, crashes>>

-----------------------------------------------------------------------------
(* READ and SUBMIT_EVIDENCE. *)

(* READ chunks the page; a source without one cannot be read.              *)
Read(s) ==
    /\ Decides
    /\ IF <<"READ", s>> \in w.run.failed THEN w' = Rejected /\ UNCHANGED chunked
       ELSE IF s \notin sources \/ ~Readable(w.task, s) \/ s \notin paged
       THEN w' = FailedBy(<<"READ", s>>) /\ UNCHANGED chunked
       ELSE /\ w' = [w EXCEPT !.run = Stepped]
            /\ chunked' = chunked \cup {s}
    /\ UNCHANGED <<candidates, sources, paged, assoc, evidence, downloads>>

\* Fault: a quote is taken from any source that has chunks.
VerifiableFaulty(s) == s \in chunked

(* verify_candidate_evidence: the source is the task's or associated to    *)
(* it, and its chunk and page are those the quote is taken from.           *)
Verifiable(s) == s \in chunked /\ s \in paged /\ Readable(w.task, s)

(* SUBMIT_EVIDENCE: the evidence is saved at once, the run that cites it   *)
(* after it.                                                               *)
SubmitEvidence(s, verbatim) ==
    LET id == <<"SUBMIT", s, verbatim>>  e == <<w.task, s>> IN
    /\ Decides
    /\ IF id \in w.run.failed THEN w' = Rejected /\ UNCHANGED evidence
       ELSE IF ~verbatim \/ ~Verifiable(s)
       THEN w' = FailedBy(id) /\ UNCHANGED evidence
       ELSE /\ evidence' = evidence \cup {e}
            /\ w' = [w EXCEPT !.run = [Stepped EXCEPT !.verified = @ \cup {e}]]
    /\ UNCHANGED <<artifacts, downloads>>

\* The sources the LLM may name: those there are, and one there is not.
NoSource == [url |-> "none", asked |-> "none", origin |-> "none"]

(* _save replaces the run or appends it. *)
Saved ==
    LET r == IF w.run.outcome = "" THEN w.run ELSE Ended(w.run) IN
    [runs EXCEPT ![w.task] = IF w.at > Len(@) THEN Append(@, r)
                             ELSE [@ EXCEPT ![w.at] = r]]

Save ==
    /\ pc = "saving"
    /\ runs' = Saved
    /\ pc' = IF w.run.outcome = "" THEN "deciding" ELSE "settling"
    /\ UNCHANGED <<status, failure, requeues, artifacts, evidence, coverage, mission,
                   coord, tried, w, history, resumed, crashes>>

-----------------------------------------------------------------------------
(* run_once, after the agent. *)

Settled(t) == IF Last(runs[t]).verified # {} THEN "evidence_extracted"
              ELSE "evidence_exhausted"

SaveStatus ==
    /\ pc = "settling" /\ pc' = "projecting"
    /\ status' = [status EXCEPT ![w.task] = Settled(w.task)]
    /\ UNCHANGED <<failure, requeues, runs, artifacts, evidence, coverage, mission,
                   coord, tried, w, history, resumed, crashes>>

Project ==
    /\ pc = "projecting"
    /\ IF Cited \subseteq evidence
       THEN coverage' = Cited /\ pc' = "merging"
       ELSE UNCHANGED coverage /\ pc' = "failing"
    /\ UNCHANGED <<taskVars, artifacts, evidence, mission, coord, tried, w, history,
                   resumed, crashes>>

(* The worker merges, and so does the coordinator, which finds it done. *)
Merge ==
    /\ pc = "merging" /\ pc' = "idle" /\ w' = NoWork
    /\ mission' = Merged(w.task)
    /\ UNCHANGED <<taskVars, artifacts, evidence, coverage, coord, tried, history,
                   resumed, crashes>>

-----------------------------------------------------------------------------
(* The LLM's call fails; AgentRuntime catches it, run_once raises it and   *)
(* _record_research_task_failure saves it, step by step.                   *)

DecisionFails ==
    /\ pc = "deciding" /\ ~OutOfBudget /\ pc' = "failing"
    /\ UNCHANGED <<taskVars, artifacts, evidence, coverage, mission, coord, tried, w,
                   history, resumed, crashes>>

RecordFailure ==
    /\ pc = "failing" /\ pc' = "failrun"
    /\ \E kind \in {"transient", "permanent"} :
          failure' = [failure EXCEPT ![w.task] = kind]
    /\ UNCHANGED <<status, requeues, runs, artifacts, evidence, coverage, mission,
                   coord, tried, w, history, resumed, crashes>>

(* The last saved run of the task, or a new one, is failed; what it has    *)
(* verified is taken back.                                                 *)
FailedRuns(t) ==
    IF HasRun(t)
    THEN [runs[t] EXCEPT ![Len(runs[t])] =
             [Ended(@) EXCEPT !.outcome = "FAILED", !.verified = {}]]
    ELSE <<[NewRun EXCEPT !.outcome = "FAILED"]>>

FailRun ==
    /\ pc = "failrun" /\ pc' = "dropping"
    /\ runs' = [runs EXCEPT ![w.task] = FailedRuns(w.task)]
    /\ UNCHANGED <<status, failure, requeues, artifacts, evidence, coverage, mission,
                   coord, tried, w, history, resumed, crashes>>

(* All evidence of the task is deleted, after no run cites it any more. *)
DropEvidence ==
    /\ pc = "dropping" /\ pc' = "failtask"
    /\ evidence' = {e \in evidence : e[1] # w.task}
    /\ UNCHANGED <<taskVars, artifacts, coverage, mission, coord, tried, w, history,
                   resumed, crashes>>

FailTask ==
    /\ pc = "failtask" /\ pc' = "merging"
    /\ status' = [status EXCEPT ![w.task] = "research_failed"]
    /\ UNCHANGED <<failure, requeues, runs, artifacts, evidence, coverage, mission,
                   coord, tried, w, history, resumed, crashes>>

-----------------------------------------------------------------------------
WorkerStep ==
    \/ FinishAction \/ InvalidAction \/ BudgetOutcome
    \/ \E q \in Queries, wide \in BOOLEAN : Search(q, wide)
    \/ \E u \in Urls : Fetch(u)
    \/ SavePage
    \/ \E s \in sources \cup {NoSource} : Read(s)
    \/ \E s \in sources, verbatim \in BOOLEAN : SubmitEvidence(s, verbatim)
    \/ Save \/ SaveStatus \/ Project \/ Merge
    \/ DecisionFails \/ RecordFailure \/ FailRun \/ DropEvidence \/ FailTask

Next == Submit \/ RunTask \/ EndRound \/ Crash \/ WorkerStep

(* The coordinator's thread goes on: every LLM call and every fetch has a  *)
(* timeout.  Nobody has to submit, to stop or to crash.                    *)
Spec == Init /\ [][Next]_vars /\ WF_vars(WorkerStep)

-----------------------------------------------------------------------------
(* Properties. *)

IsSource(s) == /\ s.url \in Urls /\ s.asked \in Urls
               /\ s.origin \in Tasks \cup {"other"}

(* Every variable has its type, and no run goes beyond its budget. *)
TypeOK ==
    /\ status \in [Tasks -> {"waiting", "evidence_extracted", "evidence_exhausted",
                             "research_failed"}]
    /\ failure \in [Tasks -> {"none", "transient", "permanent"}]
    /\ requeues \in [Tasks -> 0..MAX_TRANSIENT_TASK_RESUMES]
    /\ \A t \in Tasks : \A r \in ToSet(runs[t]) \cup {w.run} :
          /\ r.steps <= MaxSteps /\ r.searches <= MaxSearches
          /\ r.sources <= MaxSources /\ Cardinality(r.failed) <= MaxFailed
          /\ r.queries \subseteq Queries /\ r.visited \cup r.rejected \subseteq Urls
    /\ \A s \in sources : IsSource(s)
    /\ chunked \subseteq paged /\ paged \subseteq sources
    /\ assoc \subseteq Tasks \X sources
    /\ coord \in {"none", "running", "completed", "failed"}
    /\ tried \subseteq Tasks /\ cut \subseteq Tasks

(* No saved run ever cites evidence that is not stored, whatever is taken  *)
(* back and wherever the process dies: _record_research_task_failure       *)
(* deletes evidence, and project raises on a citation it cannot resolve,   *)
(* which would fail every later task of the whole analysis.                *)
RunsCiteStoredEvidence == Cited \subseteq evidence

(* Evidence is only ever taken from a page that is stored and by a task    *)
(* that may read it, also when the source was fetched for another task.    *)
EvidenceIsTraceable ==
    \A e \in evidence : e[2] \in paged /\ Readable(e[1], e[2])

(* A task's status tells what its last run found: evidence that is still   *)
(* stored, none, or a failure whose evidence is gone.                      *)
StatusIsTrue ==
    \A t \in Tasks :
       /\ status[t] = "evidence_extracted" =>
             Last(runs[t]).outcome \in Terminal /\ Last(runs[t]).verified # {}
       /\ status[t] = "evidence_exhausted" =>
             Last(runs[t]).outcome = "EXHAUSTED" /\ Last(runs[t]).verified = {}
       /\ status[t] = "research_failed" =>
             Last(runs[t]).outcome = "FAILED" /\ \A e \in evidence : e[1] # t

(* A page is downloaded once for all the tasks of a mission, unless the    *)
(* process died in between: the memory of the mission and of the run cover *)
(* the sources that are not looked up in the store, and failed tasks.      *)
DownloadedOnce == \A p \in DOMAIN downloads : downloads[p] <= 1 + crashes

(* When nothing runs, the mission knows what came of every task that is    *)
(* settled, except where the process died before it was told.              *)
MissionKnowsItsWorkers ==
    pc = "idle" =>
       \A t \in Tasks \ cut :
          status[t] # "waiting" =>
             /\ mission.outcome[t] = Last(runs[t]).outcome
             /\ Last(runs[t]).verified \subseteq mission.verified

(* No LLM call is paid for a task that one of its runs has ended. *)
EndedIsLeftAlone == pc = "deciding" => ~HasEnded(w.task)

(* A run that was interrupted is gone on with, with what is left of its    *)
(* budget: another run is only begun after one that failed.                *)
InterruptedIsResumed ==
    \A t \in Tasks : \A i \in 1..(Len(runs[t]) - 1) : runs[t][i].outcome = "FAILED"

(* All evidence can be traced and was paid for once. *)
EvidenceIsSound ==
    TypeOK /\ EvidenceIsTraceable /\ RunsCiteStoredEvidence /\ DownloadedOnce

(* The saved runs, the tasks and the mission tell one story. *)
RunsAreAccounted ==
    MissionKnowsItsWorkers /\ StatusIsTrue /\ InterruptedIsResumed /\ EndedIsLeftAlone

(* A worker comes to an end, whatever the LLM answers. *)
WorkerEnds == pc # "idle" ~> pc = "idle"

-----------------------------------------------------------------------------
(* What the repository says and the code does not keep. *)

(* A worker may read what it has fetched and what it is kept from fetching *)
(* because the mission has it ("请 READ 已共享 Source",                      *)
(* execution/research_agent.py:1830).                                      *)
FetchedIsReadable ==
    pc = "deciding" =>
       \A u \in w.visited \cup w.run.visited :
          \E s \in sources : PageOf[u] \in {PageOf[s.url], PageOf[s.asked]}
                                /\ Readable(w.task, s)

(* The coverage rests on evidence that is stored. *)
CoverageIsStored == coverage \subseteq evidence
=============================================================================
