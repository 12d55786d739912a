------------------------------- MODULE MCWorkers -------------------------------
(***************************************************************************)
(* Four threads that outlive the request that started them, each on its    *)
(* own: the deterministic research loop, the analysis, the calls of the    *)
(* LLM client, and the event stream with the page behind it.  A behaviour  *)
(* is about one of them.                                                   *)
(***************************************************************************)
EXTENDS StructuredCall

CONSTANTS
    Scopes, Pages, Social, Quotes, MaxRounds, MaxPerTask, MaxTotal, MaxActions,   \* the loop's
    MaxManual, MaxLosses,
    Tasks, Shards, Pipelines, MaxWork, MaxKills                                   \* the analysis's

(* A page with one quote, one with two, one of a social site with two, and *)
(* one with nothing to quote.                                              *)
MCQuotes == [p \in {"one", "two", "forum", "empty"} |->
                CASE p = "one" -> 1 [] p = "two" -> 2 [] p = "forum" -> 2 [] p = "empty" -> 0]

VARIABLES
    service,                                                \* which of the four
    plan, tasks, board, sources, evidence, coverage, run, thread, manual, losses,  \* the loop's
    verified, ended, projected, gaps, assessed, portfolio,  \* the analysis's
    claims, cited, pc, w, worked, kills,
    status, stop, log, follower, owed,                      \* the stream's
    sse, page, misled, loads, resumes, restarts

loop == <<plan, tasks, board, sources, evidence, coverage, run, thread, manual, losses>>
analysis == <<verified, ended, projected, gaps, assessed, portfolio, claims, cited, pc, w,
              worked, kills>>
stream == <<status, stop, log, follower, owed, sse, page, misled, loads, resumes, restarts>>

RL == INSTANCE ResearchLoop WITH MaxCrashes <- MaxLosses, crashes <- losses

PA == INSTANCE ProfessionalAnalyst WITH
        MaxCrashes <- MaxKills,
        evidence <- verified, coverage <- projected, crashes <- kills

(* Both buttons; one page load, resume and restart. *)
ES == INSTANCE EventStream WITH
        Console <- TRUE, MaxLoads <- 1, MaxResumes <- 1, MaxCrashes <- 1, MaxEvents <- 3,
        thread <- follower, crashes <- restarts

ASSUME WorkersAssumption ==
    /\ RL!BudgetAssumption /\ PA!AnalystAssumption
    /\ CallAssumption /\ Contract!ContractAssumption /\ ES!StreamAssumption

-----------------------------------------------------------------------------

(* The others run beside the plan in which nothing was covered before. *)
WorkersInit ==
    /\ service \in {"loop", "analysis", "client", "stream"}
    /\ Init /\ RL!Init /\ PA!Init /\ ES!Init
    /\ service # "loop" => RL!Waiting(tasks) = DOMAIN tasks

Only(name) == service = name /\ UNCHANGED service

OnlyLoop == Only("loop") /\ UNCHANGED <<analysis, vars, stream>>
OnlyAnalysis == Only("analysis") /\ UNCHANGED <<loop, vars, stream>>
OnlyClient == Only("client") /\ UNCHANGED <<loop, analysis, stream>>
OnlyStream == Only("stream") /\ UNCHANGED <<loop, analysis, vars>>

WorkersNext ==
    \/ OnlyLoop /\ RL!Next
    \/ OnlyAnalysis /\ PA!Next
    \/ OnlyClient /\ Next
    \/ OnlyStream /\ ES!Next

workers == <<service, loop, analysis, vars, stream>>

(* The fairness of each, see the modules: the threads go on, a lost run is *)
(* looked for, the API's generator and the page's timers run.  Only one of *)
(* them has steps, so a conjunct may stand for one of each.                *)
ThreadsGoOn ==
    \/ OnlyLoop /\ RL!ThreadStep
    \/ OnlyAnalysis /\ PA!RunStep
    \/ OnlyStream /\ ES!Stream
RunsAreTakenUp ==
    \/ OnlyLoop /\ RL!ReconcileInterrupted
    \/ OnlyStream /\ ES!HarnessStarts
WorkersSpec ==
    /\ WorkersInit /\ [][WorkersNext]_workers
    /\ WF_workers(ThreadsGoOn)
    /\ WF_workers(RunsAreTakenUp)
    /\ WF_workers(OnlyStream /\ ES!HarnessEnds)
    /\ WF_workers(OnlyStream /\ ES!HarnessTellsEnd)
    /\ WF_workers(OnlyStream /\ ES!Page)
    /\ WF_workers(OnlyStream /\ page.conn = "waiting" /\ ES!PageLoadsRun)

-----------------------------------------------------------------------------

(* See ResearchLoop: what the loop says it covered, spent and read is so.  *)
LoopIsHonest == RL!LoopIsHonest

(* See ProfessionalAnalyst: an assessment is paid for once, and no gap of  *)
(* the research is lost over it. *)
NothingIsLostOrPaidTwice == PA!NothingIsLostOrPaidTwice

(* Every thread comes to its end, whatever the LLM answers and wherever    *)
(* the process dies: the loop, the analysis, and the page that follows a   *)
(* run, which comes to show how it ended.  What the analysis has paid for  *)
(* is kept.                                                                *)
WorkersEnd ==
    /\ []<>(run.status \in RL!Ended \cup {"none"} /\ pc = "idle" /\ ES!PageShowsTheEnd)
    /\ PA!AnalysisIsKept
=============================================================================
