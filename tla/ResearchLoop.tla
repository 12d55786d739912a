------------------------------ MODULE ResearchLoop ------------------------------
(***************************************************************************)
(* The older, deterministic research loop of one analysis                  *)
(* (backend/app/execution/research_loop.py): a thread that takes the       *)
(* records of the task board one by one and lets the collector, the        *)
(* extractor or the coverage analyst (their run_once) serve them, until    *)
(* the plan is covered, a budget is spent or nothing is left to run.       *)
(* The three services can also be called by hand, one step at a time, at   *)
(* any moment (backend/app/api/main.py); such a call is one step here,     *)
(* between two steps of the loop's thread.                                 *)
(*                                                                         *)
(* The analysis has one competitor: a scope is one of its dimensions.  A   *)
(* research task is its scope and its round; a page holds Quotes[p]        *)
(* quotes, the same for every scope, and is of a social site or not.       *)
(***************************************************************************)
EXTENDS Naturals, FiniteSets, FiniteSetsExt

CONSTANTS Scopes, Pages, Social, Quotes,
          MaxRounds, MaxPerTask, MaxTotal,   \* the plan's budget
          MaxActions,                        \* the loop's
          MaxManual, MaxCrashes              \* bounds of the model

(* What the constants have to be; the instance is assumed to keep it. *)
BudgetAssumption ==
    /\ MaxRounds \in 1 .. 3 /\ MaxPerTask \in Nat \ {0} /\ MaxTotal \in Nat \ {0}
    /\ MaxActions \in Nat /\ Social \subseteq Pages /\ IsFiniteSet(Pages)
    /\ Quotes \in [Pages -> Nat]

VARIABLES
    plan,      \* research_plans: status, and the gaps it calls exhausted
    tasks,     \* research_tasks: the status of each
    board,     \* task_board: the records by kind of work and research task
    sources,   \* the pages collected
    evidence,  \* quotes: the page, the scope, the number of the quote
    coverage,  \* evidence_coverage, as saved by the last evaluation
    run,       \* research_loop_runs
    thread,    \* the pool's thread
    manual,    \* the calls by hand so far
    crashes

vars == <<plan, tasks, board, sources, evidence, coverage, run, thread, manual, crashes>>

Ids == Scopes \X (1 .. MaxRounds)
Kinds == {"extract", "evaluate", "collect"}
Stages == [extract |-> "extractor", evaluate |-> "coverage", collect |-> "collector"]
Ended == {"completed", "requires_human", "failed"}
Idle == [pc |-> "idle", kind |-> "", id |-> <<>>, tasks |-> <<>>,
         limit |-> 0, got |-> {}]

Patch(f, g) == [x \in DOMAIN f \cup DOMAIN g |-> IF x \in DOMAIN g THEN g[x] ELSE f[x]]
Put(f, x, v) == Patch(f, [y \in {x} |-> v])

-----------------------------------------------------------------------------
(* The board. *)

Record(role, status, pages) == [role |-> role, status |-> status, pages |-> pages]
Open(kind, id, role, pages) == [k \in {<<kind, id>>} |-> Record(role, "pending", pages)]
DependsOn(k) == CASE k[1] = "collect" -> {}
                  [] k[1] = "extract" -> {<<"collect", k[2]>>}
                  [] k[1] = "evaluate" -> {<<"extract", k[2]>>}

Marked(b) ==
    [k \in DOMAIN b |->
        IF b[k].status \notin {"pending", "ready"} THEN b[k]
        ELSE [b[k] EXCEPT !.status =
                 IF \A d \in DependsOn(k) : b[d].status = "completed"
                 THEN "ready" ELSE "pending"]]

Ready(b) == {k \in DOMAIN b : Marked(b)[k].status = "ready"}

Moved(b, kind, id, status) == [Marked(b) EXCEPT ![<<kind, id>>].status = status]

Waiting(t) == {i \in DOMAIN t : t[i] = "waiting_for_collector"}

(* What each service finds to claim. *)
Claimable(kind, b, t) ==
    {i \in DOMAIN t :
        /\ <<kind, i>> \in Ready(b)
        /\ kind = "collect" => b[<<kind, i>>].role = "collector" /\ i \in Waiting(t)}

-----------------------------------------------------------------------------
(* What is covered, and what the plan does about what is not. *)

Matches(e, s) == {q \in e : q[2] = s}

CoverageStatus(e, s) ==
    LET found == Matches(e, s)
    IN  IF found = {} THEN "missing"
        ELSE IF \A q \in found : q[1] \in Social THEN "weak"
        ELSE IF Cardinality(found) >= 2 THEN "sufficient"
        ELSE "partial"

Gaps(c) == {s \in Scopes : c[s] # "sufficient"}

RoundsOf(t, s) == {r \in 1 .. MaxRounds : <<s, r>> \in DOMAIN t}

CurrentRound(t) == Max({1} \cup {i[2] : i \in DOMAIN t})

SpentOut(n) == n >= MaxTotal

Supplements(t, c, n) ==
    LET next == CurrentRound(t) + 1
    IN  IF SpentOut(n) \/ next > MaxRounds THEN {}
        ELSE {<<s, next>> : s \in {x \in Gaps(c) :
                /\ RoundsOf(t, x) # {}
                /\ ~ (<<x, CurrentRound(t)>> \in Waiting(t))}}

Exhausted(t, c, n) ==
    {s \in Gaps(c) :
        SpentOut(n) \/ (RoundsOf(t, s) # {} /\ Max(RoundsOf(t, s)) >= MaxRounds)}

PlanOf(t, c, n) ==
    [status |-> IF Gaps(c) = {} THEN "ready_for_analysis"
                ELSE IF Exhausted(t, c, n) = Gaps(c) THEN "blocked"
                ELSE "needs_collection",
     exhausted |-> Exhausted(t, c, n)]

CoverageNow == [s \in Scopes |-> CoverageStatus(evidence, s)]

PublishedTasks(new) == Patch(tasks, [i \in new |-> "waiting_for_collector"])
PublishedRecords(b, new) ==
    Patch(b, [k \in {<<"collect", i>> : i \in new} |-> Record("researcher", "ready", {})])

Refresh(b) ==
    LET new == Supplements(tasks, CoverageNow, Cardinality(sources))
    IN  /\ coverage' = CoverageNow
        /\ plan' = PlanOf(tasks, CoverageNow, Cardinality(sources))
        /\ tasks' = PublishedTasks(new)
        /\ board' = PublishedRecords(b, new)

-----------------------------------------------------------------------------
(* The ends of the services: what is left of a record that was served. *)

Collected(got) == IF got = {} THEN "collection_failed" ELSE "collected"

AfterCollection(b, id, got) ==
    IF got = {} THEN Moved(b, "collect", id, "failed")
    ELSE Marked(Patch(Moved(b, "collect", id, "completed"),
                      Open("extract", id, "extractor", got)))

AfterExtraction(b, id) ==
    Marked(Patch(Moved(b, "extract", id, "completed"),
                 Open("evaluate", id, "analyst", {})))

(* The quotes of the pages that were collected for the task; quotes that are
   stored already are found again, not stored twice. *)
Extracted(b, id) ==
    UNION {{<<p, id[1], n>> : n \in 1 .. Quotes[p]} : p \in b[<<"extract", id>>].pages}

(* The URLs a collection tries, and those that it gets. *)
TriedUrls(limit) == {u \in SUBSET Pages : Cardinality(u) <= limit}

-----------------------------------------------------------------------------
Init ==
    /\ plan = [status |-> "needs_collection", exhausted |-> {}]
    /\ tasks \in {[i \in {<<s, 1>> : s \in Scopes} |->
                      IF i[1] \in c THEN "covered_by_snapshot"
                                    ELSE "waiting_for_collector"] :
                  c \in SUBSET Scopes \ {Scopes}}
    /\ board = [k \in {<<"collect", i>> : i \in DOMAIN tasks} |->
                   Record("collector",
                          IF k[2] \in Waiting(tasks) THEN "ready" ELSE "completed",
                          {})]
    /\ sources = {} /\ evidence = {}
    /\ coverage = [s \in Scopes |-> "none"]
    /\ run = [status |-> "none", reason |-> "", stage |-> "", actions |-> 0, sources |-> 0]
    /\ thread = Idle
    /\ manual = 0 /\ crashes = 0

Records == <<plan, tasks, board, sources, evidence, coverage>>

(* A loop is started once; a second request returns the run that is active
   and is refused when there is one that ended. *)
Submit ==
    /\ run.status = "none"
    /\ run' = [run EXCEPT !.status = "queued", !.sources = Cardinality(sources)]
    /\ thread' = [Idle EXCEPT !.pc = "queued"]
    /\ UNCHANGED <<Records, manual, crashes>>

Start ==
    /\ thread.pc = "queued"
    /\ run' = [run EXCEPT !.status = "running"]
    /\ thread' = [Idle EXCEPT !.pc = "decide"]
    /\ UNCHANGED <<Records, manual, crashes>>

Finish(status, reason) ==
    /\ run' = [run EXCEPT !.status = status, !.reason = reason, !.stage = "",
                          !.sources = Cardinality(sources)]
    /\ thread' = Idle

Fail == Finish("failed", "failed")

StopDecision ==
    IF plan.status = "ready_for_analysis" THEN <<"completed", "coverage_sufficient">>
    ELSE IF SpentOut(Cardinality(sources)) THEN <<"requires_human", "budget_exhausted">>
    ELSE IF plan.status = "blocked" /\ plan.exhausted # {}
         THEN <<"requires_human", "budget_exhausted">>
    ELSE IF run.actions >= MaxActions THEN <<"requires_human", "budget_exhausted">>
    ELSE <<>>

(* Mutant: a waiting research task comes first. *)
NextStageFaulty ==
    IF \E k \in Ready(board) : k[1] = "collect" /\ k[2] \in Waiting(tasks)
    THEN "collect"
    ELSE IF \E k \in Ready(board) : k[1] = "extract" THEN "extract"
    ELSE IF \E k \in Ready(board) : k[1] = "evaluate" THEN "evaluate"
    ELSE ""

NextStage ==
    IF \E k \in Ready(board) : k[1] = "extract" THEN "extract"
    ELSE IF \E k \in Ready(board) : k[1] = "evaluate" THEN "evaluate"
    ELSE IF \E k \in Ready(board) : k[1] = "collect" /\ k[2] \in Waiting(tasks)
         THEN "collect"
    ELSE ""

Decide ==
    /\ thread.pc = "decide"
    /\ IF StopDecision # <<>>
       THEN /\ Finish(StopDecision[1], StopDecision[2])
            /\ UNCHANGED board
       ELSE /\ board' = Marked(board)
            /\ IF NextStage = ""
               THEN Finish("requires_human", "no_runnable_task")
               ELSE /\ run' = [run EXCEPT !.stage = NextStage,
                                          !.sources = Cardinality(sources)]
                    /\ thread' = [Idle EXCEPT !.pc = "claim", !.kind = NextStage]
    /\ UNCHANGED <<plan, tasks, sources, evidence, coverage, manual, crashes>>

CollectLimit == Min({MaxPerTask, MaxTotal - Cardinality(sources)})

(* The service of the stage claims a record, with the research tasks that it
   has just loaded.  A collector that finds no URL hands its task to a human;
   nothing to claim, or no budget left, is an exception and ends the loop. *)
Claim ==
    /\ thread.pc = "claim"
    /\ \/ /\ \/ Claimable(thread.kind, board, tasks) = {}
             \/ thread.kind = "collect" /\ Cardinality(sources) >= MaxTotal
          /\ board' = Marked(board)
          /\ Fail /\ UNCHANGED tasks
       \/ /\ thread.kind = "collect" => CollectLimit >= 1
          /\ \E id \in Claimable(thread.kind, board, tasks) :
                \/ /\ board' = Moved(board, thread.kind, id, "running")
                   /\ thread' = [thread EXCEPT !.pc = "work", !.id = id, !.tasks = tasks,
                                                !.limit = CollectLimit]
                   /\ UNCHANGED <<tasks, run>>
                \/ /\ thread.kind = "collect"
                   /\ board' = Moved(board, "collect", id, "requires_human")
                   /\ tasks' = [tasks EXCEPT ![id] = "requires_human"]
                   /\ thread' = [Idle EXCEPT !.pc = "decide"]
                   /\ run' = [run EXCEPT !.actions = @ + 1]
    /\ UNCHANGED <<plan, sources, evidence, coverage, manual, crashes>>

(* The work of the stage.  A collection was given its budget when it was
   claimed; an extraction whose retrieval raises ends the loop and leaves
   its record running. *)
WorkCollect ==
    /\ thread.pc = "work" /\ thread.kind = "collect"
    /\ \E got \in TriedUrls(thread.limit) :
          /\ sources' = sources \cup got
          /\ thread' = [thread EXCEPT !.pc = "store", !.got = got]
    /\ UNCHANGED <<plan, tasks, board, evidence, coverage, run, manual, crashes>>

WorkExtract ==
    /\ thread.pc = "work" /\ thread.kind = "extract"
    /\ \/ /\ evidence' = evidence \cup Extracted(board, thread.id)
          /\ thread' = [thread EXCEPT !.pc = "store",
                                       !.got = Extracted(board, thread.id)]
          /\ UNCHANGED run
       \/ Fail /\ UNCHANGED evidence
    /\ UNCHANGED <<plan, tasks, board, sources, coverage, manual, crashes>>

WorkEvaluate ==
    /\ thread.pc = "work" /\ thread.kind = "evaluate"
    /\ Refresh(board)
    /\ thread' = [thread EXCEPT !.pc = "store"]
    /\ UNCHANGED <<sources, evidence, run, manual, crashes>>

(* The end of the stage: the research tasks that were loaded before the work
   are saved with the new status of one of them. *)
Store ==
    /\ thread.pc = "store"
    /\ CASE thread.kind = "collect" ->
              /\ tasks' = [thread.tasks EXCEPT ![thread.id] =
                              Collected(thread.got)]
              /\ board' = AfterCollection(board, thread.id, thread.got)
         [] thread.kind = "extract" /\ thread.got = {} ->
              /\ board' = Moved(board, "extract", thread.id, "failed")
              /\ UNCHANGED tasks
         [] thread.kind = "extract" /\ thread.got # {} ->
              /\ tasks' = [thread.tasks EXCEPT ![thread.id] = "evidence_extracted"]
              /\ board' = AfterExtraction(board, thread.id)
         [] thread.kind = "evaluate" ->
              /\ board' = Moved(board, "evaluate", thread.id, "completed")
              /\ UNCHANGED tasks
    /\ run' = [run EXCEPT !.actions = @ + 1, !.sources = Cardinality(sources)]
    /\ thread' = [Idle EXCEPT !.pc = "decide"]
    /\ UNCHANGED <<plan, sources, evidence, coverage, manual, crashes>>

(* The process ends; the next request for the loop's status closes its run. *)
Crash ==
    /\ crashes < MaxCrashes /\ thread.pc # "idle"
    /\ thread' = Idle /\ crashes' = crashes + 1
    /\ UNCHANGED <<Records, run, manual>>

ReconcileInterrupted ==
    /\ run.status \in {"queued", "running"} /\ thread.pc = "idle"
    /\ run' = [run EXCEPT !.status = "failed", !.reason = "failed"]
    /\ UNCHANGED <<Records, thread, manual, crashes>>

(* The steps by hand.  They know nothing of the loop or of its budget. *)
Hand(kind) ==
    /\ manual < MaxManual /\ manual' = manual + 1
    /\ Claimable(kind, board, tasks) # {}

CollectByHand ==
    /\ Hand("collect")
    /\ \E id \in Claimable("collect", board, tasks), got \in TriedUrls(MaxPerTask) :
          /\ sources' = sources \cup got
          /\ tasks' = [tasks EXCEPT ![id] = Collected(got)]
          /\ board' = AfterCollection(board, id, got)
    /\ UNCHANGED <<plan, evidence, coverage, run, thread, crashes>>

ExtractByHand ==
    /\ Hand("extract")
    /\ \E id \in Claimable("extract", board, tasks) :
          /\ evidence' = evidence \cup Extracted(board, id)
          /\ IF Extracted(board, id) = {}
             THEN /\ board' = Moved(board, "extract", id, "failed")
                  /\ UNCHANGED tasks
             ELSE /\ tasks' = [tasks EXCEPT ![id] = "evidence_extracted"]
                  /\ board' = AfterExtraction(board, id)
    /\ UNCHANGED <<plan, sources, coverage, run, thread, crashes>>

EvaluateByHand ==
    /\ Hand("evaluate")
    /\ \E id \in Claimable("evaluate", board, tasks) :
          Refresh(Moved(board, "evaluate", id, "completed"))
    /\ UNCHANGED <<sources, evidence, run, thread, crashes>>

Work == WorkCollect \/ WorkExtract \/ WorkEvaluate

ThreadStep == Start \/ Decide \/ Claim \/ Work \/ Store

Done == run.status \in Ended /\ UNCHANGED vars

Next ==
    \/ Submit \/ ThreadStep \/ Crash \/ ReconcileInterrupted
    \/ CollectByHand \/ ExtractByHand \/ EvaluateByHand
    \/ Done

Spec == Init /\ [][Next]_vars

(* The pool's thread goes on; a front end that shows the loop asks for its
   status again and again. *)
FairSpec == Spec /\ WF_vars(ThreadStep) /\ WF_vars(ReconcileInterrupted)

-----------------------------------------------------------------------------
(* Properties. *)

(* A loop that ended with coverage_sufficient leaves no scope without two
   quotes of which one at least is not of a social site, whoever collected
   and extracted them and whatever was saved over what (_stop_decision and
   _refresh_bounded_gap_state). *)
CompletedIsCovered ==
    run.status = "completed" =>
        \A s \in Scopes : CoverageStatus(evidence, s) = "sufficient"

(* The loop's collections never pass the plan's max_total_sources; only
   collections by hand do, for they are given no budget (_run_action). *)
SourceBudgetKept == Cardinality(sources) > MaxTotal => manual > 0

(* When the loop has ended, by itself or by an exception of its own, no pages
   that it collected wait for their extraction, unless the budget of sources
   or of actions is spent or the run was interrupted (_next_stage takes an
   extraction before anything else, _stop_decision comes before it). *)
PaidSourcesAreRead ==
    run.status \in Ended /\ manual = 0 /\ crashes = 0
    /\ ~ SpentOut(Cardinality(sources)) /\ run.actions < MaxActions
        => \A k \in Ready(board) : k[1] # "extract"

(* What the loop says of itself holds: that it has covered the plan, kept to
   the budget and read what it paid for. *)
LoopIsHonest == CompletedIsCovered /\ SourceBudgetKept /\ PaidSourcesAreRead

(* Every loop that was started ends, also when the process stopped under it
   (reconcile_interrupted). *)
EveryLoopSettles == run.status = "queued" ~> run.status \in Ended
=============================================================================
