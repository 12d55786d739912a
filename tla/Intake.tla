--------------------------------- MODULE Intake ---------------------------------
(***************************************************************************)
(* From a user's request to a research plan and its task board:            *)
(* IntentDraftService (backend/app/intake/service.py) parses a request     *)
(* into a draft and turns a confirmed draft into an analysis task;         *)
(* ExecutionPlanningService assesses the task against the local dataset    *)
(* (intake/planning.py); ResearchPlanningService (intake/research_planning *)
(* .py) lets the ResearchPlannerAgent (agents/research_planner.py) write   *)
(* the plan and its research tasks, and publishes the board.               *)
(*                                                                         *)
(* Every call is an API thread of its own.  The threads take no lock and   *)
(* save one artifact after the other from what they read before; a crash   *)
(* ends them all.  A draft or an edit of it is a record of fields:         *)
(*   question   there is a decision question                               *)
(*   primary    the product it is about, or ""                             *)
(*   others     comparison targets and competitors, in the order in which  *)
(*              the draft lists them                                       *)
(*   focus      the focus areas asked for                                  *)
(*   education  its words name online education                            *)
(*   discovery  competitors are to be discovered                           *)
(***************************************************************************)
EXTENDS Naturals, FiniteSets, Sequences, SequencesExt

CONSTANTS
    Names,        \* how products can be written
    Fold(_),      \* str.casefold of a name
    Alias(_),     \* the product of the dataset that a name is an alias of, or ""
    Catalog,      \* the products of the dataset, written as it writes them
    Supported,    \* the focus areas that the dataset covers
    Resolve(_),   \* the framework's dimension of a focus area, or ""
    Default,      \* the framework's default dimensions
    Contents,     \* what an LLM or a user can put in a draft
    Requests,     \* API threads
    MaxDrafts, MaxTasks, MaxRequests, MaxCrashes

ASSUME CatalogAssumption ==
    /\ Catalog \subseteq Names
    /\ \A n \in Names : Alias(n) \in Catalog \cup {""}
    /\ \A c \in Catalog : Alias(c) = c

Areas == UNION {c.focus : c \in Contents}

ASSUME IntakeAssumption ==
    /\ Contents \subseteq
          [question : BOOLEAN, primary : Names \cup {""}, others : Seq(Names),
           focus : SUBSET Areas, education : BOOLEAN, discovery : BOOLEAN]
    /\ MaxTasks \in Nat /\ MaxRequests \in Nat

VARIABLES
    drafts,     \* task_drafts by draft id: status, content, confirmed task
    tasks,      \* analysis_tasks by task id
    plans,      \* research_plans by task id
    research,   \* research_tasks by task id
    boards,     \* task_board by task id
    req,        \* each API thread: where it is and what it read
    overlap,    \* history: the tasks and drafts that two threads changed at once
    nextTask, requests, crashes

vars == <<drafts, tasks, plans, research, boards, req, overlap, nextTask, requests, crashes>>

DraftIds == 1 .. MaxDrafts
TaskIds == 1 .. MaxTasks
None == [status |-> "none"]
Idle == [at |-> "idle"]

-----------------------------------------------------------------------------
(* Normalisation of a draft. *)

(* clean_list: the first of the names that differ by case only stays. *)
FirstOnes(list) ==
    {i \in DOMAIN list : list[i] # "" /\ \A j \in 1 .. i - 1 : Fold(list[j]) # Fold(list[i])}

(* the n-th of the places is the one with n places up to it *)
Clean(list) ==
    LET kept == FirstOnes(list) IN
    [n \in 1 .. Cardinality(kept) |->
        list[CHOOSE i \in kept : Cardinality(kept \cap 1 .. i) = n]]

Seeds(content) ==
    Clean((IF content.primary = "" THEN <<>> ELSE <<content.primary>>) \o content.others)

Missing(content) ==
    (IF content.question THEN {} ELSE {"decision_question"})
        \cup (IF Seeds(content) = <<>> THEN {"competitors"} ELSE {})

Normalized(content) ==
    [content EXCEPT !.others = Seeds(content)]

DraftStatus(content) ==
    IF Missing(content) = {} THEN "ready" ELSE "needs_clarification"

-----------------------------------------------------------------------------
(* The assessment of a task against the dataset. *)

MatchedNames(task) == {n \in ToSet(task.competitors) : Alias(n) # ""}
MissingNames(task) == ToSet(task.competitors) \ MatchedNames(task)
Unsupported(task) == task.focus \ Supported

BlockingReasons(task) ==
    (IF task.education THEN {} ELSE {"industry"})
        \cup (IF MissingNames(task) = {} THEN {} ELSE {"competitors"})
        \cup (IF Unsupported(task) = {} THEN {} ELSE {"focus"})

(* competitor_coverage_ratio, as the two numbers that it compares *)
AllMatched(task) ==
    task.competitors # <<>> /\ Cardinality(MatchedNames(task)) = Len(task.competitors)
HalfMatched(task) ==
    task.competitors # <<>> /\ 2 * Cardinality(MatchedNames(task)) >= Len(task.competitors)

Compatibility(task) ==
    IF task.education /\ AllMatched(task) /\ Unsupported(task) = {} THEN "compatible"
    ELSE IF task.education /\ HalfMatched(task) THEN "partial"
    ELSE "incompatible"

-----------------------------------------------------------------------------
(* The planner. *)

Resolvable(task) == \A f \in task.focus : Resolve(f) # ""

Dimensions(task) ==
    IF task.focus = {} THEN Default ELSE {Resolve(f) : f \in task.focus}

(* The catalog's products that discovery adds: those that the list does not
   hold under the catalog's own name. *)
Discovered(task) ==
    IF task.discovery /\ task.primary # ""
          /\ (Alias(task.primary) # "" \/ task.primary \in Catalog)
    THEN Catalog \ ({Alias(task.primary)} \cup ToSet(task.competitors))
    ELSE {}

Competitors(task) == ToSet(task.competitors) \cup Discovered(task)

(* A live task is collected anew also where the snapshot has sources: the
   sources' addresses become the seeds of its research tasks.  Every build
   gives its research tasks new ids: build stands for them. *)
SeedsOf(name) == IF Alias(name) # "" THEN Alias(name) ELSE ""

ResearchTasks(task, build) ==
    {[build |-> build, competitor |-> c, dimension |-> d, seeds |-> SeedsOf(c),
      status |-> "waiting_for_collector"] :
         c \in Competitors(task), d \in Dimensions(task)}

WaitingTasks(all) == {t \in all : t.status = "waiting_for_collector"}

PlanOf(all) ==
    [status |-> IF WaitingTasks(all) = {} THEN "ready_for_analysis" ELSE "needs_collection",
     tasks |-> all]

BoardOf(all) ==
    {[of |-> t, status |-> IF t.status = "covered_by_snapshot"
                           THEN "completed" ELSE "ready"] : t \in all}

-----------------------------------------------------------------------------
Init ==
    /\ drafts = [d \in DraftIds |-> None]
    /\ tasks = [t \in TaskIds |-> None]
    /\ plans = [t \in TaskIds |-> None]
    /\ research = [t \in TaskIds |-> {}]
    /\ boards = [t \in TaskIds |-> {}]
    /\ req = [r \in Requests |-> Idle]
    /\ overlap = {}
    /\ nextTask = 1 /\ requests = 0 /\ crashes = 0

Begin(r) ==
    /\ req[r].at = "idle" /\ requests < MaxRequests
    /\ requests' = requests + 1

Busy(r, what) ==
    \E s \in Requests \ {r} : req[s].at # "idle" /\ req[s].what = what

(* Two threads work on the same draft or task. *)
Meets(r, what) ==
    overlap' = IF Busy(r, what) THEN overlap \cup {what} ELSE overlap

(* parse_request: the model's answer becomes a draft. *)
ParseRequest(r) ==
    /\ Begin(r)
    /\ \E d \in DraftIds, c \in Contents :
          /\ drafts[d].status = "none"
          /\ \A e \in DraftIds : e < d => drafts[e].status # "none"
          /\ drafts' = [drafts EXCEPT ![d] =
                [status |-> DraftStatus(c), content |-> Normalized(c), task |-> 0]]
    /\ UNCHANGED <<tasks, plans, research, boards, req, overlap, nextTask, crashes>>

(* A draft can be confirmed again. *)
ConfirmReadsFaulty(r) ==
    /\ Begin(r) /\ nextTask <= MaxTasks
    /\ \E d \in DraftIds, c \in Contents :
          /\ drafts[d].status # "none"
          /\ DraftStatus(c) = "ready"
          /\ req' = [req EXCEPT ![r] = [at |-> "confirm_draft", what |-> <<"draft", d>>,
                                        content |-> Normalized(c), task |-> nextTask]]
          /\ Meets(r, <<"draft", d>>)
    /\ nextTask' = nextTask + 1
    /\ UNCHANGED <<drafts, tasks, plans, research, boards, crashes>>

(* confirm_draft reads the draft and checks the user's edit of it. *)
ConfirmReads(r) ==
    /\ Begin(r) /\ nextTask <= MaxTasks
    /\ \E d \in DraftIds, c \in Contents :
          /\ drafts[d].status \in {"ready", "needs_clarification"}
          /\ DraftStatus(c) = "ready"
          /\ req' = [req EXCEPT ![r] = [at |-> "confirm_draft", what |-> <<"draft", d>>,
                                        content |-> Normalized(c), task |-> nextTask]]
          /\ Meets(r, <<"draft", d>>)
    /\ nextTask' = nextTask + 1
    /\ UNCHANGED <<drafts, tasks, plans, research, boards, crashes>>

ConfirmSavesDraft(r) ==
    /\ req[r].at = "confirm_draft"
    /\ drafts' = [drafts EXCEPT ![req[r].what[2]] =
          [status |-> "confirmed", content |-> req[r].content, task |-> req[r].task]]
    /\ req' = [req EXCEPT ![r].at = "confirm_task"]
    /\ UNCHANGED <<tasks, plans, research, boards, overlap, nextTask, requests, crashes>>

TaskOf(content, draft) ==
    [status |-> "pending", draft |-> draft, primary |-> content.primary,
     competitors |-> content.others, focus |-> content.focus,
     education |-> content.education, discovery |-> content.discovery]

ConfirmSavesTask(r) ==
    /\ req[r].at = "confirm_task"
    /\ tasks' = [tasks EXCEPT ![req[r].task] = TaskOf(req[r].content, req[r].what[2])]
    /\ req' = [req EXCEPT ![r] = Idle]
    /\ UNCHANGED <<drafts, plans, research, boards, overlap, nextTask, requests, crashes>>

(* A task that has a plan is planned again. *)
BuildReadsFaulty(r) ==
    /\ Begin(r)
    /\ \E t \in TaskIds :
          /\ tasks[t] # None /\ Resolvable(tasks[t])
          /\ req' = [req EXCEPT ![r] = [at |-> "save_plan", what |-> <<"task", t>>,
                                        task |-> t,
                                        content |-> ResearchTasks(tasks[t], requests')]]
          /\ Meets(r, <<"task", t>>)
    /\ UNCHANGED <<drafts, tasks, plans, research, boards, nextTask, crashes>>

(* build: a task that has a plan is not planned again; a focus area that the
   framework does not know fails the planner before it saves anything. *)
BuildReads(r) ==
    /\ Begin(r)
    /\ \E t \in TaskIds :
          /\ tasks[t] # None /\ plans[t] = None
          /\ Resolvable(tasks[t])
          /\ req' = [req EXCEPT ![r] = [at |-> "save_plan", what |-> <<"task", t>>,
                                        task |-> t, content |-> ResearchTasks(tasks[t], requests')]]
          /\ Meets(r, <<"task", t>>)
    /\ UNCHANGED <<drafts, tasks, plans, research, boards, nextTask, crashes>>

BuildSavesPlan(r) ==
    /\ req[r].at = "save_plan"
    /\ plans' = [plans EXCEPT ![req[r].task] = PlanOf(req[r].content)]
    /\ req' = [req EXCEPT ![r].at = "save_tasks"]
    /\ UNCHANGED <<drafts, tasks, research, boards, overlap, nextTask, requests, crashes>>

BuildSavesTasks(r) ==
    /\ req[r].at = "save_tasks"
    /\ research' = [research EXCEPT ![req[r].task] = req[r].content]
    /\ req' = [req EXCEPT ![r].at = "load_tasks"]
    /\ UNCHANGED <<drafts, tasks, plans, boards, overlap, nextTask, requests, crashes>>

BuildLoadsTasks(r) ==
    /\ req[r].at = "load_tasks"
    /\ req' = [req EXCEPT ![r].at = "save_board", ![r].content = research[req[r].task]]
    /\ UNCHANGED <<drafts, tasks, plans, research, boards, overlap, nextTask, requests, crashes>>

BuildSavesBoard(r) ==
    /\ req[r].at = "save_board"
    /\ boards' = [boards EXCEPT ![req[r].task] = BoardOf(req[r].content)]
    /\ req' = [req EXCEPT ![r] = Idle]
    /\ UNCHANGED <<drafts, tasks, plans, research, overlap, nextTask, requests, crashes>>

Crash ==
    /\ crashes < MaxCrashes /\ \E r \in Requests : req[r] # Idle
    /\ req' = [r \in Requests |-> Idle]
    /\ crashes' = crashes + 1
    /\ UNCHANGED <<drafts, tasks, plans, research, boards, overlap, nextTask, requests>>

Confirm(r) == ConfirmReads(r) \/ ConfirmSavesDraft(r) \/ ConfirmSavesTask(r)
Build(r) == BuildReads(r) \/ BuildSavesPlan(r) \/ BuildSavesTasks(r)
                \/ BuildLoadsTasks(r) \/ BuildSavesBoard(r)

Next == (\E r \in Requests : ParseRequest(r) \/ Confirm(r) \/ Build(r)) \/ Crash

Spec == Init /\ [][Next]_vars

-----------------------------------------------------------------------------
(* Properties.  "Alone" is a draft or a task that no two threads ever worked
   on at once; a thread "holds" it while it is between its read and its last
   save. *)

Alone(what) == what \notin overlap
Held(what) == \E r \in Requests : req[r] # Idle /\ req[r].what = what
TasksOf(d) == {t \in TaskIds : tasks[t] # None /\ tasks[t].draft = d}

(* Every analysis task comes from a confirmed draft and was worth confirming:
   it names its product first and no product twice.  A draft that no two
   confirmations met at gives one task at most, the one that it names, and
   has it as soon as its confirmation ended, unless the process crashed
   (confirm_draft saves the draft first). *)
ConfirmedOnce ==
    \A d \in DraftIds :
        /\ \A t \in TasksOf(d) :
              /\ drafts[d].status = "confirmed"
              /\ tasks[t].competitors # <<>>
              /\ tasks[t].primary # "" => tasks[t].competitors[1] = tasks[t].primary
              /\ \A i, j \in 1 .. Len(tasks[t].competitors) :
                    Fold(tasks[t].competitors[i]) = Fold(tasks[t].competitors[j]) => i = j
        /\ Alone(<<"draft", d>>) /\ drafts[d].status = "confirmed" =>
              /\ TasksOf(d) \subseteq {drafts[d].task}
              /\ ~Held(<<"draft", d>>) /\ crashes = 0 => TasksOf(d) = {drafts[d].task}

(* The dataset gate: a task is declared compatible exactly when there is no
   reason against it, and a task half of whose products are unknown is never
   more than partly compatible. *)
BlockedHasReason ==
    \A t \in TaskIds :
        tasks[t] # None =>
            /\ Compatibility(tasks[t]) = "compatible" <=> BlockingReasons(tasks[t]) = {}
            /\ 2 * Cardinality(MissingNames(tasks[t])) > Len(tasks[t].competitors)
               => Compatibility(tasks[t]) = "incompatible"

(* The plan of a task, its research tasks and its board speak of the same
   work, whatever crash came between their saves: the board has records of
   the plan's research tasks only, and once the build ended without a crash
   it has one for each pair of a competitor and a dimension.  And the plan
   rests on the dataset only as far as the gate above allows. *)
PlanIsWhole ==
    BlockedHasReason /\ \A t \in TaskIds :
        Alone(<<"task", t>>) =>
            /\ research[t] # {} =>
                  /\ plans[t] # None
                  /\ research[t] = plans[t].tasks
            /\ {b.of : b \in boards[t]} \in {{}, research[t]}
            /\ plans[t] # None /\ ~Held(<<"task", t>>) /\ crashes = 0 =>
                  /\ {b.of : b \in boards[t]} = plans[t].tasks
                  /\ \A c \in ToSet(tasks[t].competitors), d \in Dimensions(tasks[t]) :
                        \E b \in boards[t] :
                           b.of.competitor = c /\ b.of.dimension = d /\ b.status = "ready"
=============================================================================
