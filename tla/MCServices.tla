-------------------------------- MODULE MCServices --------------------------------
(***************************************************************************)
(* The services around the pipeline, each on its own: the intake, the      *)
(* snapshot workflow, the evaluation runner, and the artifact store under  *)
(* two threads.  The first step picks one.                                 *)
(***************************************************************************)
EXTENDS Intake

(* The intake: a dataset of two products: "ClassIn", and "BBB" as an alias *)
(* of "BigBlueButton"; "classin" differs from "ClassIn" by case only and   *)
(* "Newcomer" is in no dataset.  "pricing" and "price" are one dimension,  *)
(* "weather" is none. *)

MCNames == {"ClassIn", "classin", "BigBlueButton", "BBB", "Newcomer"}
MCFold(n) == IF n = "ClassIn" THEN "classin" ELSE n
MCAlias(n) ==
    IF n \in {"ClassIn", "classin"} THEN "ClassIn"
    ELSE IF n \in {"BigBlueButton", "BBB"} THEN "BigBlueButton" ELSE ""
MCCatalog == {"ClassIn", "BigBlueButton"}
MCResolve(f) == IF f \in {"pricing", "price"} THEN "pricing"
                ELSE IF f = "security" THEN "security" ELSE ""

Content(question, primary, others, focus, education, discovery) ==
    [question |-> question, primary |-> primary, others |-> others, focus |-> focus,
     education |-> education, discovery |-> discovery]

MCContents ==
    {Content(TRUE, "ClassIn", <<"classin", "Newcomer">>, {}, TRUE, FALSE),
     Content(TRUE, "", <<"BBB", "ClassIn">>, {"pricing", "price"}, TRUE, FALSE),
     Content(TRUE, "BBB", <<>>, {"security"}, FALSE, TRUE),
     Content(TRUE, "Newcomer", <<"classin">>, {"weather"}, TRUE, TRUE),
     Content(TRUE, "BigBlueButton", <<"Newcomer", "ClassIn">>, {"pricing"}, TRUE, TRUE),
     Content(FALSE, "ClassIn", <<>>, {}, TRUE, FALSE),
     Content(TRUE, "", <<>>, {}, TRUE, TRUE)}

-----------------------------------------------------------------------------

VARIABLES
    service,                                      \* which of the four runs
    mode, step, nodes, store, summary, runs,      \* the workflow's
    frozen, manifest, prepares, job, given, dir,  \* the evaluation's
    files, lock, thread, returned, operations, kills   \* the artifact store's

workflow == <<mode, step, nodes, store, summary, runs>>
evaluation == <<frozen, manifest, prepares, job, given, dir>>
storing == <<files, lock, thread, returned, operations, kills>>

-----------------------------------------------------------------------------
(* The workflow: one snapshot of three products and one that lacks the     *)
(* third; the second item of evidence is weak. *)

WorkflowSnapshots ==
    {[sources |-> <<"s1", "s2", "s3">>, evidence |-> <<"e1", "e2", "e3">>],
     [sources |-> <<"s1", "s2">>, evidence |-> <<"e1", "e2">>]}

SW == INSTANCE SnapshotWorkflow WITH
        Snapshots <- WorkflowSnapshots,
        SourceOf <- [e1 |-> "s1", e2 |-> "s2", e3 |-> "s3"],
        CompetitorOf <- [e1 |-> 1, e2 |-> 2, e3 |-> 3],
        WeakEvidence <- {"e2"}, WeakSources <- {},
        RuleClaims <- [feature |-> {"e1", "e2"}, risk |-> {"e3"}],
        ClaimIds <- {"k1", "k2"}, DimensionOf <- [k1 |-> "feature", k2 |-> "risk"],
        Citations <- {{"e1", "e2"}, {"e3"}},
        MaxClaims <- 2, MinCards <- 3,
        CollectorShows <- 2, WriterSources <- 1, WriterShows <- 2,
        MaxRuns <- 2

-----------------------------------------------------------------------------
(* The evaluation: one case, two frozen files; a variant may end well with *)
(* or without supplements, have a call without usage, run a step again     *)
(* after a restart, have a failed call, or raise. *)

EvalCall(at, node, tokens, failed) == [at |-> at, node |-> node, tokens |-> tokens, failed |-> failed]
EvalTrace(node, tokens) == [node |-> node, tokens |-> tokens]
EvalSupplement(round) == [round |-> round, gap |-> TRUE, parent |-> TRUE, scope |-> "s"]

EvalRun ==
    [final |-> "completed", result |-> "COMPLETED", raised |-> FALSE, actions |-> 2,
     coverage |-> [feature |-> {"sufficient"}, pricing |-> {"sufficient", "missing"}],
     calls |-> <<EvalCall(1, "n1", 3, FALSE), EvalCall(3, "n2", 2, FALSE)>>,
     traces |-> <<EvalTrace("n1", 3), EvalTrace("n2", 2)>>,
     refreshes |-> <<[at |-> 2, gaps |-> {"g", "h"}], [at |-> 4, gaps |-> {"h"}]>>,
     supplements |-> <<>>]

EvalOutcomes ==
    {EvalRun,
     [EvalRun EXCEPT !.calls = <<EvalCall(1, "n1", 1, FALSE)>>, !.traces = <<EvalTrace("n1", 1)>>,
                     !.supplements = <<EvalSupplement(2)>>],
     [EvalRun EXCEPT !.calls[2].tokens = -1, !.traces[2].tokens = -1],
     [EvalRun EXCEPT !.calls = <<EvalCall(1, "n1", -1, FALSE), EvalCall(3, "n1", 2, FALSE)>>,
                     !.traces = <<EvalTrace("n1", -1), EvalTrace("n1", 2)>>,
                     !.supplements = <<EvalSupplement(2), EvalSupplement(2)>>],
     [EvalRun EXCEPT !.calls[1].failed = TRUE, !.supplements = <<EvalSupplement(4)>>],
     [EvalRun EXCEPT !.final = "none", !.raised = TRUE, !.actions = 0, !.calls = <<>>,
                     !.traces = <<>>, !.refreshes = <<>>]}

EV == INSTANCE EvalPack WITH
        Cases <- <<1>>, Files <- <<"plan", "tasks">>, Outcomes <- EvalOutcomes,
        MaxRounds <- 3, MaxPrepares <- 2

-----------------------------------------------------------------------------
(* The store, under the threads of the .cfg. *)

CONSTANTS Threads, Registered, Retries, MaxOperations, MaxKills

AS == INSTANCE ArtifactStore WITH MaxCrashes <- MaxKills, crashes <- kills

ASSUME ServicesAssumption == SW!SnapshotAssumption /\ AS!StoreAssumption

-----------------------------------------------------------------------------

ServicesInit == service = "none" /\ Init /\ SW!Init /\ EV!Init /\ AS!Init

Pick(name) == service \in {"none", name} /\ service' = name

IntakeStep == Pick("intake") /\ Next /\ UNCHANGED <<workflow, evaluation, storing>>
WorkflowStep == Pick("workflow") /\ SW!Next /\ UNCHANGED <<vars, evaluation, storing>>
EvaluationStep == Pick("evaluation") /\ EV!Next /\ UNCHANGED <<vars, workflow, storing>>
StoreStep == Pick("store") /\ AS!Next /\ UNCHANGED <<vars, workflow, evaluation>>

ServicesNext == IntakeStep \/ WorkflowStep \/ EvaluationStep \/ StoreStep

ServicesSpec == ServicesInit /\ [][ServicesNext]_<<service, vars, workflow, evaluation, storing>>

-----------------------------------------------------------------------------

(* See SnapshotWorkflow: what a completed run leaves belongs together,     *)
(* whatever the run before it left. *)
WorkflowIsTraceable == SW!CompletedIsTraceable

(* See EvalPack: a reduction, an extra cost and a complete run are only    *)
(* reported where the records of the runs bear them out, and all variants  *)
(* of a run are given one frozen input. *)
ComparisonIsHonest == EV!ComparisonIsHonest

(* See ArtifactStore: what an append has returned stays in the log. *)
AppendedIsKept == AS!AppendedIsKept
=============================================================================
