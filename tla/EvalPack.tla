---------------------------------- MODULE EvalPack ----------------------------------
(***************************************************************************)
(* The evaluation runner (eval/): it freezes the planning of a case once,  *)
(* runs the variants of an experiment on copies of the frozen given,       *)
(* measures what each run left in its artifact store and compares them.    *)
(*                                                                         *)
(* A command is a list of steps; one command runs at a time, and the       *)
(* process may be killed between any two steps.  What research a variant   *)
(* does is an outcome: the records its run left.                           *)
(***************************************************************************)
EXTENDS Integers, Sequences, FiniteSets, SequencesExt, FiniteSetsExt

CONSTANTS
    Cases,        \* the cases of eval_cases.json, in order
    Files,        \* FROZEN_FILES, in the order they are written
    Outcomes,     \* what a variant may leave: see E2Metrics
    MaxRounds,    \* max_collection_rounds of the frozen plan
    MaxPrepares   \* bound: times a case is prepared

NA == -1      \* not recorded (None)

VARIABLES
    frozen,     \* the frozen files of every case: which prepare wrote each
    manifest,   \* the prepare whose hashes the manifest of a case records
    prepares,
    job,        \* the steps the command has left
    given,      \* the files the variant at hand was given, by prepare
    dir         \* the latest run directory: [command, rows, report]

vars == <<frozen, manifest, prepares, job, given, dir>>

Variants == [e2 |-> <<"legacy", "agent">>,
             e3 |-> <<"supplement_off", "supplement_on">>,
             ab |-> <<"context_legacy", "context_governed">>]

Init ==
    /\ frozen = [c \in ToSet(Cases) |-> [f \in ToSet(Files) |-> 0]]
    /\ manifest = [c \in ToSet(Cases) |-> 0]
    /\ prepares = 0 /\ job = <<>> /\ given = <<>>
    /\ dir = [command |-> "none", rows |-> <<>>, report |-> <<>>]

-----------------------------------------------------------------------------
(* What is measured.  An outcome holds: the last coordinator run (final),  *)
(* whether the adapter raised, the LLM calls and the context traces, the   *)
(* coverage refreshes and the supplement tasks. *)

Sum(s, Value(_)) == FoldSeq(LAMBDA x, n : Value(x) + n, 0, s)

(* _token_totals: a total only when every call has its usage. *)
TokenTotals(calls) ==
    IF \E c \in ToSet(calls) : c.tokens = NA THEN NA
    ELSE Sum(calls, LAMBDA c : c.tokens)

(* _calls_before the first refresh. *)
CallsBefore(calls, cutoff) == SelectSeq(calls, LAMBDA c : c.at <= cutoff)

(* A trace without a usage is left out of the sum. *)
ActualTokensFaulty(traces, calls) ==
    LET measured == SelectSeq(traces, LAMBDA t : t.tokens # NA)
    IN IF measured = <<>> THEN NA ELSE Sum(measured, LAMBDA t : t.tokens)

(* A trace counts when its call, the last of its node, has a usage. *)
ActualTokens(traces, calls) ==
    LET CallOf(t) == SelectSeq(calls, LAMBDA c : c.node = t.node)
        Available(t) == /\ t.tokens # NA
                        /\ CallOf(t) # <<>> => Last(CallOf(t)).tokens > 0
    IN IF traces = <<>> \/ \E t \in ToSet(traces) : ~Available(t) THEN NA
       ELSE Sum(traces, LAMBDA t : t.tokens)

Succeeded(o) == o.final = "completed" /\ o.result # "FAILED" /\ ~o.raised

(* _need_coverage counts the needs all of whose rows are covered. *)
NeedsCovered(o) == Cardinality({d \in DOMAIN o.coverage :
                                   o.coverage[d] # {} /\ o.coverage[d] \subseteq {"sufficient", "not_applicable"}})

(* The legacy loop has no result status. *)
E2Metrics(o, variant) ==
    [success |-> IF variant = "legacy" THEN o.final = "completed" /\ ~o.raised ELSE Succeeded(o), error |-> o.raised, covered |-> NeedsCovered(o),
     tokens |-> TokenTotals(o.calls)]

ABMetrics(o, variant) ==
    [success |-> Succeeded(o), error |-> o.raised, covered |-> NeedsCovered(o),
     final |-> o.final, result |-> o.result,
     failedCalls |-> Cardinality({i \in DOMAIN o.calls : o.calls[i].failed}),
     actions |-> o.actions,
     tokens |-> ActualTokens(o.traces, o.calls),
     \* the modes of the traces are those of the switch the variant ran with
     configured |-> o.final # "none" /\ o.traces # <<>>]

(* validate_supplement_provenance. *)
ProvenanceErrors(o) ==
    LET wrong == {t \in ToSet(o.supplements) :
                     ~(t.gap /\ t.parent /\ 1 < t.round /\ t.round <= MaxRounds)}
        twice == {i \in DOMAIN o.supplements : \E j \in 1..(i-1) :
                     /\ o.supplements[i].scope = o.supplements[j].scope
                     /\ o.supplements[i].round = o.supplements[j].round}
    IN Cardinality(wrong) + Cardinality(twice)

E3Metrics(o, variant) ==
    LET first == o.refreshes[1]
        final == Last(o.refreshes)
        total == TokenTotals(o.calls)
        base == TokenTotals(CallsBefore(o.calls, first.at))
        measured == o.refreshes # <<>>
        errors == \/ ProvenanceErrors(o) > 0
                  \/ variant = "supplement_off" /\ o.supplements # <<>>
    IN [success |-> Succeeded(o) /\ ~errors, error |-> o.raised,
        closed  |-> IF measured THEN Cardinality(first.gaps \ final.gaps) ELSE NA,
        gaps    |-> IF measured THEN Cardinality(first.gaps) ELSE NA,
        tokens  |-> total,
        extra   |-> IF measured /\ total # NA /\ base # NA THEN total - base ELSE NA]

-----------------------------------------------------------------------------
(* What is reported. *)

(* _context_comparison_invalid_reasons of one variant. *)
InvalidReasons(row) ==
    IF row = <<>> THEN {"missing_metrics"}
    ELSE {r \in {"status", "result", "failure", "llm_call", "no_action", "tokens", "configuration"} :
             CASE r = "status" -> row.final # "completed"
               [] r = "result" -> row.result = "FAILED"
               [] r = "failure" -> row.error
               [] r = "llm_call" -> row.failedCalls > 0
               [] r = "no_action" -> row.actions = 0
               [] r = "tokens" -> row.tokens = NA
               [] r = "configuration" -> ~row.configured}

Row(experiment, case, variant) ==
    LET key == <<experiment, case, variant>> IN
    IF key \in DOMAIN dir.rows THEN dir.rows[key].metrics ELSE <<>>

Comparison ==
    LET control == Row("ab", Cases[1], "context_legacy")
        governed == Row("ab", Cases[1], "context_governed")
        valid == InvalidReasons(control) \cup InvalidReasons(governed) = {}
    IN [valid |-> valid,
        reduction |-> IF valid THEN {control.tokens - governed.tokens} ELSE {}]

Summary ==
    LET rows == [k \in DOMAIN dir.rows |-> dir.rows[k].metrics] IN
    [complete |-> \A e \in {"e2", "e3"} : \A c \in ToSet(Cases) : \A v \in ToSet(Variants[e]) :
                     <<e, c, v>> \in DOMAIN rows,
     failures |-> {k \in DOMAIN rows : ~rows[k].success \/ rows[k].error}]

-----------------------------------------------------------------------------
(* The steps. *)

Current(do) == job # <<>> /\ job[1].do = do
Done == job' = Tail(job)
Raise == job' = <<>>

(* validate_case: every file has the hash of the manifest. *)
Valid(c) == manifest[c] # 0 /\ \A f \in ToSet(Files) : frozen[c][f] = manifest[c]

(* prepare_case: the frozen input of before, or a new one. *)
PrepareCase ==
    /\ Current("prepare")
    /\ LET c == job[1].case
           reuse == manifest[c] # 0 /\ ~job[1].force
           writes == [i \in DOMAIN Files |-> [do |-> "write", case |-> c, file |-> Files[i]]]
       IN \/ reuse /\ Valid(c) /\ Done /\ UNCHANGED prepares
          \/ reuse /\ ~Valid(c) /\ Raise /\ UNCHANGED prepares
          \/ ~reuse /\ Raise /\ UNCHANGED prepares        \* the draft needs clarification
          \/ /\ ~reuse /\ prepares < MaxPrepares /\ prepares' = prepares + 1
             /\ job' = writes \o <<[do |-> "manifest", case |-> c]>> \o Tail(job)
    /\ UNCHANGED <<frozen, manifest, given, dir>>

WriteFile ==
    /\ Current("write")
    /\ frozen' = [frozen EXCEPT ![job[1].case][job[1].file] = prepares]
    /\ Done /\ UNCHANGED <<manifest, prepares, given, dir>>

WriteManifest ==
    /\ Current("manifest")
    /\ manifest' = [manifest EXCEPT ![job[1].case] = prepares]
    /\ Done /\ UNCHANGED <<frozen, prepares, given, dir>>

ValidateCase ==
    /\ Current("validate")
    /\ IF Valid(job[1].case) THEN Done ELSE Raise
    /\ UNCHANGED <<frozen, manifest, prepares, given, dir>>

CreateRun ==
    /\ Current("create")
    /\ dir' = [command |-> job[1].command, rows |-> <<>>, report |-> <<>>]
    /\ Done /\ UNCHANGED <<frozen, manifest, prepares, given>>

(* materialize validates again what it copies. *)
Materialize ==
    /\ Current("materialize")
    /\ LET c == job[1].case IN
       IF Valid(c) THEN given' = frozen[c] /\ Done ELSE Raise /\ UNCHANGED given
    /\ UNCHANGED <<frozen, manifest, prepares, dir>>

(* A variant runs on what it was given, and is measured by the records it  *)
(* left, raised or not. *)
Measured(experiment, Metrics(_, _)) ==
    /\ Current("measure") /\ job[1].experiment = experiment
    /\ LET key == <<experiment, job[1].case, job[1].variant>> IN
       \E o \in Outcomes :
          LET row == [metrics |-> Metrics(o, job[1].variant), input |-> given, outcome |-> o]
          IN dir' = [dir EXCEPT !.rows = (key :> row) @@ dir.rows]
    /\ given' = <<>> /\ Done /\ UNCHANGED <<frozen, manifest, prepares>>

RunE2Variant == Measured("e2", E2Metrics)
RunE3Variant == Measured("e3", E3Metrics)
RunContextVariant == Measured("ab", ABMetrics)

Generate ==
    /\ Current("outputs")
    /\ dir' = [dir EXCEPT !.report = IF dir.command = "ab" THEN Comparison ELSE Summary]
    /\ Done /\ UNCHANGED <<frozen, manifest, prepares, given>>

-----------------------------------------------------------------------------
(* The commands. *)

ForEach(s, Steps(_)) == FlattenSeq([i \in DOMAIN s |-> Steps(s[i])])

Prepares(force) == ForEach(Cases, LAMBDA c : <<[do |-> "prepare", case |-> c, force |-> force]>>)
Validates == ForEach(Cases, LAMBDA c : <<[do |-> "validate", case |-> c]>>)
Create(command) == <<[do |-> "create", command |-> command]>>

Runs(experiment) ==
    ForEach(Cases, LAMBDA c : ForEach(Variants[experiment], LAMBDA v :
       <<[do |-> "materialize", case |-> c],
         [do |-> "measure", experiment |-> experiment, case |-> c, variant |-> v]>>))
    \o <<[do |-> "outputs"]>>

Command(steps) ==
    /\ job = <<>> /\ job' = steps
    /\ UNCHANGED <<frozen, manifest, prepares, given, dir>>

Prepare(force) == Command(Prepares(force))
RunOne(experiment) == Command(Validates \o Create(experiment) \o Runs(experiment))
RunAll(force) ==
    Command(Prepares(force) \o Create("all") \o Validates \o Runs("e2") \o Validates \o Runs("e3"))
Summarise == dir.command # "none" /\ Command(<<[do |-> "outputs"]>>)

Crash ==
    /\ job # <<>> /\ job' = <<>> /\ given' = <<>>
    /\ UNCHANGED <<frozen, manifest, prepares, dir>>

Next ==
    \/ \E force \in BOOLEAN : Prepare(force) \/ RunAll(force)
    \/ \E e \in {"e2", "e3", "ab"} : RunOne(e)
    \/ Summarise \/ PrepareCase \/ WriteFile \/ WriteManifest \/ ValidateCase \/ CreateRun
    \/ Materialize \/ RunE2Variant \/ RunE3Variant \/ RunContextVariant \/ Generate \/ Crash

Spec == Init /\ [][Next]_vars

-----------------------------------------------------------------------------

(* What the experiments rest on (eval/frozen.py): every variant of a run   *)
(* is given the same frozen given, and all of it is of one prepare, even   *)
(* after a forced prepare was killed half-way.                             *)
FrozenInputIsShared ==
    \A k, l \in DOMAIN dir.rows :
       /\ \A f, g \in DOMAIN dir.rows[k].input : dir.rows[k].input[f] = dir.rows[k].input[g]
       /\ k[2] = l[2] => dir.rows[k].input = dir.rows[l].input

(* A number that is reported is true of the records: a comparison gives a  *)
(* reduction only when both runs completed without a failed call and every *)
(* action that was traced has its usage, and it is the difference of what  *)
(* was used; what a supplement cost is what was called after the first     *)
(* refresh, and a run counts as complete only with every variant.  And     *)
(* what is compared was given one frozen input.                            *)
ComparisonIsHonest ==
    LET Used(k) == Sum(dir.rows[k].outcome.calls, LAMBDA c : c.tokens)
        Clean(k) == /\ Succeeded(dir.rows[k].outcome)
                    /\ \A c \in ToSet(dir.rows[k].outcome.calls) : ~c.failed /\ c.tokens # NA
        legacy == <<"ab", Cases[1], "context_legacy">>
        governed == <<"ab", Cases[1], "context_governed">>
    IN /\ FrozenInputIsShared
       /\ dir.command = "ab" /\ dir.report # <<>> /\ dir.report.reduction # {} =>
             /\ {legacy, governed} \subseteq DOMAIN dir.rows
             /\ Clean(legacy) /\ Clean(governed)
             /\ dir.report.reduction = {Used(legacy) - Used(governed)}
       /\ \A k \in DOMAIN dir.rows : k[1] = "e3" =>
             LET row == dir.rows[k] IN
             /\ row.metrics.extra # NA =>
                   row.metrics.extra = Sum(SelectSeq(row.outcome.calls,
                                 LAMBDA c : c.at > row.outcome.refreshes[1].at), LAMBDA c : c.tokens)
             /\ k[3] = "supplement_off" /\ row.metrics.success => row.outcome.supplements = <<>>
       /\ dir.command # "ab" /\ dir.report # <<>> /\ dir.report.complete =>
             \A e \in {"e2", "e3"} : \A c \in ToSet(Cases) :
                \A v \in ToSet(Variants[e]) : <<e, c, v>> \in DOMAIN dir.rows
=============================================================================
