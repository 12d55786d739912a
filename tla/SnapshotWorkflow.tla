----------------------------- MODULE SnapshotWorkflow -----------------------------
(***************************************************************************)
(* What the agents of a snapshot workflow leave in the artifact store of   *)
(* their task (workflow/snapshot_pipeline.py, agents/snapshot.py and       *)
(* agents/llm_snapshot.py): collect, extract, analyse, check the citations,*)
(* write, review; then the quality gate, the contexts and memories of the  *)
(* agents (context/) and the guardrails over all of it.  A task may be run *)
(* again: a run finds the artifacts of the run before it.                  *)
(*                                                                         *)
(* Module Execution is about the scheduling of these agents.  Here they    *)
(* run one after the other, and what counts is what each reads, checks and *)
(* saves.  The rules that stand in for the LLM know the claims of one      *)
(* snapshot only.                                                          *)
(***************************************************************************)
EXTENDS Naturals, Sequences, FiniteSets, SequencesExt

CONSTANTS
    Snapshots,        \* what the local collector may load: [sources, evidence]
    SourceOf,         \* source_id of every item of evidence
    CompetitorOf,     \* its competitor
    WeakEvidence,     \* evidence whose confidence is below 0.6
    WeakSources,      \* sources whose reliability is
    RuleClaims,       \* claim_specs: the evidence each dimension's claim cites
    ClaimIds,         \* ids an LLM gives to claims
    DimensionOf,      \* their dimensions
    Citations,        \* bound: the evidence ids an LLM cites together
    MaxClaims,        \* bound: claims of one answer
    MinCards,         \* 3 product cards
    CollectorShows, WriterSources, WriterShows,   \* 12, 6 and 20 items
    MaxRuns           \* bound: runs of the task

Dimensions == DOMAIN RuleClaims
RuleId(d) == <<"rule", d>>

(* What the constants have to be; the instance is assumed to keep it. *)
SnapshotAssumption ==
    /\ MaxClaims \in Nat \ {0} /\ MinCards \in Nat /\ MaxRuns \in Nat
    /\ \A id \in ClaimIds : DimensionOf[id] \in Dimensions

VARIABLES
    mode,     \* "fixed", "board", "llm", "fallback" or "professional"
    step,     \* the step to run next, "closed" between runs
    nodes,    \* the status of the DAG nodes
    store,    \* the artifacts of the task
    summary,  \* the PipelineSummary
    runs

vars == <<mode, step, nodes, store, summary, runs>>

Steps == <<"collect", "extract", "analyze", "check", "write", "review">>

Nothing == [sources |-> <<>>, evidence |-> <<>>, cards |-> <<>>, claims |-> <<>>,
            checks |-> <<>>, report |-> <<>>, review |-> <<>>, gate |-> <<>>,
            feedback |-> <<>>, working |-> <<>>, memory |-> <<>>, bundles |-> <<>>,
            guards |-> <<>>]

NoSummary == [status |-> "none", approved |-> FALSE, weak |-> 0, gate |-> "none"]

FreshNodes == [s \in ToSet(Steps) |-> "pending"]

Init ==
    /\ mode = "fixed" /\ step = "closed" /\ runs = 0
    /\ nodes = FreshNodes
    /\ store = Nothing /\ summary = NoSummary

Ids(items) == {items[i].id : i \in DOMAIN items}

-----------------------------------------------------------------------------
(* The bundles of the agents, from the artifacts there are when one is     *)
(* built (ContextBuilder). *)

Take(s, n) == SubSeq(s, 1, IF Len(s) < n THEN Len(s) ELSE n)

Roles == <<"collector", "extractor", "analyst", "citation", "writer", "reviewer">>

ShownSources(role) ==
    CASE role = "analyst" -> <<>>
      [] role \in {"writer", "reviewer"} -> Take(store.sources, WriterSources)
      [] OTHER -> store.sources

ShownEvidence(role) ==
    CASE role = "collector" -> Take(store.evidence, CollectorShows)
      [] role \in {"writer", "reviewer"} -> Take(store.evidence, WriterShows)
      [] OTHER -> store.evidence

WeakTargets(a) == {c.id : c \in {c \in ToSet(a.checks) : c.status = "weak"}}

(* build_working_memory_from_artifacts. *)
WorkingMemory(a) ==
    [evidence |-> ToSet(a.evidence),
     cards    |-> Ids(a.cards),
     claims   |-> Ids(a.claims),
     weak     |-> WeakTargets(a),
     issues   |-> IF a.review = <<>> THEN {} ELSE {i.target : i \in a.review[1].issues},
     tasks    |-> {<<t.kind, t.claim>> : t \in ToSet(a.feedback)},
     approved |-> a.review # <<>> /\ a.review[1].approved]

(* build_memory_items_from_artifacts: of the five items, the preferences,  *)
(* frameworks and policies refer to nothing; the run summary refers to     *)
(* everything and the supported claims to the claims and checks. *)
MemoryItems ==
    <<[kind |-> "user_preference", evidence |-> {}, claims |-> {}],
      [kind |-> "domain_framework", evidence |-> {}, claims |-> {}],
      [kind |-> "source_policy", evidence |-> {}, claims |-> {}],
      [kind |-> "run_summary", evidence |-> ToSet(store.evidence), claims |-> Ids(store.claims)],
      [kind |-> "approved_claim", evidence |-> {}, claims |-> Ids(store.claims)]>>

KindsFor(role) ==
    CASE role \in {"collector", "citation", "reviewer"} ->
            {"user_preference", "source_policy", "quality_issue", "run_summary"}
      [] role = "writer" ->
            {"user_preference", "domain_framework", "approved_claim", "run_summary"}
      [] OTHER -> {"user_preference", "domain_framework", "analysis_pattern", "run_summary"}

Bundle(role) ==
    [role     |-> role,
     sources  |-> ToSet(ShownSources(role)),
     evidence |-> ToSet(ShownEvidence(role)),
     cards    |-> IF role = "analyst" THEN {} ELSE Ids(store.cards),
     claims   |-> Ids(store.claims),
     kinds    |-> KindsFor(role) \cap {m.kind : m \in ToSet(MemoryItems)}]

WithContext(artifacts) ==
    [artifacts EXCEPT !.working = <<WorkingMemory(artifacts)>>,
                      !.memory = MemoryItems,
                      !.bundles = [i \in DOMAIN Roles |-> Bundle(Roles[i])]]

-----------------------------------------------------------------------------
(* The steps: each is a new store, or fails. *)

Fails == /\ nodes' = [nodes EXCEPT ![step] = "failed"]
         /\ step' = "close"
         /\ UNCHANGED <<mode, summary, runs>>

Succeeds ==
    /\ nodes' = [nodes EXCEPT ![step] = "completed"]
    /\ step' = IF step = "review" THEN "close"
               ELSE Steps[(CHOOSE i \in DOMAIN Steps : Steps[i] = step) + 1]
    /\ UNCHANGED <<mode, summary, runs>>

(* A run publishes a fresh board, without the feedback tasks of the last   *)
(* one, unless it is the fixed workflow; what the agents left stays.       *)
StartAs(workflow) ==
    /\ step = "closed" /\ runs < MaxRuns
    /\ runs' = runs + 1
    /\ mode' = workflow
    /\ step' = "collect"
    /\ nodes' = FreshNodes
    /\ UNCHANGED <<store, summary>>

StartFixed == StartAs("fixed")
StartBoard == StartAs("board")

(* It empties the artifacts of the LLM and of the professional analyst     *)
(* too, none of which is here.                                             *)
StartLLM == \E workflow \in {"llm", "fallback", "professional"} : StartAs(workflow)

(* Whose agents ask the LLM, and whose rules build the artifact where      *)
(* there is no LLM or it fails. *)
AsksLLM == mode \in {"llm", "fallback", "professional"}
HasRules == mode \in {"fixed", "board", "fallback"}

(* collect_snapshot raises when the items do not refer to each other. *)
Collect ==
    /\ step = "collect"
    /\ \/ \E s \in Snapshots :
             /\ \A e \in ToSet(s.evidence) : SourceOf[e] \in ToSet(s.sources)
             /\ store' = [store EXCEPT !.sources = s.sources, !.evidence = s.evidence]
             /\ Succeeds
       \/ Fails /\ UNCHANGED store

Competitors == {CompetitorOf[e] : e \in ToSet(store.evidence)}

(* build_product_cards: one card for every competitor with evidence. *)
RuleCards ==
    LET Card(c) == [id |-> c,
                    evidence |-> {e \in ToSet(store.evidence) : CompetitorOf[e] = c}]
    IN  SetToSeq({Card(c) : c \in Competitors})

(* The client refuses an answer without cards, and cards without evidence  *)
(* or with evidence that is not there. *)
LLMCards ==
    {SetToSeq({[id |-> c, evidence |-> {e \in ToSet(store.evidence) : CompetitorOf[e] = c}] : c \in cs})
        : cs \in SUBSET Competitors \ {{}}}

Extract ==
    /\ step = "extract"
    /\ LET before == IF ~AsksLLM THEN store ELSE WithContext(store) IN
       \/ /\ AsksLLM /\ store.evidence # <<>>
          /\ \E cards \in LLMCards : store' = [before EXCEPT !.cards = cards]
          /\ Succeeds
       \/ /\ mode # "llm" /\ store.evidence # <<>>
          /\ store' = [before EXCEPT !.cards = RuleCards]
          /\ Succeeds
       \/ /\ mode \in {"llm", "professional"} \/ store.evidence = <<>>
          /\ store' = (IF store.evidence = <<>> THEN store ELSE before)
          /\ Fails

CardsFit ==
    /\ store.cards # <<>> /\ store.evidence # <<>>
    /\ \A c \in ToSet(store.cards) : c.evidence # {} /\ c.evidence \subseteq ToSet(store.evidence)

(* build_claims: the five claims of the one snapshot, raised when the      *)
(* evidence one of them cites is not there. *)
RuleClaimsFit == \A d \in Dimensions : RuleClaims[d] \subseteq ToSet(store.evidence)

RuleBuiltClaims ==
    SetToSeq({[id |-> RuleId(d), dimension |-> d, evidence |-> RuleClaims[d],
               status |-> "unchecked"] : d \in Dimensions})

(* The client and the agent refuse an empty answer and claims without      *)
(* evidence or with unknown evidence; two claims may have one id, which    *)
(* only the portfolio of the professional analyst refuses. *)
LLMClaims ==
    LET Claims == {[id |-> <<"llm", id>>, dimension |-> DimensionOf[id], evidence |-> c,
                    status |-> "unchecked"]
                     : id \in ClaimIds, c \in {c \in Citations : c \subseteq ToSet(store.evidence)}}
    IN  {s \in UNION {[1..n -> Claims] : n \in 1..MaxClaims} :
            mode = "professional" => Cardinality(Ids(s)) = Len(s)}

Analyze ==
    /\ step = "analyze"
    /\ LET before == IF ~AsksLLM THEN store ELSE WithContext(store) IN
       \/ /\ AsksLLM /\ CardsFit
          /\ \E claims \in LLMClaims : store' = [before EXCEPT !.claims = claims]
          /\ Succeeds
       \/ /\ HasRules /\ CardsFit /\ RuleClaimsFit
          /\ store' = [before EXCEPT !.claims = RuleBuiltClaims]
          /\ Succeeds
       \/ /\ ~HasRules \/ ~CardsFit \/ ~RuleClaimsFit
          /\ store' = (IF CardsFit THEN before ELSE store)
          /\ Fails

\* Fault: one sound item of evidence is enough.
VerdictFaulty(claim) ==
    IF claim.evidence = {} THEN "missing_evidence"
    ELSE IF \/ ~(claim.evidence \subseteq ToSet(store.evidence))
            \/ \E e \in claim.evidence : SourceOf[e] \notin ToSet(store.sources)
    THEN "invalid_evidence"
    ELSE IF \A e \in claim.evidence : e \in WeakEvidence \/ SourceOf[e] \in WeakSources
    THEN "weak"
    ELSE "supported"

(* evaluate_claim_citation. *)
Verdict(claim) ==
    IF claim.evidence = {} THEN "missing_evidence"
    ELSE IF \/ ~(claim.evidence \subseteq ToSet(store.evidence))
            \/ \E e \in claim.evidence : SourceOf[e] \notin ToSet(store.sources)
    THEN "invalid_evidence"
    ELSE IF \E e \in claim.evidence : e \in WeakEvidence \/ SourceOf[e] \in WeakSources
    THEN "weak"
    ELSE "supported"

CheckCitations ==
    /\ step = "check"
    /\ IF store.claims = <<>> \/ store.evidence = <<>>
       THEN Fails /\ UNCHANGED store
       ELSE /\ store' = [store EXCEPT
                  !.claims = [i \in DOMAIN @ |-> [@[i] EXCEPT !.status = Verdict(store.claims[i])]],
                  !.checks = [i \in DOMAIN store.claims |->
                                [id |-> store.claims[i].id,
                                 status |-> Verdict(store.claims[i])]]]
            /\ Succeeds

-----------------------------------------------------------------------------

(* claims_by_dimension: the last claim of a dimension stands for it. *)
LastOf(d) ==
    store.claims[CHOOSE i \in DOMAIN store.claims :
        /\ store.claims[i].dimension = d
        /\ \A j \in DOMAIN store.claims : store.claims[j].dimension = d => j <= i].id

(* build_report needs a claim of every dimension and refers to no other    *)
(* claim, which its last check does not forgive. *)
RuleReportFits ==
    /\ \A d \in Dimensions : \E c \in ToSet(store.claims) : c.dimension = d
    /\ Ids(store.claims) = {LastOf(d) : d \in Dimensions}

(* The client adds the claims a report does not refer to.  The words the   *)
(* review looks for are in the rule's report, an LLM may leave them out. *)
Report(words) == <<[claims |-> Ids(store.claims), words |-> words]>>

WriterFits ==
    /\ store.claims # <<>> /\ store.checks # <<>>
    /\ Ids(store.claims) \subseteq Ids(store.checks)

Write ==
    /\ step = "write"
    /\ LET before == IF ~AsksLLM THEN store ELSE WithContext(store) IN
       \/ /\ AsksLLM /\ WriterFits
          /\ \E words \in BOOLEAN : store' = [before EXCEPT !.report = Report(words)]
          /\ Succeeds
       \/ /\ HasRules /\ WriterFits /\ RuleReportFits
          /\ store' = [before EXCEPT !.report = Report(TRUE)]
          /\ Succeeds
       \/ /\ ~HasRules \/ ~WriterFits \/ ~RuleReportFits
          /\ store' = (IF WriterFits THEN before ELSE store)
          /\ Fails

(* checks_by_claim_id: of the checks of one id the last is kept. *)
CheckOf(id) ==
    store.checks[CHOOSE i \in DOMAIN store.checks :
        /\ store.checks[i].id = id
        /\ \A j \in DOMAIN store.checks : store.checks[j].id = id => j <= i].status

Issue(target, severity) == [target |-> target, severity |-> severity]

ClaimIssues(report) ==
    {Issue(id, "high") : id \in {id \in report.claims :
        id \in Ids(store.checks) => CheckOf(id) \in {"missing_evidence", "invalid_evidence"}}}
    \cup
    {Issue(id, "medium") : id \in {id \in report.claims :
        id \in Ids(store.checks) /\ CheckOf(id) = "weak"}}

(* build_review_feedback. *)
ReviewIssues(report) ==
    ClaimIssues(report)
    \cup (IF report.claims = {} \/ ~(report.claims \subseteq Ids(store.claims))
          THEN {Issue(<<"report">>, "high")} ELSE {})
    \cup (IF report.words THEN {} ELSE {Issue(<<"report">>, "medium")})
    \cup (IF Len(store.cards) < MinCards THEN {Issue(<<"task">>, "high")} ELSE {})

Review ==
    /\ step = "review"
    /\ IF \E kind \in {"report", "claims", "checks", "cards"} : store[kind] = <<>>
       THEN Fails /\ UNCHANGED store
       ELSE /\ LET issues == ReviewIssues(store.report[1]) IN
               store' = [store EXCEPT !.review =
                  <<[issues |-> issues,
                     approved |-> \A i \in issues : i.severity # "high"]>>]
            /\ Succeeds

-----------------------------------------------------------------------------
(* run_review_quality_gate. *)

Blocking == {"unsupported", "missing_evidence", "invalid_evidence"}

Task(kind, claim, status) == [kind |-> kind, claim |-> claim, status |-> status]

FeedbackOf(check) ==
    IF check.status = "weak" THEN <<Task("analysis", check.id, "skipped")>>
    ELSE IF check.status \in Blocking
    THEN <<Task("collection", check.id, "blocked"), Task("analysis", check.id, "pending")>>
    ELSE <<>>

(* _dedupe_tasks: of the tasks of one key the first is kept. *)
Deduped(tasks) ==
    FoldLeft(LAMBDA kept, t :
                IF \E k \in ToSet(kept) : k.kind = t.kind /\ k.claim = t.claim
                THEN kept ELSE Append(kept, t),
             <<>>, tasks)

FeedbackTasks(checks, review) ==
    Deduped(FlattenSeq([i \in DOMAIN checks |-> FeedbackOf(checks[i])])
            \o (IF review.approved THEN <<>> ELSE <<Task("revision", <<>>, "blocked")>>))

Decision(checks, tasks) ==
    IF \E t \in ToSet(tasks) : t.status = "blocked" THEN "blocked"
    ELSE IF \E c \in ToSet(checks) : c.status = "weak" THEN "passed_with_warnings"
    ELSE "passed"

-----------------------------------------------------------------------------
(* _make_check: a check that does not hold has failed. *)
Failing(holds) == SetToSeq({name \in DOMAIN holds : ~holds[name]})

(* run_guardrail_checks: the names of those that fail.  The bundles and    *)
(* memories of a completed run are those built after its gate. *)

(* check_weak_citation_visibility. *)
WeakVisible(a) ==
    WeakTargets(a) \subseteq {i.target : i \in a.review[1].issues}
                             \cap {t.claim : t \in ToSet(a.feedback)}

EvidenceHasSource(a) == \A e \in ToSet(a.evidence) : SourceOf[e] \in ToSet(a.sources)

ClaimsHaveEvidence(a) ==
    \A c \in ToSet(a.claims) : c.evidence # {} /\ c.evidence \subseteq ToSet(a.evidence)

ReportHasClaims(a) == a.report[1].claims # {} /\ a.report[1].claims \subseteq Ids(a.claims)

BundlesRefer(a) ==
    /\ Cardinality(ToSet(a.bundles)) >= 6
    /\ \A b \in ToSet(a.bundles) :
          /\ b.sources \subseteq ToSet(a.sources) /\ b.evidence \subseteq ToSet(a.evidence)
          /\ b.cards \subseteq Ids(a.cards) /\ b.claims \subseteq Ids(a.claims)

WriterIsShownClaims(a) ==
    \E b \in ToSet(a.bundles) :
        b.role = "writer" /\ b.claims # {} /\ a.report[1].claims \subseteq b.claims

MemoryRefers(a) ==
    \A m \in ToSet(a.memory) :
        m.evidence \subseteq ToSet(a.evidence) /\ m.claims \subseteq Ids(a.claims)

Guardrails(a) ==
    Failing([evidence_source_refs_valid       |-> EvidenceHasSource(a),
             claims_require_valid_evidence_ids |-> ClaimsHaveEvidence(a),
             report_claim_ids_preserved       |-> ReportHasClaims(a),
             context_preserves_artifact_ids   |-> BundlesRefer(a),
             writer_context_requires_claim_ids |-> WriterIsShownClaims(a),
             memory_items_keep_traceable_refs |-> MemoryRefers(a),
             weak_citations_are_visible       |-> WeakVisible(a)])

Completed == \A s \in ToSet(Steps) : nodes[s] = "completed"

(* The fixed workflow has no gate, and the others none when a node has     *)
(* failed: the decision of the last run stays, in the store only.          *)
Judged == Completed /\ mode # "fixed"

(* The gate, then the contexts, then the guardrails. *)
Gated ==
    LET tasks == FeedbackTasks(store.checks, store.review[1])
        judged == WithContext([store EXCEPT !.gate = <<Decision(store.checks, tasks)>>,
                                            !.feedback = tasks])
    IN  [judged EXCEPT !.guards = Guardrails(judged)]

(* build_pipeline_summary reads whatever artifacts there are. *)
Summary(a) ==
    [status   |-> IF Completed THEN "completed" ELSE "failed",
     approved |-> a.review # <<>> /\ a.review[1].approved,
     weak     |-> Cardinality({i \in DOMAIN a.checks : a.checks[i].status = "weak"}),
     gate     |-> IF Judged THEN a.gate[1] ELSE IF mode = "fixed" THEN "none" ELSE "not_run"]

Close ==
    /\ step = "close"
    /\ store' = IF Judged THEN Gated ELSE store
    /\ summary' = Summary(store')
    /\ step' = "closed"
    /\ UNCHANGED <<mode, nodes, runs>>

Next ==
    \/ StartFixed \/ StartBoard \/ StartLLM \/ Collect \/ Extract \/ Analyze \/ CheckCitations \/ Write \/ Review
    \/ Close

Spec == Init /\ [][Next]_vars

-----------------------------------------------------------------------------

JustCompleted == step = "closed" /\ summary.status = "completed"

Distinct == Cardinality(Ids(store.claims)) = Len(store.claims)

Sound(e) == e \notin WeakEvidence /\ SourceOf[e] \notin WeakSources

(* A weak citation of a completed run is named to the reader by the review *)
(* and by a feedback task, or a guardrail fails: two claims with one id    *)
(* hide each other from the review, not from the guardrails. *)
WeakIsNeverHidden ==
    JustCompleted /\ mode # "fixed" =>
        \A c \in ToSet(store.checks) : c.status = "weak" =>
            \/ store.guards # <<>>
            \/ /\ \E i \in store.review[1].issues : i.target = c.id
               /\ \E t \in ToSet(store.feedback) : t.claim = c.id
               /\ store.gate # <<"passed">>

(* When a run completes, what it leaves belongs together, whatever the run *)
(* before it left: every claim has its check, supported exactly when all   *)
(* it cites is in the store and sound and weak otherwise, so that no       *)
(* citation blocks; the report refers to every claim; the gate is blocked  *)
(* exactly when there are too few product cards, and the summary says so;  *)
(* what the agents are told to remember is this run's; and no guardrail    *)
(* fails when the claims have ids of their own. *)
CompletedIsTraceable ==
    JustCompleted =>
        /\ Len(store.checks) = Len(store.claims)
        /\ \A i \in DOMAIN store.claims :
              LET claim == store.claims[i] IN
              /\ store.checks[i] = [id |-> claim.id, status |-> claim.status]
              /\ claim.evidence # {} /\ claim.evidence \subseteq ToSet(store.evidence)
              /\ claim.status = IF \A e \in claim.evidence : Sound(e)
                                THEN "supported" ELSE "weak"
        /\ store.report[1].claims = Ids(store.claims)
        /\ mode # "fixed" =>
              /\ WeakIsNeverHidden
              /\ store.gate = <<"blocked">> <=> Len(store.cards) < MinCards
              /\ store.gate = <<summary.gate>> /\ summary.weak = Cardinality({i \in DOMAIN store.claims :
                    store.claims[i].status = "weak"})
              /\ LET memory == store.working[1] IN
                 /\ memory.claims = store.report[1].claims
                 /\ memory.weak = {c.id : c \in {c \in ToSet(store.claims) : c.status = "weak"}}
                 /\ memory.approved = summary.approved
                 /\ Distinct => memory.weak \subseteq memory.issues
              /\ Distinct => store.guards = <<>>
=============================================================================
