------------------------- MODULE ProfessionalAnalyst -------------------------
(***************************************************************************)
(* The analysis of the research: ResearchAnalysisService.run_once          *)
(* (execution/research_analysis.py) and the staged analyst it runs         *)
(* (agents/llm_snapshot.py, LLMProfessionalAnalystAgent).                  *)
(*                                                                         *)
(* A run asks the LLM for the brief, for the assessment of the framework   *)
(* in one or more shards, and for the claims, each a call of the client    *)
(* (LLMContract) that is repeated once when the answer was truncated.  The *)
(* assessment is saved when it is there, so that a later run may use it    *)
(* again, everything else at the end, one artifact after the other.  The   *)
(* run then checks what it has done, and the claims are cited.  One run is *)
(* made at a time (self._lock); research may go on beside it, as no lock   *)
(* is shared with the coordinator, and the process may die at any point.   *)
(*                                                                         *)
(* Evidence is the set of the research tasks it was verified for, and so   *)
(* is a batch of evidence and what a coverage was projected from.          *)
(***************************************************************************)
EXTENDS Naturals, FiniteSets

CONSTANTS
    Tasks,        \* research tasks
    Shards,       \* shards of the assessment's scope, see AnalystOutput
    Pipelines,    \* pipeline ids: of the pipeline and of a manual analysis
    MaxWork,      \* bound: steps of research
    MaxCrashes    \* bound: how often the process may die

(* What the constants have to be; the instance is assumed to keep it. *)
AnalystAssumption ==
    /\ Shards \in Nat \ {0}
    /\ {MaxWork, MaxCrashes} \subseteq Nat

VARIABLES
    \* what is saved
    evidence,    \* tasks with stored evidence that a run has verified
    ended,       \* tasks that ended PARTIAL or EXHAUSTED
    coverage,    \* evidence_coverage: the evidence it was projected from
    gaps,        \* research_gaps
    assessed,    \* analysis_assessments: their pipeline and their batch
    portfolio, claims, cited,
    \* the run
    pc,
    w,           \* its local variables
    worked, crashes

research == <<evidence, ended, coverage>>
results  == <<portfolio, claims, cited>>
vars == <<research, gaps, assessed, results, pc, w, worked, crashes>>

NoRun == [id |-> "none", attempt |-> 1, shard |-> 1, calls |-> 0, others |-> 0,
          reused |-> FALSE, evidence |-> {}, coverage |-> {}, gaps |-> {},
          coverage0 |-> {}, gaps0 |-> {}, beside |-> FALSE]

CoverageGap(t)  == <<"coverage", t>>
ResearchGap(t)  == <<"research", t>>
AssessedGap(es) == <<"assessed", es>>

Init ==
    /\ evidence = {} /\ ended = {} /\ coverage = {} /\ gaps = {} /\ assessed = {}
    /\ portfolio = FALSE /\ claims = FALSE /\ cited = FALSE
    /\ pc = "idle" /\ w = NoRun
    /\ worked = 0 /\ crashes = 0

-----------------------------------------------------------------------------
(* Research, before the analysis or beside it: each step may call the LLM. *)

Beside ==
    /\ worked < MaxWork /\ worked' = worked + 1
    /\ IF pc = "idle" THEN UNCHANGED w
       ELSE \E n \in {0, 1} : w' = [w EXCEPT !.beside = TRUE, !.others = @ + n]
    /\ UNCHANGED <<assessed, results, pc, crashes>>

(* A task ends with evidence or without; the coverage is projected anew. *)
TaskEnds(t) ==
    /\ Beside
    /\ \/ evidence' = evidence \cup {t} /\ ended' \in {ended, ended \cup {t}}
       \/ evidence' = evidence /\ ended' = ended \cup {t}
    /\ coverage' = evidence'
    /\ UNCHANGED gaps

(* A task fails and its evidence is deleted; the coverage is not touched.  *)
TaskFails(t) ==
    /\ Beside
    /\ evidence' = evidence \ {t} /\ ended' = ended \ {t}
    /\ UNCHANGED <<coverage, gaps>>

NotOfCoverage == {g \in gaps : g[1] # "coverage"}

(* The refresh after a round: the gaps of the coverage are made anew. *)
Refresh ==
    /\ Beside
    /\ coverage' = evidence
    /\ gaps' = NotOfCoverage \cup {CoverageGap(t) : t \in Tasks \ evidence}
    /\ UNCHANGED <<evidence, ended>>

-----------------------------------------------------------------------------
(* run_once, up to the agent. *)

(* get_payload and _analysis_readiness. *)
CanAnalyze == ~portfolio /\ evidence # {}

(* _ensure_research_agent_gaps: every task that ended without having all   *)
(* it needed has a gap of its own.                                         *)
Bridged == gaps \cup {ResearchGap(t) : t \in ended}

Start(id) ==
    /\ pc = "idle" /\ CanAnalyze
    /\ gaps' = Bridged
    /\ w' = [NoRun EXCEPT !.id = id, !.coverage0 = coverage, !.gaps0 = Bridged,
                          !.evidence = evidence]
    /\ pc' = "loading"
    /\ UNCHANGED <<research, assessed, results, worked, crashes>>

Raises == pc' = "idle" /\ w' = NoRun

(* The agent loads its inputs: of the evidence it finds, what was          *)
(* authorised before.                                                      *)
Load ==
    /\ pc = "loading"
    /\ IF evidence \cap w.evidence = {} THEN Raises
       ELSE /\ w' = [w EXCEPT !.evidence = @ \cap evidence, !.coverage = coverage,
                              !.gaps = gaps]
            /\ pc' = "brief"
    /\ UNCHANGED <<research, gaps, assessed, results, worked, crashes>>

-----------------------------------------------------------------------------
(* The stages. *)

Called == [w EXCEPT !.calls = @ + 1]

(* _run_analysis_stage: only a truncation is asked for again, and once,    *)
(* with less evidence.                                                     *)
Truncated ==
    IF w.attempt = 2 THEN Raises
    ELSE w' = [Called EXCEPT !.attempt = 2] /\ UNCHANGED pc

(* A stage's call answers, is truncated or fails for any other reason. *)
Stage(name, next) ==
    /\ pc = name
    /\ \/ w' = [Called EXCEPT !.attempt = 1] /\ pc' = next
       \/ Truncated
       \/ Raises
    /\ UNCHANGED <<research, gaps, assessed, results, worked, crashes>>

Brief == Stage("brief", "binding")

Key == <<w.id, w.evidence>>

(* A saved assessment of the same pipeline and batch is used again. *)
Reusable == Key \in assessed

(* resolve_framework_assessment_binding, which raises when the tasks do    *)
(* not fit one framework.                                                  *)
Bind ==
    /\ pc = "binding"
    /\ \/ Raises
       \/ /\ w' = [w EXCEPT !.reused = Reusable]
          /\ pc' = IF Reusable THEN "claims" ELSE "assess"
    /\ UNCHANGED <<research, gaps, assessed, results, worked, crashes>>

(* The shards are asked for one after the other and kept in memory.        *)
Assess ==
    /\ pc = "assess"
    /\ \/ IF w.shard < Shards
          THEN w' = [Called EXCEPT !.attempt = 1, !.shard = @ + 1] /\ UNCHANGED pc
          ELSE w' = [Called EXCEPT !.attempt = 1] /\ pc' = "assessed"
       \/ Truncated
       \/ Raises
    /\ UNCHANGED <<research, gaps, assessed, results, worked, crashes>>

SaveAssessment ==
    /\ pc = "assessed" /\ pc' = "claims"
    /\ assessed' = assessed \cup {Key}
    /\ UNCHANGED <<research, gaps, results, w, worked, crashes>>

Claims == Stage("claims", "assembling")

(* validate_portfolio_v2_refs: nothing but the loaded evidence is cited,   *)
(* by the coverage neither, and a claim is left.                           *)
Assemble ==
    /\ pc = "assembling"
    /\ \/ w.coverage \subseteq w.evidence /\ pc' = "saving" /\ UNCHANGED w
       \/ Raises
    /\ UNCHANGED <<research, gaps, assessed, results, worked, crashes>>

-----------------------------------------------------------------------------
(* The saves, in the order of artifacts_to_save. *)

SavePortfolio ==
    /\ pc = "saving" /\ pc' = "savingClaims"
    /\ portfolio' = TRUE
    /\ UNCHANGED <<research, gaps, assessed, claims, cited, w, worked, crashes>>

SaveClaims ==
    /\ pc = "savingClaims" /\ pc' = "savingGaps"
    /\ claims' = TRUE
    /\ UNCHANGED <<research, gaps, assessed, portfolio, cited, w, worked, crashes>>

\* Fault: only the gaps of the assessment are saved.
MergedGapsFaulty == {AssessedGap(w.evidence)}

(* merge_research_gaps: the gaps of the assessment join those it loaded. *)
MergedGaps == w.gaps \cup {AssessedGap(w.evidence)}

SaveGaps ==
    /\ pc = "savingGaps" /\ pc' = "checking"
    /\ gaps' = MergedGaps
    /\ UNCHANGED <<research, assessed, results, w, worked, crashes>>

(* run_once, after the agent. *)

ExpectedCalls == 2 + (IF w.reused THEN 0 ELSE Shards)

Check ==
    /\ pc = "checking"
    /\ IF /\ w.calls + w.others \in ExpectedCalls..(2 * ExpectedCalls)
          /\ coverage = w.coverage0
          /\ w.gaps0 \subseteq gaps
       THEN pc' = "citing" /\ UNCHANGED w
       ELSE Raises
    /\ UNCHANGED <<research, gaps, assessed, results, worked, crashes>>

(* _run_citation *)
Cite ==
    /\ pc = "citing"
    /\ \/ cited' = TRUE
       \/ UNCHANGED cited
    /\ Raises
    /\ UNCHANGED <<research, gaps, assessed, portfolio, claims, worked, crashes>>

Crash ==
    /\ crashes < MaxCrashes /\ crashes' = crashes + 1
    /\ pc # "idle" /\ Raises
    /\ UNCHANGED <<research, gaps, assessed, results, worked>>

-----------------------------------------------------------------------------
RunStep ==
    \/ Load \/ Brief \/ Bind \/ Assess \/ SaveAssessment \/ Claims \/ Assemble
    \/ SavePortfolio \/ SaveClaims \/ SaveGaps \/ Check \/ Cite

ResearchStep == (\E t \in Tasks : TaskEnds(t) \/ TaskFails(t)) \/ Refresh

Next == (\E id \in Pipelines : Start(id)) \/ RunStep \/ ResearchStep \/ Crash

(* Every LLM call ends: a run goes on.  Nobody has to start one. *)
Spec == Init /\ [][Next]_vars /\ WF_vars(RunStep)

-----------------------------------------------------------------------------
(* Properties. *)

TypeOK ==
    /\ evidence \cup ended \cup coverage \subseteq Tasks
    /\ assessed \subseteq Pipelines \X SUBSET Tasks
    /\ {portfolio, claims, cited} \subseteq BOOLEAN
    /\ w.attempt \in 1..2 /\ w.shard \in 1..Shards
    /\ w.calls <= 2 * (2 + Shards)

(* No assessment is paid for a batch of evidence that has one: neither     *)
(* after a later stage failed or was truncated twice, nor after a restart  *)
(* ("A matching assessment is reused, preventing duplicate assessment      *)
(* charging after a resumable partial failure",                            *)
(* PROFESSIONAL_ANALYST_FEEDBACK_IMPLEMENTATION_REPORT.md:74).             *)
AssessmentIsPaidOnce == pc \in {"assess", "assessed"} => Key \notin assessed

(* The analysis is paid for and saved once, whoever asks for it. *)
PortfolioIsFinal == [][portfolio => UNCHANGED <<portfolio, assessed>> /\ pc' # "brief"]_vars

(* The checks after the analysis only raise when research went on beside   *)
(* it: what they count and compare is right for retries, for shards and    *)
(* for an assessment that was used again.                                  *)
ChecksBlameOthers ==
    [][pc = "checking" /\ pc' = "idle" /\ crashes' = crashes => w.beside]_vars

(* What the tasks of the research left open survives the run: only         *)
(* coverage gaps come and go, with the research beside the run.            *)
KnownGapsAreKept ==
    pc # "idle" => \A t \in Tasks : ResearchGap(t) \in w.gaps0 => ResearchGap(t) \in gaps

(* A run of the analysis ends, whatever the LLM answers. *)
AnalysisEnds == pc # "idle" ~> pc = "idle"

(* Nothing of the analysis is paid for twice, and nothing of the research  *)
(* is lost over it. *)
NothingIsLostOrPaidTwice == TypeOK /\ AssessmentIsPaidOnce /\ KnownGapsAreKept

(* What was paid for is kept, and an analysis is not failed by checks of   *)
(* its own that do not hold. *)
AnalysisIsKept == PortfolioIsFinal /\ ChecksBlameOthers
=============================================================================
