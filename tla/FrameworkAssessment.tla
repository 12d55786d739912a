-------------------------- MODULE FrameworkAssessment --------------------------
(***************************************************************************)
(* The assessment stage of the analyst: which competitors and dimensions   *)
(* of the framework it covers and how they are split into shards           *)
(* (agents/llm_snapshot.py), what an answer of the LLM must satisfy        *)
(* (analysis_assessment.py), how the answers are put together and what     *)
(* assessment and gaps the code makes of them.  ProfessionalAnalyst has    *)
(* the order of the calls and the saves.                                   *)
(*                                                                         *)
(* Competitors are numbers because the scope is sorted by them, dimensions *)
(* because the framework lists them in an order.                           *)
(***************************************************************************)
EXTENDS Integers, Sequences, FiniteSets, SequencesExt, FiniteSetsExt

CONSTANTS
    Dimensions,          \* dimensions of the framework
    DefaultDimensions,   \* default_dimension_ids
    Facts, Criteria,     \* required_facts and completion_criteria of each
    EvidenceDimension,   \* and the dimension its evidence is filed under
    SingleUnits, ShardUnits,            \* bounds of a call
    MaxDrafts, MaxInsights, MaxGaps     \* bounds of an answer

ASSUME FrameworkAssumption ==
    /\ DefaultDimensions \subseteq Dimensions /\ DefaultDimensions # {}
    /\ \A d \in Dimensions : Facts[d] # {} /\ Criteria[d] # {}
    /\ {SingleUnits, ShardUnits, MaxDrafts, MaxInsights, MaxGaps} \subseteq Nat \ {0}

Pair(c, d) == [competitor |-> c, dimension |-> d]
PairOf(x) == Pair(x.competitor, x.dimension)

-----------------------------------------------------------------------------
(* The scope (resolve_framework_assessment_binding).  A research task may  *)
(* name a framework and one of its dimensions, or a dimension by any of    *)
(* its names; "known" says that the framework has it.                      *)

Versioned(tasks) == {t \in tasks : t.framework # "none"}

BindingRaises(tasks) ==
    \/ Cardinality({t.framework : t \in Versioned(tasks)}) > 1
    \/ \E t \in Versioned(tasks) : ~t.known

(* Without a research task the focus of the analysis decides. *)
ScopePairs(tasks, competitors, focus) ==
    IF Versioned(tasks) # {} THEN {PairOf(t) : t \in Versioned(tasks)}
    ELSE IF tasks # {} THEN {PairOf(t) : t \in {u \in tasks : u.known}}
    ELSE {Pair(c, d) : c \in competitors,
                       d \in IF focus \cap Dimensions # {} THEN focus \cap Dimensions
                             ELSE DefaultDimensions}

Sorted(pairs) ==
    SetToSortSeq(pairs, LAMBDA p, q :
        \/ p.competitor < q.competitor
        \/ (p.competitor = q.competitor /\ p.dimension < q.dimension))

-----------------------------------------------------------------------------
(* The shards (_assessment_scope_shards). *)

Units(items) ==
    FoldLeft(LAMBDA n, p : n + 1 + Cardinality(Facts[p.dimension])
                             + Cardinality(Criteria[p.dimension]), 0, items)

\* Fault: a new shard is begun without the pair it was begun for.
PackedFaulty(items) ==
    FoldLeft(LAMBDA shards, p :
        IF shards = <<>> THEN <<<<p>>>>
        ELSE IF Units(Last(shards)) + Units(<<p>>) > ShardUnits
        THEN Append(shards, <<>>)
        ELSE Append(Front(shards), Append(Last(shards), p)),
        <<>>, items)

Packed(items) ==
    FoldLeft(LAMBDA shards, p :
        IF shards = <<>> \/ Units(Last(shards)) + Units(<<p>>) > ShardUnits
        THEN Append(shards, <<p>>)
        ELSE Append(Front(shards), Append(Last(shards), p)),
        <<>>, items)

OfDimension(scope, d) == SelectSeq(scope, LAMBDA p : p.dimension = d)

ScopeShards(scope) ==
    IF Units(scope) <= SingleUnits THEN <<scope>>
    ELSE LET order == SetToSortSeq(Dimensions, <) IN
         FlattenSeq([i \in DOMAIN order |-> Packed(OfDimension(scope, order[i]))])

(* The evidence a shard is shown (_assessment_shard_evidence). *)
ShardEvidence(evidence, items) ==
    {e \in evidence : \E p \in ToSet(items) :
        e.competitor = p.competitor /\ e.dimension = EvidenceDimension[p.dimension]}

-----------------------------------------------------------------------------
(* What an answer must satisfy (validate_analyst_assessment_stage and the  *)
(* bounds of AnalystAssessmentStage).                                      *)

WithinBounds(stage) ==
    /\ Len(stage.drafts) \in 1..MaxDrafts
    /\ Len(stage.insights) <= MaxInsights /\ Len(stage.gaps) <= MaxGaps

DraftsMatchScope(drafts, scope) ==
    /\ \A i, j \in DOMAIN drafts : PairOf(drafts[i]) = PairOf(drafts[j]) => i = j
    /\ {PairOf(d) : d \in ToSet(drafts)} = ToSet(scope)

FactsPartitioned(d) ==
    /\ d.covered \cap d.missing = {}
    /\ d.covered \cup d.missing = Facts[d.dimension]

CriteriaPartitioned(d) ==
    /\ d.met \cap d.unmet = {}
    /\ d.met \cup d.unmet \cup d.inapplicable = Criteria[d.dimension]
    /\ d.inapplicable \cap (d.met \cup d.unmet) = {}

DraftEvidenceFits(d, evidence) ==
    \A id \in d.evidence : \E e \in evidence :
        e.id = id /\ e.competitor = d.competitor
          /\ e.dimension = EvidenceDimension[d.dimension]

DraftStatusFits(d) ==
    /\ d.status = "COVERED" => d.missing = {} /\ d.unmet = {}
    /\ d.status = "MISSING" => d.evidence = {}

InsightFits(i, scope, evidence) ==
    /\ i.dimension \in {p.dimension : p \in ToSet(scope)}
    /\ i.competitors \subseteq {p.competitor : p \in ToSet(scope)}
    /\ \A id \in i.evidence : \E e \in evidence :
          /\ e.id = id /\ e.dimension = EvidenceDimension[i.dimension]
          /\ i.competitors # {} => e.competitor \in i.competitors

GapFits(g, scope) ==
    /\ {Pair(c, g.dimension) : c \in g.competitors} \subseteq ToSet(scope)
    /\ g.dimension \in {p.dimension : p \in ToSet(scope)}
    /\ g.facts \subseteq Facts[g.dimension]

ValidStage(stage, scope, evidence) ==
    /\ WithinBounds(stage)
    /\ DraftsMatchScope(stage.drafts, scope)
    /\ \A d \in ToSet(stage.drafts) :
          /\ FactsPartitioned(d) /\ CriteriaPartitioned(d)
          /\ DraftEvidenceFits(d, evidence) /\ DraftStatusFits(d)
    /\ \A i \in ToSet(stage.insights) : InsightFits(i, scope, evidence)
    /\ \A g \in ToSet(stage.gaps) : GapFits(g, scope)

-----------------------------------------------------------------------------
(* The answers of the shards, put together (_assemble_assessment_stages).  *)

InsightKey(i) == <<i.dimension, i.competitors, i.evidence>>
GapKey(g) == <<g.dimension, g.competitors, g.facts>>

(* Of the insights with one key the surest is kept, of the gaps the first. *)
UniqueInsights(all) ==
    {all[i] : i \in {i \in DOMAIN all : \A j \in DOMAIN all :
        InsightKey(all[i]) = InsightKey(all[j]) =>
            \/ all[j].confidence < all[i].confidence
            \/ (all[j].confidence = all[i].confidence /\ i <= j)}}

UniqueGaps(all) ==
    {all[i] : i \in {i \in DOMAIN all :
        \A j \in 1..(i - 1) : GapKey(all[i]) # GapKey(all[j])}}

(* The gaps of most impact first (0 is critical, 1 high), of these the     *)
(* ones that block the decision, then the order of the framework. *)
GapRank(g) == <<g.impact, IF g.blocks THEN 0 ELSE 1, g.dimension>>

Before(r, s) ==
    \E k \in DOMAIN r : r[k] < s[k] /\ \A l \in 1..(k - 1) : r[l] = s[l]

FirstOf(s, n) == SubSeq(s, 1, IF Len(s) < n THEN Len(s) ELSE n)

Assembled(stages, scope) ==
    IF Len(stages) = 1 THEN stages[1]
    ELSE LET all(f) == FlattenSeq([k \in DOMAIN stages |-> stages[k][f]]) IN
         [drafts   |-> [i \in DOMAIN scope |->
                           CHOOSE d \in ToSet(all("drafts")) : PairOf(d) = scope[i]],
          insights |-> FirstOf(SetToSortSeq(UniqueInsights(all("insights")),
                           LAMBDA i, j : Before(<<-i.confidence, i.dimension>>,
                                                <<-j.confidence, j.dimension>>)),
                           MaxInsights),
          gaps     |-> FirstOf(SetToSortSeq(UniqueGaps(all("gaps")),
                           LAMBDA g, h : Before(GapRank(g), GapRank(h))), MaxGaps)]

-----------------------------------------------------------------------------
(* The assessment (materialize_analysis_assessment): the code and not the  *)
(* LLM decides the status, scores and further gaps.                        *)

Status(d) ==
    IF d.status \in {"NOT_APPLICABLE", "CONFLICTING"} THEN d.status
    ELSE IF d.covered = {} THEN "MISSING"
    ELSE IF d.missing = {} /\ d.unmet = {} THEN "COVERED" ELSE "PARTIAL"

(* DimensionAssessment does not accept what the code may make of a draft.  *)
Refused(d) == Status(d) = "MISSING" /\ d.evidence # {}

AutoGap(d) == [dimension |-> d.dimension, competitors |-> {d.competitor},
               facts |-> d.missing, impact |-> 2, blocks |-> FALSE]

(* A pair has a gap of its own unless the LLM named it in one. *)
AssessmentGaps(stage) ==
    LET named == UNION {{Pair(c, g.dimension) : c \in g.competitors} : g \in ToSet(stage.gaps)}
    IN  ToSet(stage.gaps)
          \cup {AutoGap(d) : d \in {d \in ToSet(stage.drafts) :
                                      d.missing # {} /\ PairOf(d) \notin named}}

Blocking(g) == g.blocks /\ g.impact <= 1

Overall(stage) ==
    LET drafts == ToSet(stage.drafts) IN
    IF /\ \A d \in drafts : Status(d) \in {"COVERED", "NOT_APPLICABLE"}
       /\ ~\E g \in AssessmentGaps(stage) : Blocking(g)
    THEN "SUFFICIENT"
    ELSE IF \A d \in drafts : Status(d) = "NOT_APPLICABLE" \/ d.covered = {}
    THEN "INSUFFICIENT" ELSE "PARTIAL"
===============================================================================
