----------------------------- MODULE AnalystOutput -----------------------------
(***************************************************************************)
(* What goes into a stage of the analyst and what comes out of it: which   *)
(* evidence a prompt is shown (agents/llm_snapshot.py), which claims are   *)
(* dropped and what an output must satisfy, in the client when it is       *)
(* answered and again when the portfolio is put together (llm/client.py,   *)
(* llm/structured.py), and what the deterministic mock answers instead of  *)
(* the LLM.                                                                *)
(*                                                                         *)
(* Evidence is a record of its id, competitor, dimension, confidence and   *)
(* whether it is marked as conflicting.  Competitors, dimensions and ids   *)
(* are numbers because the code sorts by them.                             *)
(***************************************************************************)
EXTENDS Integers, Sequences, FiniteSets, SequencesExt, FiniteSetsExt

CONSTANTS
    Within,        \* pairs of competitors: the name of one is in the other's
    LegacyDims,    \* the dimensions the mock of AnalysisClaim[] knows
    MaxProfiles, MaxClaims   \* bounds of the stages' lists

IdsOf(es) == {e.id : e \in es}
CompetitorsOf(es) == {e.competitor : e \in es}
DimensionsOf(es) == {e.dimension : e \in es}
Ascending(S) == SetToSortSeq(S, <)
Smaller(a, b) == IF a < b THEN a ELSE b
Prefix(s, n) == SubSeq(s, 1, Smaller(Len(s), n))

-----------------------------------------------------------------------------
(* The evidence a stage is shown. *)

(* _dedupe_evidence: of two with one id, the surer; the first of equals.   *)
Deduped(s) ==
    {s[i] : i \in {i \in DOMAIN s : \A j \in DOMAIN s :
        s[j].id = s[i].id => \/ s[j].confidence < s[i].confidence
                             \/ (s[j].confidence = s[i].confidence /\ i <= j)}}

(* _select_stage_evidence.  The evidence of a competitor and dimension,    *)
(* the surest first. *)
Bucket(es, c, d) ==
    SetToSortSeq({e \in es : e.competitor = c /\ e.dimension = d},
        LAMBDA e, f : \/ e.confidence > f.confidence
                      \/ (e.confidence = f.confidence /\ e.id < f.id))

(* In every round one of each dimension. *)
RoundRobin(es, c) ==
    LET dims == Ascending(DimensionsOf({e \in es : e.competitor = c}))
        InRound(n) == FlattenSeq([d \in DOMAIN dims |->
            SubSeq(Bucket(es, c, dims[d]), n, Smaller(n, Len(Bucket(es, c, dims[d]))))])
    IN  FlattenSeq([n \in 1..Cardinality(es) |-> InRound(n)])

SelectStageEvidence(es, perCompetitor, total) ==
    LET names == Ascending(CompetitorsOf(es)) IN
    Prefix(FlattenSeq([i \in DOMAIN names |->
               Prefix(RoundRobin(es, names[i]), perCompetitor)]), total)

-----------------------------------------------------------------------------
(* Claims: the competitors a claim lists, those its text names, and the    *)
(* evidence for and against it. *)

(* _known_analyst_competitors, and _known_competitors of the agent. *)
Known(competitors, es, cards) == competitors \cup CompetitorsOf(es) \cup cards

(* A name is looked for anywhere in the text, also inside another name. *)
NamesFound(claim, known) ==
    known \cap (claim.named \cup {w[1] : w \in {w \in Within : w[2] \in claim.named}})

CompetitorsCited(claim, es) == {e.competitor : e \in {f \in es : f.id \in claim.evidence}}

\* Fault: it is enough that some evidence is cited.
AlignedFaulty(claim, es, known) ==
    NamesFound(claim, known) \subseteq claim.competitors /\ claim.evidence # {}

(* reject_unaligned_claims_v2 *)
Aligned(claim, es, known) ==
    /\ NamesFound(claim, known) \subseteq claim.competitors
    /\ claim.competitors \subseteq CompetitorsCited(claim, es)

(* _filter_unaligned_stage_claims *)
Filtered(claims, es, known) == SelectSeq(claims, LAMBDA c : Aligned(c, es, known))

(* _validate_output, for AnalystClaimsStage and AnalystBriefProfilesStage. *)
ClaimsStageValid(claims, es, known) ==
    /\ Len(claims) \in 1..MaxClaims
    /\ \A c \in ToSet(claims) :
          /\ c.evidence # {} /\ c.evidence \cup c.against \subseteq IdsOf(es)
          /\ c.competitors \subseteq known

BriefStageValid(profiles, es, known) ==
    /\ Len(profiles) \in 1..MaxProfiles
    /\ \A p \in ToSet(profiles) : p.name \in known /\ p.evidence \subseteq IdsOf(es)

(* The client's verdict on the claims it was answered. *)
ClaimsAnswer(claims, es, known) ==
    IF Len(claims) > MaxClaims THEN <<>>
    ELSE LET kept == Filtered(claims, es, known) IN
         IF ClaimsStageValid(kept, es, known) THEN kept ELSE <<>>

(* validate_portfolio_v2_refs, over all evidence and competitors. *)
PortfolioValid(p, es, known) ==
    /\ p.profiles # <<>> /\ p.claims # <<>>
    /\ \A x \in ToSet(p.profiles) : x.evidence \subseteq IdsOf(es) /\ x.name \in known
    /\ p.covered \cup p.gapped \subseteq IdsOf(es)
    /\ \A c \in ToSet(p.claims) :
          /\ c.evidence # {} /\ c.evidence \cup c.against \subseteq IdsOf(es)
          /\ c.competitors \subseteq known
          /\ NamesFound(c, known) \subseteq c.competitors
          /\ \A n \in c.competitors : \E e \in es : e.id \in c.evidence /\ e.competitor = n

-----------------------------------------------------------------------------
(* Reports: the claims one lists and those its text marks. *)

(* normalize_report_claim_references: every claim is listed and marked,    *)
(* claims that do not exist are left as they are. *)
Normalized(report, known) ==
    [ids |-> report.ids \cup known, marked |-> report.marked \cup known]

(* _validate_output, for CompetitiveReport. *)
ReportValid(report, known) ==
    /\ report.ids # {} /\ report.ids \subseteq known
    /\ report.ids \subseteq report.marked

-----------------------------------------------------------------------------
(* The mock. *)

(* _mock_claims, for AnalysisClaim[]: of the evidence of a dimension it    *)
(* cites the first six. *)
MockLegacyClaims(s) ==
    {LET items == SelectSeq(s, LAMBDA e : e.dimension = d) IN
     [competitors |-> CompetitorsOf(ToSet(items)), evidence |-> IdsOf(ToSet(Prefix(items, 6)))]
        : d \in LegacyDims \cap DimensionsOf(ToSet(s))}

(* _mock_product_card and the profiles made of the cards. *)
MockProfiles(s) ==
    LET names == SetToSeq(CompetitorsOf(ToSet(s))) IN
    [i \in DOMAIN names |-> [name |-> names[i],
                             evidence |-> {e.id : e \in {f \in ToSet(s) : f.competitor = names[i]}}]]

Of(s, c, d) == SelectSeq(s, LAMBDA e : e.competitor = c /\ e.dimension = d)

CoverageStatus(matches) ==
    IF \E e \in ToSet(matches) : e.conflicting THEN "conflicting"
    ELSE IF matches # <<>> /\ \A e \in ToSet(matches) : e.confidence = 0 THEN "weak"
    ELSE IF Len(matches) >= 2 THEN "sufficient"
    ELSE IF Len(matches) = 1 THEN "partial" ELSE "missing"

(* The claim of a dimension: two of the evidence of each competitor that   *)
(* has some, and none of them named where evidence conflicts. *)
MockClaim(s, d) ==
    LET names == {e.competitor : e \in {f \in ToSet(s) : f.dimension = d}}
        chosen == UNION {ToSet(Prefix(Of(s, c, d), 2)) : c \in names}
        conflict == \E c \in names : CoverageStatus(Of(s, c, d)) = "conflicting" IN
    [competitors |-> names, named |-> IF conflict THEN {} ELSE names,
     evidence |-> IdsOf(chosen), against |-> {e.id : e \in {f \in chosen : f.conflicting}}]

MockClaims(s) ==
    LET dims == Ascending(DimensionsOf(ToSet(s))) IN
    [i \in DOMAIN dims |-> MockClaim(s, dims[i])]

(* The gaps cite evidence only where the coverage is weak or conflicting. *)
MockGapEvidence(s) ==
    UNION {IF CoverageStatus(Of(s, c, d)) \in {"weak", "conflicting"}
           THEN IdsOf(ToSet(Of(s, c, d))) ELSE {}
              : c \in CompetitorsOf(ToSet(s)), d \in DimensionsOf(ToSet(s))}

MockPortfolio(s) ==
    [profiles |-> MockProfiles(s), claims |-> MockClaims(s),
     covered |-> IdsOf(ToSet(s)), gapped |-> MockGapEvidence(s)]

(* _mock_report refers to its fourth claim, when it has one. *)
MockReportRaises(claims) == Cardinality(claims) \in 1..3
=============================================================================
