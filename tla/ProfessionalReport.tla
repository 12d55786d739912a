---------------------------- MODULE ProfessionalReport ----------------------------
(***************************************************************************)
(* The professional report (reporting/professional.py): the title that a   *)
(* task resolves to, what a report must have to be accepted, the report of *)
(* the mock, and the statements that map every line of a report to the     *)
(* claims and the evidence it stands on.                                   *)
(*                                                                         *)
(* A report is its lines.  A line opens a section ("## "), is another      *)
(* heading, or is text; it has the ids it refers to, the competitors it    *)
(* names, the characters a reader sees, and says whether it is more than   *)
(* its references.                                                         *)
(***************************************************************************)
EXTENDS Naturals, Sequences, FiniteSets, SequencesExt, FiniteSetsExt

CONSTANTS
    Required,        \* REQUIRED_REPORT_SECTIONS, "index" is the last
    MinBody,         \* characters of the body, by the number of claims
    MinSection       \* characters of the summary, the comparison and the advice

IndexSection == "index"

(* What the constants have to be; the instance is assumed to keep it. *)
ReportAssumption ==
    /\ {"summary", "comparison", "advice", IndexSection} \subseteq ToSet(Required)

-----------------------------------------------------------------------------
(* resolve_report_title: the first of these that is given. *)
Title(task, brief) ==
    IF task.preferred # "" THEN <<"preferred", task.preferred>>
    ELSE IF task.subject # "" THEN <<"subject", task.subject>>
    ELSE IF brief.industry # "" THEN <<"industry", brief.industry>>
    ELSE IF task.industry # "" THEN <<"industry", task.industry>>
    ELSE IF task.competitors # <<>>
    THEN <<"competitors", SubSeq(task.competitors, 1,
                                 IF Len(task.competitors) > 3 THEN 3 ELSE Len(task.competitors))>>
    ELSE <<"fallback">>

Line(kind, section, refs, names, chars) ==
    [kind |-> kind, section |-> section, refs |-> refs, names |-> names,
     chars |-> chars, bare |-> FALSE]

OpensIndex(line) == line.kind = "section" /\ line.section = IndexSection

\* Fault: references in the index count as well.
BodyFaulty(lines) == lines

(* The lines before the first index of claims. *)
Body(lines) ==
    IF \E i \in DOMAIN lines : OpensIndex(lines[i])
    THEN SubSeq(lines, 1, (CHOOSE i \in DOMAIN lines :
                              OpensIndex(lines[i]) /\ \A j \in 1..(i-1) : ~OpensIndex(lines[j])) - 1)
    ELSE lines

(* _extract_report_section: the lines up to the next section. *)
SectionLines(lines, name) ==
    LET Opens(i) == lines[i].kind = "section" /\ lines[i].section = name
        starts == {i \in DOMAIN lines : Opens(i)}
        first == CHOOSE i \in starts : \A j \in starts : i <= j
    IN  IF starts = {} THEN {}
        ELSE {i \in DOMAIN lines : i > first
                 /\ \A j \in (first + 1)..i : lines[j].kind # "section"}

Chars(lines, at) == MapThenSumSet(LAMBDA i : lines[i].chars, at)

RefsOf(lines) == UNION {ToSet(lines[i].refs) : i \in DOMAIN lines}

(* 60 % of the claims, rounded up. *)
MinBodyClaims(n) == IF n <= 3 THEN 1 ELSE (n * 6 + 9) \div 10

(* validate_professional_report: the complaints about a report. *)
Complaints(report, task, brief, claims, gaps) ==
    LET lines == report.lines
        body == Body(lines)
        compared == UNION {lines[i].names : i \in SectionLines(lines, "comparison")}
    IN
    {c \in {"title", "heading", "sections", "short", "unknown_claim", "claim_ref",
            "body_claims", "comparison", "unknown_gap", "gap_ref"} :
       CASE c = "title" -> report.title # Title(task, brief)
         [] c = "heading" -> report.heading # report.title
         [] c = "sections" ->
               ~(ToSet(Required) \subseteq
                   {lines[i].section : i \in {i \in DOMAIN lines : lines[i].kind # "text"}})
         [] c = "short" ->
               \/ Chars(body, DOMAIN body) < MinBody[Cardinality(report.claims)]
               \/ \E s \in {"summary", "comparison", "advice"} :
                     Chars(lines, SectionLines(lines, s)) < MinSection
         [] c = "unknown_claim" -> ~(report.claims \subseteq claims)
         [] c = "claim_ref" -> ~(report.claims \subseteq RefsOf(lines))
         [] c = "body_claims" ->
               /\ report.claims # {}
               /\ Cardinality(report.claims \cap RefsOf(body)) < MinBodyClaims(Cardinality(report.claims))
         [] c = "comparison" ->
               /\ Cardinality(ToSet(task.competitors)) >= 2
               /\ Cardinality(ToSet(task.competitors) \cap compared) < 2
         [] c = "unknown_gap" -> ~(report.gaps \subseteq gaps)
         [] c = "gap_ref" -> ~(report.gaps \subseteq RefsOf(lines))}

-----------------------------------------------------------------------------
(* The report with the claims that it does not refer to in an index that   *)
(* is added at its end (normalize_report_claim_references). *)
WithIndex(report, claims) ==
    LET missing == SetToSeq(claims \ RefsOf(report.lines)) IN
    [report EXCEPT
        !.claims = @ \cup claims,
        !.lines = IF missing = <<>> THEN @
                  ELSE @ \o <<Line("section", IndexSection, <<>>, {}, 6)>>
                         \o [i \in DOMAIN missing |->
                               [Line("text", "", <<missing[i]>>, {}, 0) EXCEPT !.bare = TRUE]]]

(* An artifact is [id, kind, evidence, status, ...]: a claim has the status of  *)
(* its citation check, "pending" when it has none. *)
Rank == [pending |-> 0, supported |-> 1, weak |-> 2, unsupported |-> 3,
         missing_evidence |-> 4, invalid_evidence |-> 5]

Worst(statuses) ==
    CHOOSE s \in statuses : \A t \in statuses : Rank[s] >= Rank[t]

(* One statement for a line of text of the body that refers to something   *)
(* known and is more than its references. *)
Statement(line, artifacts) ==
    LET named == {a \in artifacts : a.id \in ToSet(line.refs)}
        Of(kind) == {a \in named : a.kind = kind}
    IN
    [kind |-> IF Of("claim") # {} THEN "claim"
              ELSE IF Of("gap") # {} THEN "research_gap"
              ELSE IF Of("profile") # {} THEN "profile" ELSE "comparability",
     claims |-> {a.id : a \in Of("claim")},
     evidence |-> UNION {a.evidence : a \in named},
     status |-> IF Of("claim") = {} THEN "pending"
                ELSE Worst({a.status : a \in Of("claim")})]

Statements(lines, artifacts) ==
    LET Speaks(line) ==
            /\ line.kind = "text" /\ ~line.bare
            /\ \E a \in artifacts : a.id \in ToSet(line.refs)
        told == SelectSeq(Body(lines), Speaks)
    IN  [i \in DOMAIN told |-> Statement(told[i], artifacts)]

-----------------------------------------------------------------------------
(* build_professional_mock_report. *)

(* The claims whose citations were found, or all if none was. *)
MockClaims(claims) ==
    LET cited == {c \in claims : c.status \in {"supported", "weak"}}
    IN  IF cited = {} THEN claims ELSE cited

Fixed(section, chars) ==
    <<Line("section", section, <<>>, {}, 4), Line("text", "", <<>>, {}, chars)>>

Told(section, items, chars) ==
    Fixed(section, chars)
    \o [i \in DOMAIN items |-> Line("text", "", <<items[i].id>>, {}, 10)]

(* The three claims that matter most, in an order of no concern here. *)
Foremost(claims) == SubSeq(claims, 1, IF Len(claims) < 3 THEN Len(claims) ELSE 3)

(* The claims of the type "recommendation" make the advice, or the         *)
(* foremost claims; the comparison names the competitors in its            *)
(* introduction. *)
MockReport(task, brief, claims, profiles, notes, gaps, chars) ==
    LET own == SetToSeq(MockClaims(claims))
        intro == [Fixed("comparison", chars) EXCEPT ![2].names = {p.name : p \in profiles}]
        Filtered(P(_)) == SelectSeq(own, P)
        advice == Filtered(LAMBDA c : c.type = "recommendation")
    IN
    [title |-> Title(task, brief), heading |-> Title(task, brief),
     claims |-> {c.id : c \in ToSet(own)},
     gaps |-> {g.id : g \in gaps},
     lines |-> Told("summary", Foremost(own), chars)
               \o Fixed("background", chars)
               \o Told("paths", SetToSeq(profiles), chars)
               \o intro
               \o [i \in DOMAIN own |-> Line("text", "", <<own[i].id>>, {}, 10)]
               \o Told("cost", Filtered(LAMBDA c : c.dimension \in {"pricing", "ecosystem"}), chars)
               \o Told("risk", Filtered(LAMBDA c : "risk" \in {c.dimension, c.type}) \o SetToSeq(notes), chars)
               \o Told("gaps", SetToSeq(gaps), chars)
               \o Told("advice", IF advice = <<>> THEN Foremost(own) ELSE advice, chars)
               \o Told(IndexSection, own \o SetToSeq(gaps), chars)]
=============================================================================
