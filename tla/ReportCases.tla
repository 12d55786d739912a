------------------------------- MODULE ReportCases -------------------------------
(***************************************************************************)
(* Small inputs of ProfessionalReport: an LLM's report of three sections   *)
(* with one line each and, for some, an index of its own before the end;   *)
(* and the mock's report.  The client adds the index of what is missing.   *)
(***************************************************************************)
EXTENDS Naturals, Sequences, FiniteSets, SequencesExt, CaseInputs

ReportSections == <<"summary", "comparison", "advice", "index">>
ReportMinBody == [n \in 0..10 |-> IF n >= 3 THEN 50 ELSE 40]

PR == INSTANCE ProfessionalReport WITH
        Required <- ReportSections, MinBody <- ReportMinBody, MinSection <- 10

LOCAL Artifact(id, kind, evidence, status, dimension) ==
    [id |-> id, kind |-> kind, evidence |-> evidence, status |-> status,
     dimension |-> dimension, type |-> dimension, name |-> id]

CheckedClaims(s1, s2, s3, n) ==
    {Artifact("c1", "claim", {1}, s1, "feature"), Artifact("c2", "claim", {2}, s2, "pricing")}
    \cup (IF n = 3 THEN {Artifact("c3", "claim", {1, 3}, s3, "risk")} ELSE {})

ReportTask == [preferred |-> "", subject |-> "x", industry |-> "", competitors |-> <<"p1", "p2">>]
ReportBrief == [industry |-> ""]

ReportProfiles == {Artifact("p1", "profile", {1}, "pending", ""),
                   Artifact("p2", "profile", {}, "pending", "")}
ReportGaps == {Artifact("g1", "gap", {3}, "pending", "")}
ReportNotes == {Artifact("n1", "note", {}, "pending", "")}
ReportArtifacts(claims) == claims \cup ReportProfiles \cup ReportGaps \cup ReportNotes

(* Lines that refer to nothing, claims, a gap and what is unknown; a bare  *)
(* reference and a heading. *)
ReportLines ==
    {<<PR!Line("text", "", r, {"p1", "p2"}, 10)>>
        : r \in {<<>>, <<"c1">>, <<"c2", "c1">>, <<"c3">>, <<"g1">>, <<"x">>}}
    \cup {<<>>, <<[PR!Line("text", "", <<"c1">>, {}, 0) EXCEPT !.bare = TRUE]>>,
          <<PR!Line("heading", "", <<"c2">>, {}, 4)>>}

LOCAL Opens(section) == <<PR!Line("section", section, <<>>, {}, 4)>>

WrittenReportCase ==
    /\ Begin("written_report")
    /\ \E s1, s2 \in {"supported", "weak"}, first, second, third \in ReportLines,
          gaps \in {{}, {"g1"}}, index \in {<<>>, Opens("index")} :
          LET claims == CheckedClaims(s1, s2, "invalid_evidence", 3)
              title == PR!Title(ReportTask, ReportBrief)
              written == [title |-> title, heading |-> title, claims |-> {}, gaps |-> gaps,
                          lines |-> Opens("summary") \o first \o index
                                    \o Opens("comparison") \o second \o Opens("advice") \o third]
          IN  input' = [claims |-> claims,
                        report |-> PR!WithIndex(written, {c.id : c \in claims})]

MockReportCase ==
    /\ Begin("mock_report")
    /\ \E s1, s2, s3 \in {"supported", "weak", "invalid_evidence"}, n \in 2..3,
          gaps \in {{}, ReportGaps} :
          LET claims == CheckedClaims(s1, s2, s3, n)
              mock == PR!MockReport(ReportTask, ReportBrief, claims, ReportProfiles,
                                    ReportNotes, gaps, 12)
          IN  input' = [claims |-> claims,
                        report |-> PR!WithIndex(mock, {c.id : c \in claims})]

ReportComplaints ==
    PR!Complaints(input.report, ReportTask, ReportBrief, {c.id : c \in input.claims}, {"g1"})

-----------------------------------------------------------------------------

(* The statements of a report stand on all the evidence of the claims they *)
(* refer to and are not "supported" when one of these is weak or worse; in *)
(* a report that is accepted every claim that the text refers to is part   *)
(* of a statement, unless it is referred to in headings or alone in a line *)
(* only; and the mock's report is accepted, once the claims it leaves out  *)
(* are indexed, when most citations were found. *)
ReportIsMapped ==
    topic \in {"written_report", "mock_report"} =>
        LET body == PR!Body(input.report.lines)
            statements == PR!Statements(input.report.lines, ReportArtifacts(input.claims))
            Most(claims) == 2 * Cardinality(claims) > Cardinality(input.claims)
        IN
        /\ \A i \in DOMAIN statements, c \in input.claims :
              c.id \in statements[i].claims =>
                 /\ c.evidence \subseteq statements[i].evidence
                 /\ c.status # "supported" => statements[i].status # "supported"
        /\ ReportComplaints = {} =>
              /\ \E i \in DOMAIN statements : statements[i].claims # {}
              /\ \A c \in input.claims :
                 \/ \E i \in DOMAIN statements : c.id \in statements[i].claims
                 \/ \A i \in DOMAIN body :
                       c.id \in ToSet(body[i].refs) => body[i].kind = "heading" \/ body[i].bare
        /\ topic = "mock_report" /\ Most(PR!MockClaims(input.claims)) => ReportComplaints = {}
=============================================================================
