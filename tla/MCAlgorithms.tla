------------------------------- MODULE MCAlgorithms -------------------------------
(***************************************************************************)
(* The computations that run in one thread, over all small inputs: a step  *)
(* picks an algorithm and an input for it.                                 *)
(***************************************************************************)
EXTENDS AnalysisCases, ReportCases, ExtractionCases, MissionCases, WebCases

ASSUME AlgorithmsAssumption == EX!ExtractionAssumption /\ PR!ReportAssumption

vars == <<topic, input>>

Init == topic = "none" /\ input = <<>>

Next ==
    \/ ChooseScope \/ AnswerShard \/ ClaimsCase \/ SelectionCase
    \/ ReportCase \/ MockCase \/ WrittenReportCase \/ MockReportCase
    \/ ChunkingCase \/ RetrievalCase \/ ExtractionCase
    \/ ViewCase \/ ObservationCase \/ ContextCase
    \/ SupervisionCase \/ FetchCase \/ MarkupCase
    \/ ProviderCase \/ TransportCase \/ AddressCase \/ ZhihuCase

Spec == Init /\ [][Next]_vars
=============================================================================
