------------------------------ MODULE AnalysisCases ------------------------------
(***************************************************************************)
(* The algorithms of FrameworkAssessment and AnalystOutput, over all small *)
(* inputs: a step picks the input of one of them, or the next answer of    *)
(* an assessment that is split into shards.                                *)
(***************************************************************************)
EXTENDS FrameworkAssessment, AnalystOutput, CaseInputs

-----------------------------------------------------------------------------
(* The assessment: dimension 2 has two facts, competitor 2 no evidence. *)

MCFacts == <<{"f1"}, {"f2", "f3"}>>
MCCriteria == <<{"c1"}, {"c2"}>>
MCEvidenceDimension == <<10, 20>>

AssessmentEvidence == {[id |-> 1, competitor |-> 1, dimension |-> 10],
                       [id |-> 2, competitor |-> 1, dimension |-> 20]}

ResearchTask(c, d, f, k) == [competitor |-> c, dimension |-> d, framework |-> f, known |-> k]

TaskSets == {
    {},
    {ResearchTask(1, 1, "v1", TRUE), ResearchTask(2, 1, "v1", TRUE), ResearchTask(1, 2, "v1", TRUE)},
    {ResearchTask(1, 1, "none", TRUE), ResearchTask(2, 9, "none", FALSE)},
    {ResearchTask(1, 1, "none", TRUE), ResearchTask(1, 2, "v1", TRUE)}}

OwnEvidence(p) ==
    {e.id : e \in {e \in AssessmentEvidence : e.competitor = p.competitor
                      /\ e.dimension = EvidenceDimension[p.dimension]}}

(* Drafts cite evidence when they say that a fact is covered, and meet the *)
(* criteria when they say that one is missing. *)
Drafts(p) ==
    {d \in {[competitor |-> p.competitor, dimension |-> p.dimension, status |-> s,
             covered |-> f, missing |-> Facts[p.dimension] \ f,
             met |-> m, unmet |-> Criteria[p.dimension] \ m, inapplicable |-> {},
             evidence |-> IF f = {} THEN {} ELSE OwnEvidence(p)]
               : s \in {"COVERED", "PARTIAL", "MISSING", "NOT_APPLICABLE"},
                 f \in {{}, {CHOOSE x \in Facts[p.dimension] : TRUE}, Facts[p.dimension]},
                 m \in {{}, Criteria[p.dimension]}} :
        DraftStatusFits(d) /\ (d.unmet # {} => d.missing = {})}

Gaps(p) ==
    {[dimension |-> p.dimension, competitors |-> cs, facts |-> Facts[p.dimension],
      impact |-> n, blocks |-> b]
        : cs \in {{}, {p.competitor}}, n \in {0, 1}, b \in BOOLEAN}

Insights(p) ==
    {[dimension |-> p.dimension, competitors |-> {p.competitor},
      evidence |-> OwnEvidence(p), confidence |-> 1]}

SeqsUpTo1(S) == {<<>>} \cup {<<x>> : x \in S}

Stages(items) ==
    [drafts   : {s \in [DOMAIN items -> UNION {Drafts(p) : p \in ToSet(items)}] :
                    \A i \in DOMAIN items : PairOf(s[i]) = items[i]},
     insights : SeqsUpTo1(Insights(items[1])),
     gaps     : SeqsUpTo1(Gaps(items[1]))]

ChooseScope ==
    /\ Begin("assessment")
    /\ \E tasks \in TaskSets, focus \in {{2}, {9}} :
          /\ ~BindingRaises(tasks)
          /\ input' = [scope |-> Sorted(ScopePairs(tasks, {1, 2}, focus)), answers |-> <<>>]

Shards == ScopeShards(input.scope)

AnswerShard ==
    /\ topic = "assessment" /\ Len(input.answers) < Len(Shards)
    /\ LET items == Shards[Len(input.answers) + 1] IN
       /\ items # <<>>
       /\ \E stage \in Stages(items) :
             /\ ValidStage(stage, items, ShardEvidence(AssessmentEvidence, items))
             /\ input' = [input EXCEPT !.answers = Append(@, stage)]
    /\ UNCHANGED topic

Answered == topic = "assessment" /\ Len(input.answers) = Len(Shards)

-----------------------------------------------------------------------------
(* The outputs of the analyst.  The name of competitor 1 is part of the    *)
(* name of competitor 2. *)

MCWithin == {<<1, 2>>}

Item(i, c, d, q, x) ==
    [id |-> i, competitor |-> c, dimension |-> d, confidence |-> q, conflicting |-> x]

(* Competitor 1 has evidence of three dimensions, one of them twice. *)
Pool == {Item(1, 1, 1, 1, FALSE), Item(2, 1, 1, 2, FALSE), Item(3, 1, 2, 1, FALSE),
         Item(4, 1, 3, 0, TRUE), Item(5, 2, 1, 1, FALSE), Item(6, 2, 2, 2, TRUE)}

Claims(es) ==
    [competitors : SUBSET {1, 2}, named : SUBSET {1, 2},
     evidence : SUBSET IdsOf(es), against : {{}}]

(* The claims are made from the evidence that is shown, the portfolio is   *)
(* checked against all of it. *)
ClaimsCase ==
    /\ Begin("claims")
    /\ \E es \in {{Item(1, 1, 1, 1, FALSE), Item(5, 2, 1, 1, FALSE)},
                   {Item(1, 1, 1, 1, FALSE), Item(3, 1, 2, 1, FALSE), Item(5, 2, 1, 1, FALSE)}},
          total \in 1..2 :
          LET shown == ToSet(SelectStageEvidence(es, 1, total)) IN
          \E first \in Claims(shown), second \in SeqsUpTo1(Claims(shown)) :
             input' = [all |-> es, shown |-> shown, claims |-> <<first>> \o second]

SelectionCase ==
    /\ Begin("selection")
    /\ \E es \in SUBSET Pool, per \in 1..3, total \in 1..4 :
          input' = [all |-> es, per |-> per, total |-> total]

ReportCase ==
    /\ Begin("report")
    /\ \E ids, marked \in SUBSET (1..3), claims \in SUBSET (1..2) :
          input' = [report |-> [ids |-> ids, marked |-> marked], claims |-> claims]

MockCase ==
    /\ Begin("mock")
    /\ \E es \in SUBSET (Pool \cup {Item(7, 3, 1, 2, FALSE)}) : es # {} /\ input' = SetToSeq(es)

-----------------------------------------------------------------------------

(* Whatever valid answers the shards of an assessment are given, the       *)
(* shards ask for every pair once and keep to the bound of a call, what is *)
(* put together is a valid answer for the whole scope, every pair with     *)
(* missing facts is named by a gap, an assessment is sufficient only when  *)
(* every applicable pair has its facts and its criteria, and a blocking    *)
(* gap that names its competitors keeps it from being so, unless so many   *)
(* critical gaps are listed that it is cut off. *)
AssessmentIsSound ==
    topic = "assessment" =>
        /\ UNION {ToSet(s) : s \in ToSet(Shards)} = ToSet(input.scope)
        /\ FoldLeft(LAMBDA n, s : n + Len(s), 0, Shards) = Len(input.scope)
        /\ \A s \in ToSet(Shards) :
              Len(s) = 1 \/ Units(s) <= (IF Len(Shards) = 1 THEN SingleUnits ELSE ShardUnits)
        /\ Answered =>
              LET stage == Assembled(input.answers, input.scope)
                  given == UNION {ToSet(a.gaps) : a \in ToSet(input.answers)}
              IN
              /\ ValidStage(stage, input.scope, AssessmentEvidence)
              /\ \A d \in ToSet(stage.drafts) : d.missing # {} =>
                    \E g \in AssessmentGaps(stage) :
                        g.dimension = d.dimension /\ d.competitor \in g.competitors
              /\ Overall(stage) = "SUFFICIENT" =>
                    \A d \in ToSet(stage.drafts) :
                       d.status = "NOT_APPLICABLE" \/ d.missing \cup d.unmet = {}
              /\ \A g \in given : Blocking(g) /\ g.competitors # {} =>
                    \/ Overall(stage) # "SUFFICIENT"
                    \/ Cardinality({h \in given : h.impact = 0 /\ ~h.blocks}) >= MaxGaps

(* A prompt never shows more evidence than its bounds, every dimension of  *)
(* a competitor has its turn before a dimension has a second one, of a     *)
(* dimension the surest is shown, and a competitor is left out only when   *)
(* those before it in the alphabet have used up the prompt. *)
SelectionIsFair ==
    topic = "selection" =>
        LET s == SelectStageEvidence(input.all, input.per, input.total)
            Shown(c) == {e \in ToSet(s) : e.competitor = c}
            OfC(c) == {e \in input.all : e.competitor = c}
        IN
        /\ IsInjective(s) /\ ToSet(s) \subseteq input.all /\ Len(s) <= input.total
        /\ \A c \in CompetitorsOf(input.all) :
              /\ Cardinality(Shown(c)) <= input.per
              /\ \A e \in Shown(c), f \in OfC(c) \ Shown(c) :
                    /\ e.dimension = f.dimension => e.confidence >= f.confidence
                    /\ f.dimension \notin DimensionsOf(Shown(c)) =>
                          Cardinality({g \in Shown(c) : g.dimension = e.dimension}) = 1
              /\ Cardinality(Shown(c)) < Smaller(input.per, Cardinality(OfC(c))) =>
                    Len(s) = input.total /\ \A e \in ToSet(s) : e.competitor <= c

(* What the mock answers instead of the LLM passes the checks of the       *)
(* stages and of the portfolio, for any evidence in which no competitor's  *)
(* name is part of another's. *)
MockIsValid ==
    topic = "mock" /\ (\A w \in Within : ~({w[1], w[2]} \subseteq CompetitorsOf(ToSet(input)))) =>
        LET es == ToSet(input)
            known == Known({}, es, {})
        IN
        /\ BriefStageValid(MockProfiles(input), es, known)
        /\ ClaimsAnswer(MockClaims(input), es, known) = MockClaims(input)
        /\ PortfolioValid(MockPortfolio(input), es, known)

(* The claims that the client keeps of an answer pass when the portfolio   *)
(* is put together, against all evidence and not only what was shown; and  *)
(* a report that refers to no claim that does not exist passes once the    *)
(* references it lacks are added.  What is shown to it is a fair choice,   *)
(* and what the mock answers in its place passes too. *)
AcceptedOutputPasses ==
    /\ SelectionIsFair /\ MockIsValid
    /\ topic = "claims" =>
          LET known == Known({1, 2}, input.shown, {})
              kept == ClaimsAnswer(input.claims, input.shown, known)
          IN  kept # <<>> =>
                PortfolioValid([profiles |-> <<[name |-> 1, evidence |-> {}]>>,
                                claims |-> kept, covered |-> {}, gapped |-> {}],
                               input.all, Known({1, 2}, input.all, {}))
    /\ topic = "report" /\ input.claims # {} /\ input.report.ids \subseteq input.claims =>
          ReportValid(Normalized(input.report, input.claims), input.claims)
=============================================================================
