-------------------------------- MODULE MissionCases --------------------------------
(***************************************************************************)
(* Small inputs of the computations about a mission.  WorkerContext: three *)
(* observations and four terms of which two are shown; a mission of        *)
(* competitor 1 with two needs, with three items of evidence of its own    *)
(* and one of competitor 2.  MissionSupervisor: a mission of competitor 1  *)
(* with two needs after its first or second round; its tasks, the gaps and *)
(* what the LLM answers vary.                                              *)
(***************************************************************************)
EXTENDS Naturals, Sequences, FiniteSets, SequencesExt, CaseInputs

WC == INSTANCE WorkerContext WITH
        RecentObservations <- 2, VisibleTerms <- 2, RelatedTerms <- 3, MaxSources <- 2,
        MaxEvidence <- 2, MaxGaps <- 1, MaxQueries <- 2,
        Redundant <- {"task_id", "metadata"},
        SearchKeys <- {"query", "results"}, ResultKeys <- {"title", "url"},
        ReadKeys <- {"source_id", "chunks"}, ChunkKeys <- {"chunk_id", "start", "text"}

LOCAL Chunk(start, text) == [chunk_id |-> "c", start |-> start, text |-> text, metadata |-> "m"]

Observations ==
    {[action |-> "READ", payload |-> [source_id |-> s, task_id |-> "t", chunks |-> cs]]
        : s \in {"s", "none"}, cs \in {<<>>, <<Chunk("0", "x")>>, <<Chunk("7", ""), Chunk("0", "y")>>}}
    \cup {[action |-> "SEARCH", payload |-> [query |-> "q", metadata |-> "m",
              results |-> <<[title |-> t, url |-> "u", score |-> "0"]>>]] : t \in {"", "t"}}
    \cup {[action |-> "FINISH", payload |-> [status |-> "0", error |-> "", task_id |-> "t"]]}

Terms == {[identity |-> "", form |-> ""]}
         \cup {[identity |-> i, form |-> f] : i \in {"a", "b"}, f \in {"lower", "upper"}}
         \cup {[identity |-> "c", form |-> "lower"]}

NoMission == [evidence |-> <<>>]

LOCAL State(terms, evidence) == [terms |-> terms, queries |-> <<>>, urls |-> <<>>, evidence |-> evidence]

ViewCase ==
    /\ Begin("view")
    /\ \E terms \in [1..4 -> Terms] :
          input' = [state |-> State(terms, {}), observations |-> <<>>]

ObservationCase ==
    /\ Begin("view")
    /\ \E observations \in UNION {[1..n -> Observations] : n \in 1..3} :
          input' = [state |-> State(<<>>, {}), observations |-> observations]

LOCAL Found(id, competitor, dimension, source) ==
    [id |-> id, competitor |-> competitor, dimension |-> dimension, source |-> source]

MissionFound == {Found("e1", 1, "feature", "s1"), Found("e2", 1, "pricing", "s2"),
                 Found("e3", 1, "feature", "s3"), Found("e4", 2, "feature", "s4")}

Mission == [id |-> "m", competitor |-> 1, needs |-> {"n1", "n2"}, tasks |-> {"t1", "t2", "t3"}]
WorkerTask == [id |-> "t1", need |-> "n1", round |-> 1]

ContextCase ==
    /\ Begin("context")
    /\ \E evidence \in SetToSeqs(MissionFound), verified \in SUBSET {"e1", "e2", "e3", "e4"},
          associations \in SUBSET {<<"s2", "t1">>, <<"s3", "t2">>, <<"s4", "t1">>},
          terms \in {<<>>, <<"c">>, <<"c", "d", "a">>, <<"c", "d", "e">>} :
          input' = [store |->
                      [needs |-> [n1 |-> [dimension |-> "feature"], n2 |-> [dimension |-> "pricing"]],
                       tasks |-> {[id |-> "t1", need |-> "n1"], [id |-> "t2", need |-> "n2"],
                                  [id |-> "t3", need |-> "n1"]},
                       runs |-> <<[task |-> "t3", terms |-> <<"a", "b">>, outcome |-> TRUE],
                                  [task |-> "t2", terms |-> <<"z">>, outcome |-> FALSE]>>,
                       sources |-> [s1 |-> 1, s2 |-> 1, s3 |-> 1, s4 |-> 2],
                       evidence |-> evidence, associations |-> associations,
                       gaps |-> <<[competitors |-> {2}, dimension |-> "feature"],
                                  [competitors |-> {1, 2}, dimension |-> "feature"]>>,
                       maxRounds |-> 3],
                    state |-> [evidence |-> verified, sources |-> <<"s1", "s2", "s3", "s4">>,
                               terms |-> terms, queries |-> <<"q1", "q2", "q3">>, version |-> 1]]

-----------------------------------------------------------------------------

(* A governed view leaves out nothing a worker needs for its next action   *)
(* (context/research_action.py, "Exact chunk text is intentionally         *)
(* retained"): of the observations both modes show, every text can still   *)
(* be quoted from the same place; and of the terms, the newest are shown,  *)
(* each once, in the order observed. *)
QuotesSurvive ==
    topic = "view" =>
        LET whole == WC!View(FALSE, input.state, input.observations, NoMission)
            governed == WC!View(TRUE, input.state, input.observations, NoMission)
            Chunks(o) == IF "chunks" \in DOMAIN o.payload THEN ToSet(o.payload.chunks) ELSE {}
            Quotable(view) ==
                {{<<c.chunk_id, c.start, c.text>> :
                     c \in {c \in Chunks(view.observations[i]) :
                              {"start", "text"} \subseteq DOMAIN c /\ c.text # ""}}
                  : i \in DOMAIN view.observations}
            LastUse(identity) ==
                CHOOSE i \in DOMAIN whole.terms :
                    /\ whole.terms[i].identity = identity
                    /\ \A j \in DOMAIN whole.terms : j > i => whole.terms[j].identity # identity
            seen == {t.identity : t \in ToSet(whole.terms)} \ {""}
            shown == [i \in DOMAIN governed.terms |-> governed.terms[i].identity]
        IN /\ Quotable(governed) = Quotable(whole)
           /\ Len(shown) = IF Cardinality(seen) < 2 THEN Cardinality(seen) ELSE 2
           /\ \A i \in DOMAIN shown :
                 /\ governed.terms[i] = whole.terms[LastUse(shown[i])]
                 /\ i > 1 => LastUse(shown[i-1]) < LastUse(shown[i])
                 /\ \A t \in seen \ ToSet(shown) : LastUse(t) < LastUse(shown[i])

(* A worker is shown its own mission: nothing of another competitor, and   *)
(* nothing of another need in the place of something of its own (the       *)
(* bounds cut the others first).  Of the terms it is the other way round:  *)
(* those of the mission that the need's runs have not found are kept.  And *)
(* what it may quote survives the governed view.                           *)
ContextIsOwn ==
    QuotesSurvive /\ (topic = "context" =>
        LET s == input.store
            context == WC!Context(s, Mission, input.state, WorkerTask)
            mine == {e \in MissionFound : e.id \in input.state.evidence /\ e.competitor = 1}
            feature == {e \in mine : e.dimension = "feature"}
            own == {x \in {"s1", "s2", "s3"} : \/ <<x, "t1">> \in s.associations
                                               \/ \E e \in feature : e.source = x}
        IN /\ ToSet(context.evidence) \subseteq mine /\ "s4" \notin ToSet(context.sources)
           /\ \/ feature \subseteq ToSet(context.evidence)
              \/ ToSet(context.evidence) \subseteq feature
           /\ Len(context.evidence) = IF Cardinality(mine) < 2 THEN Cardinality(mine) ELSE 2
           /\ own \subseteq ToSet(context.sources) \/ ToSet(context.sources) \subseteq own
           /\ Len(context.sources) = 2
           /\ \A t \in ToSet(input.state.terms) \ {"a", "b"} : t \in ToSet(context.terms)
           /\ "z" \notin ToSet(context.terms)
           /\ context.gaps = <<s.gaps[2]>> /\ context.budget.completed = 1
           /\ WC!Context(s, Mission, input.state, [WorkerTask EXCEPT !.need = "n3"]) = WC!Raised
           /\ Len(WC!Saved(WC!Saved(<<>>, context), context)) = 1)

-----------------------------------------------------------------------------
(* The supervisor. *)

MS == INSTANCE MissionSupervisor WITH Sufficient <- {"sufficient", "not_applicable"}

LOCAL Supervised == [id |-> "m", competitor |-> 1, needs |-> <<"n1", "n2">>]

LOCAL Unit(id, need, round, status) ==
    [id |-> id, need |-> need, competitor |-> 1, round |-> round, status |-> status,
     parent |-> <<>>, goal |-> "old"]

LOCAL Others == <<[Unit(<<"o">>, "n1", 2, "waiting") EXCEPT !.competitor = 2]>>
LOCAL First == <<Unit(<<"t1">>, "n1", 1, "completed"), Unit(<<"t2">>, "n2", 1, "failed")>>

LOCAL Gap(id, competitors, dimension, missing, hint) ==
    [id |-> id, competitors |-> competitors, dimension |-> dimension,
     missing |-> missing, hint |-> hint]

LOCAL Gaps == {Gap("g1", {1, 2}, "feature", TRUE, TRUE), Gap("g2", {1}, "pricing", TRUE, TRUE),
               Gap("g3", {1}, "feature", TRUE, FALSE), Gap("g4", {2}, "feature", TRUE, TRUE),
               Gap("g5", {1}, "risk", TRUE, TRUE)}

LOCAL Answers ==
    {[action |-> a, target |-> n, goal |-> g] :
        a \in {"FINISH", "CREATE_RESEARCH_UNIT"}, n \in {"", "n1", "n2", "n3"}, g \in {"", "goal"}}

SupervisionCase ==
    /\ Begin("supervision")
    /\ \E gaps \in {s \in SeqOf(Gaps, 2) : IsInjective(s)}, answer \in Answers,
          one, two \in {"sufficient", "weak"}, outcomes \in {{}, {"n1"}}, round \in 1..3,
          next \in {<<>>, <<Unit(<<"t3">>, "n1", 2, "waiting")>>, <<Unit(<<"t3">>, "n1", 2, "completed")>>},
          spent \in {<<0, 0, 2>>, <<5, 0, 2>>, <<0, 5, 2>>, <<0, 0, 6>>} :
          /\ next # <<>> => (next[1].status = "waiting") = (round = 1)
          /\ input' = [s |-> [needs |-> [n1 |-> "feature", n2 |-> "pricing"],
                              coverage |-> <<[competitor |-> 1], [competitor |-> 2]>>,
                              gaps |-> gaps, tasks |-> First \o next \o Others,
                              state |-> [coverage |-> [n1 |-> one, n2 |-> two], outcomes |-> outcomes,
                                         results |-> [i \in 1..spent[3] |-> "r"], version |-> 0],
                              decisions |-> <<>>, status |-> "active",
                              sources |-> spent[1], maxSources |-> 5,
                              actions |-> spent[2], maxActions |-> 5, maxRounds |-> 3],
                       round |-> round, answer |-> answer]

-----------------------------------------------------------------------------

(* A mission goes on exactly as long as it can and has to                  *)
(* (execution/research_agent_coordinator.py:1007): an answer that is not   *)
(* of the mission stops the run; a spent budget or needs that are all      *)
(* covered end the mission whatever the supervisor says; else it is        *)
(* finished only at the supervisor's wish and with no gap of its own to    *)
(* look into.  A mission that goes on has exactly one waiting unit for the *)
(* chosen need in the next round, which knows the new goal, and no other   *)
(* task has changed.                                                       *)
MissionGoesOn ==
    topic = "supervision" =>
        LET s == input.s
            after == MS!Supervise(s, Supervised, input.answer, input.round)
            asked == input.answer
            valid == /\ asked.target \in {"", "n1", "n2"}
                     /\ asked.action # "FINISH" => asked.target # "" /\ asked.goal # ""
            weak == {n \in {"n1", "n2"} : s.state.coverage[n] = "weak"}
            spent == \/ input.round = 3 \/ s.sources = 5 \/ s.actions = 5 \/ Len(s.state.results) = 6
            ToLookInto == {n \in weak : \E g \in ToSet(s.gaps) :
                              1 \in g.competitors /\ g.hint /\ g.dimension = s.needs[n]}
            New == ToSet(after.tasks) \ ToSet(s.tasks)
            Gone == ToSet(s.tasks) \ ToSet(after.tasks)
        IN /\ (after.status = "raised") = ~valid
           /\ valid => (after.status = "finished") =
                 (weak = {} \/ spent \/ (asked.action = "FINISH" /\ ToLookInto = {}))
           /\ after.status # "active" => after.tasks = s.tasks
           /\ after.status = "active" =>
                 /\ Cardinality(New) = 1
                 /\ \A u \in New :
                       /\ u.round = input.round + 1 /\ u.competitor = 1 /\ u.status = "waiting"
                       /\ u.need = IF asked.action = "FINISH"
                                   THEN IF "n1" \in ToLookInto THEN "n1" ELSE "n2"
                                   ELSE asked.target
                       /\ Gone = {t \in ToSet(s.tasks) : /\ t.need = u.need /\ t.competitor = 1
                                                         /\ t.round = u.round}
                       /\ Gone = {} => \E t \in ToSet(s.tasks) :
                              /\ t.id = u.parent /\ t.need = u.need /\ t.competitor = 1
                              /\ \A v \in ToSet(s.tasks) :
                                    v.need = u.need /\ v.competitor = 1 => v.round <= t.round
                       /\ \A t \in Gone : t.id = u.id
           /\ valid => Len(after.decisions) = 1
=============================================================================
