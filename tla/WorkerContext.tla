------------------------------- MODULE WorkerContext -------------------------------
(***************************************************************************)
(* What a research worker is shown: the context its mission builds for it  *)
(* (execution/research_mission_context.py) and the view of its own state   *)
(* that goes into every request for the next action                        *)
(* (context/research_action.py), whole or governed, that is, compacted.    *)
(*                                                                         *)
(* A payload is a function of its keys; "" and "none" are the values that  *)
(* compaction drops, "0" is the number 0, which it keeps.                  *)
(***************************************************************************)
EXTENDS Naturals, Sequences, FiniteSets, SequencesExt, Functions

CONSTANTS
    RecentObservations, VisibleTerms,    \* 4 and 24
    RelatedTerms, MaxSources, MaxEvidence, MaxGaps, MaxQueries,  \* 20, 8, 12, 6, 5
    Redundant,                           \* _REDUNDANT_PAYLOAD_KEYS
    SearchKeys, ResultKeys, ReadKeys, ChunkKeys

Latest(s, n) == SubSeq(s, IF Len(s) > n THEN Len(s) - n + 1 ELSE 1, Len(s))
FirstOf(s, n) == SubSeq(s, 1, IF Len(s) > n THEN n ELSE Len(s))

(* _unique: by the first occurrence. *)
Unique(s) ==
    FoldLeft(LAMBDA seen, x : IF x \in ToSet(seen) THEN seen ELSE Append(seen, x), <<>>, s)

-----------------------------------------------------------------------------
(* The view of a request. *)

(* _compact_history_summary. *)
History(values) == [count |-> Len(values), recent |-> Latest(values, 3)]

(* _compact_observed_terms: from the newest, each term once whatever its   *)
(* case, up to the limit; shown in the order they were observed. *)
ObservedTerms(terms) ==
    LET Newer(t, kept) ==
            IF \/ t.identity = "" \/ Len(kept) >= VisibleTerms
               \/ \E k \in ToSet(kept) : k.identity = t.identity
            THEN kept ELSE <<t>> \o kept
    IN FoldRight(Newer, terms, <<>>)

Lists == {"results", "chunks"}
Empty(value) == value \in {"", "none"}
DropEmpty(item) == Restrict(item, {k \in DOMAIN item : ~Empty(item[k])})

(* _select_keys for the items of a list, _strip_redundant for other actions. *)
Compact(action, item) ==
    DropEmpty(Restrict(item,
        DOMAIN item \cap CASE action = "SEARCH" -> ResultKeys
                           [] action = "READ" -> ChunkKeys
                           [] OTHER -> DOMAIN item \ Redundant))

CompactPayload(action, payload) ==
    LET keys == DOMAIN payload \cap CASE action = "SEARCH" -> SearchKeys
                                      [] action = "READ" -> ReadKeys
                                      [] OTHER -> DOMAIN payload \ Redundant
        Items(k) == SelectSeq([i \in DOMAIN payload[k] |-> Compact(action, payload[k][i])],
                              LAMBDA item : DOMAIN item # {})
        full == {k \in keys : IF k \in Lists THEN Items(k) # <<>> ELSE ~Empty(payload[k])}
    IN [k \in full |-> IF k \in Lists THEN Items(k) ELSE payload[k]]

(* ResearchActionContextViewBuilder.build.  The mission's context, if there *)
(* is one, is shown as it is. *)
View(governed, state, observations, mission) ==
    LET visible == Latest(observations, RecentObservations) IN
    [terms        |-> IF governed THEN ObservedTerms(state.terms) ELSE state.terms,
     queries      |-> History(state.queries),
     urls         |-> History(state.urls),
     observations |->
        [i \in DOMAIN visible |->
            [action |-> visible[i].action,
             payload |-> IF governed THEN CompactPayload(visible[i].action, visible[i].payload)
                         ELSE visible[i].payload]],
     evidence     |-> state.evidence \cup {e.id : e \in ToSet(mission.evidence)}]

-----------------------------------------------------------------------------
(* The context of a worker: from the store s of the task, the mission, its *)
(* state and the research task at hand. *)

NeedOf(s, task) == s.needs[task.need]

(* The evidence in the order it was stored. *)
MissionEvidenceFaulty(s, mission, state, task) ==
    SelectSeq(s.evidence, LAMBDA e : e.id \in state.evidence /\ e.competitor = mission.competitor)

(* The evidence of the mission, that of the need's dimension first. *)
MissionEvidence(s, mission, state, task) ==
    LET Mine(e) == e.id \in state.evidence /\ e.competitor = mission.competitor
        Same(e) == e.dimension = NeedOf(s, task).dimension
        mine == SelectSeq(s.evidence, Mine)
    IN SelectSeq(mine, Same) \o SelectSeq(mine, LAMBDA e : ~Same(e))

NeedTasks(s, mission, task) ==
    {t \in s.tasks : t.id \in mission.tasks /\ t.need = task.need}

(* The sources that belong to the need, then the others of the mission. *)
MissionSources(s, mission, state, task) ==
    LET associated == {a[1] : a \in {a \in s.associations :
                          \E t \in NeedTasks(s, mission, task) : t.id = a[2]}}
        cited == {e.source : e \in {e \in ToSet(MissionEvidence(s, mission, state, task)) :
                     e.dimension = NeedOf(s, task).dimension}}
        ordered == Unique(SelectSeq(state.sources, LAMBDA x : x \in associated \cup cited)
                          \o state.sources)
    IN SelectSeq(ordered, LAMBDA x : x \in DOMAIN s.sources /\ s.sources[x] = mission.competitor)

(* The terms of the need's own runs, then those of the mission: the last   *)
(* of them are kept. *)
MissionTerms(s, mission, state, task) ==
    LET own == FlattenSeq([i \in DOMAIN s.runs |->
                  IF \E t \in NeedTasks(s, mission, task) : t.id = s.runs[i].task
                  THEN s.runs[i].terms ELSE <<>>])
    IN Latest(Unique(own \o state.terms), RelatedTerms)

MissionGaps(s, mission, task) ==
    FirstOf(SelectSeq(s.gaps, LAMBDA g : /\ mission.competitor \in g.competitors
                                         /\ g.dimension = NeedOf(s, task).dimension), MaxGaps)

BudgetState(s, mission, task) ==
    [round |-> task.round, maxRounds |-> s.maxRounds,
     completed |-> Cardinality({r.task : r \in {r \in ToSet(s.runs) :
                                   r.task \in mission.tasks /\ r.outcome}}),
     units |-> LET n == Cardinality(mission.needs) * s.maxRounds IN IF n > 1 THEN n ELSE 1]

Raised == <<>>

(* build: for a need that is one of the mission's. *)
Context(s, mission, state, task) ==
    IF task.need \notin DOMAIN s.needs \cap mission.needs THEN Raised
    ELSE [id       |-> <<mission.id, task.id, state.version>>,
          need     |-> task.need,
          terms    |-> MissionTerms(s, mission, state, task),
          sources  |-> FirstOf(MissionSources(s, mission, state, task), MaxSources),
          evidence |-> FirstOf(MissionEvidence(s, mission, state, task), MaxEvidence),
          queries  |-> Latest(state.queries, MaxQueries),
          gaps     |-> MissionGaps(s, mission, task),
          budget   |-> BudgetState(s, mission, task)]

(* research_worker_contexts: a context takes the place of the one before it *)
(* with its id. *)
Saved(contexts, context) ==
    Append(SelectSeq(contexts, LAMBDA c : c.id # context.id), context)
=============================================================================
