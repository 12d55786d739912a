------------------------------ MODULE MissionSupervisor ------------------------------
(***************************************************************************)
(* The lead of a mission (execution/research_mission_supervisor.py): after *)
(* a round it is asked whether to go on.  An LLM decides on what it is     *)
(* shown; the coordinator's gate overrules it both ways; the mission       *)
(* service records the decision and makes the research unit it asks for.   *)
(*                                                                         *)
(* Names and dimensions are given in their normal form.                    *)
(***************************************************************************)
EXTENDS Naturals, Sequences, FiniteSets, SequencesExt

CONSTANT Sufficient    \* SUFFICIENT_COVERAGE_STATUSES

Raised == [action |-> "raised"]

(* mission_coverage_and_gaps: the rows of the competitor, and the gaps of  *)
(* the competitor in a dimension of the mission's needs. *)
CoverageAndGaps(s, mission) ==
    LET dimensions == {s.needs[n] : n \in DOMAIN s.needs \cap ToSet(mission.needs)} IN
    [coverage |-> SelectSeq(s.coverage, LAMBDA c : c.competitor = mission.competitor),
     gaps     |-> SelectSeq(s.gaps, LAMBDA g : /\ mission.competitor \in g.competitors
                                               /\ g.dimension \in dimensions)]

(* validate_research_target: a decision to go on names a need and a goal. *)
WellFormed(decision) ==
    decision.action # "FINISH" => decision.target # "" /\ decision.goal # ""

(* LLMMissionSupervisor.decide: what the provider answered, if it is of    *)
(* this mission. *)
Decide(mission, answer) ==
    IF WellFormed(answer) /\ answer.target \in ToSet(mission.needs) \cup {""}
    THEN answer ELSE Raised

(* ResearchMissionBudgetState. *)
Budget(s, mission, round) ==
    [round |-> round, units |-> Len(s.state.results),
     maxUnits |-> LET n == Len(mission.needs) * s.maxRounds IN IF n > 1 THEN n ELSE 1]

StatusOf(state, n) == IF n \in DOMAIN state.coverage THEN state.coverage[n] ELSE "none"
Unresolved(s, mission) == SelectSeq(mission.needs, LAMBDA n : StatusOf(s.state, n) \notin Sufficient)

(* bounded_reason: nothing is left, or nothing may be spent. *)
Bounded(s, mission, round) ==
    LET budget == Budget(s, mission, round) IN
    \/ mission.needs # <<>> /\ Unresolved(s, mission) = <<>>
    \/ budget.round >= s.maxRounds \/ budget.units >= budget.maxUnits
    \/ s.sources >= s.maxSources \/ s.actions >= s.maxActions

Actionable(gap) == gap.missing /\ gap.hint

ActionableGapsFaulty(s, mission, n) == SelectSeq(s.gaps, Actionable)

(* The gaps that tell what to look for in the dimension of a need. *)
ActionableGaps(s, mission, n) ==
    SelectSeq(CoverageAndGaps(s, mission).gaps,
              LAMBDA g : n \in DOMAIN s.needs /\ g.dimension = s.needs[n] /\ Actionable(g))

(* The two overrides of _supervise_missions: a bounded mission finishes;   *)
(* one that is not is only finished when there is nothing to look for.     *)
Gate(s, mission, round, decision) ==
    LET open == SelectSeq(Unresolved(s, mission), LAMBDA n : ActionableGaps(s, mission, n) # <<>>)
    IN IF Bounded(s, mission, round) /\ decision.action # "FINISH"
       THEN [decision EXCEPT !.action = "FINISH", !.target = "", !.goal = ""]
       ELSE IF ~Bounded(s, mission, round) /\ decision.action = "FINISH" /\ open # <<>>
       THEN [action |-> IF open[1] \in s.state.outcomes THEN "REQUEST_MORE_EVIDENCE"
                        ELSE "CREATE_RESEARCH_UNIT",
             target |-> open[1], goal |-> ActionableGaps(s, mission, open[1])[1].id]
       ELSE decision

(* record_supervisor_decision, under the id of the decision. *)
Recorded(s, decision) ==
    [s EXCEPT !.decisions = Append(@, decision), !.state.version = @ + 1]

OfScope(t, mission, n) == t.need = n /\ t.competitor = mission.competitor

Reusable(t, round) == t.round = round /\ t.status = "waiting"

Latest(tasks) ==
    CHOOSE t \in ToSet(tasks) : \A u \in ToSet(tasks) : u.round <= t.round

(* materialize_research_unit: a task of that round that waits is told the  *)
(* goal; else a new one is made after the latest of the need. *)
Materialize(s, mission, decision, round) ==
    LET scope == SelectSeq(s.tasks, LAMBDA t : OfScope(t, mission, decision.target))
        waiting == SelectSeq(scope, LAMBDA t : Reusable(t, round))
        unit == [id |-> <<mission.id, decision.target, round>>, need |-> decision.target,
                 competitor |-> mission.competitor, round |-> round, status |-> "waiting",
                 parent |-> IF scope = <<>> THEN <<>> ELSE Latest(scope).id,
                 goal |-> decision.goal]
    IN IF round > s.maxRounds THEN s
       ELSE IF decision.target \notin ToSet(mission.needs) \cap DOMAIN s.needs THEN [s EXCEPT !.status = "raised"]
       ELSE IF waiting # <<>>
       THEN [s EXCEPT !.tasks = [i \in DOMAIN s.tasks |->
                IF s.tasks[i].id = waiting[1].id THEN [s.tasks[i] EXCEPT !.goal = decision.goal]
                ELSE s.tasks[i]]]
       ELSE [s EXCEPT !.tasks = Append(@, unit)]

(* _supervise_missions for one mission that is not finished and has a      *)
(* worker's result. *)
Supervise(s, mission, answer, round) ==
    LET decision == Gate(s, mission, round, Decide(mission, answer)) IN
    IF Decide(mission, answer) = Raised THEN [s EXCEPT !.status = "raised"]
    ELSE IF decision.action = "FINISH" THEN [Recorded(s, decision) EXCEPT !.status = "finished"]
    ELSE Materialize(Recorded(s, decision), mission, decision, round + 1)
=============================================================================
