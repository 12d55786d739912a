---------------------------- MODULE EventProjection ----------------------------
(***************************************************************************)
(* How the two event logs of a task come about.  The research coordinator  *)
(* appends to its own log and to it, from the saved sources and evidence,  *)
(* the transitions of the evidence feed (execution/evidence_feed.py,       *)
(* sync_evidence_events).  ResearchPipelineHarness.sync_research_events    *)
(* forwards that log, and the agent's saved actions, to the pipeline's     *)
(* log, and keeps in the pipeline's run the number of the last event it    *)
(* has forwarded (harness/pipeline.py).                                    *)
(*                                                                         *)
(* sync_research_events holds the harness's lock, but the coordinator's    *)
(* only while it adds the evidence; the worker of the harness loads the    *)
(* run without a lock and saves all of it, the cursor included.            *)
(***************************************************************************)
EXTENDS Naturals, Sequences, FiniteSets, SequencesExt

CONSTANTS
    Urls,        \* sources the agent may find
    Actions,     \* actions of the agent that may be shown
    MaxTurns     \* bound: how often agent, user and restarts have a turn

ASSUME EventAssumption ==
    MaxTurns \in Nat /\ IsFiniteSet(Urls) /\ "work" \notin Urls

VARIABLES
    \* saved
    run,       \* the PipelineRun: status, stop, researched, research, cursor
    log,       \* pipeline_events, the sequence number is the position
    research,  \* the coordinator's latest run: number and status
    source,    \* research_agent_coordinator_events
    found,     \* what is saved of every source
    acted,     \* saved actions of the agent that have an observation
    \* memory of the process
    held,      \* who is inside the coordinator's lock, between two saves
    sync,      \* sync_research_events: who runs it, where, on what it read
    worker,    \* the harness's worker: where it is and its copy of the run
    owed,      \* status of a final event its last worker has yet to append
    \* history
    turns, crashes, \* saves and events of the agent, resumes, stops, restarts
    raced      \* sync took the events of the last coordinator run for this one's

saved  == <<run, log, research, source, found, acted>>
memory == <<held, sync, worker, owed>>
bounds == <<turns, crashes>>
eventVars == <<saved, memory, bounds, raced>>

Active   == {"queued", "running", "stopping"}
Terminal == {"completed", "failed", "stopped", "interrupted"}
Syncers  == {"worker", "stream"}

NoRun   == [status |-> "none", stop |-> FALSE, researched |-> FALSE,
            research |-> 0, cursor |-> 0]
NoSync  == [by |-> "none", at |-> "idle", id |-> 0, todo |-> <<>>]
Off     == [at |-> "off", phase |-> "load", copy |-> NoRun]

Init ==
    /\ run = NoRun /\ log = <<>>
    /\ research = [id |-> 0, status |-> "none"] /\ source = <<>>
    /\ found = [u \in Urls |-> "unknown"] /\ acted = {}
    /\ held = "none" /\ sync = NoSync /\ worker = Off /\ owed = "none"
    /\ turns = 0 /\ crashes = 0 /\ raced = FALSE

LockFree == sync.by = "none"
At(point) == worker' = [Off EXCEPT !.at = point]
Turn == turns < MaxTurns /\ turns' = turns + 1

-----------------------------------------------------------------------------
(* The coordinator's log and the evidence feed. *)

Work(n)           == [of |-> n, about |-> "work", status |-> "none"]
Evidence(n, u, s) == [of |-> n, about |-> u, status |-> s]

(* build_evidence_feed_transitions: every status a source has reached.     *)
(* Discovered and collection_failed come about as these two do.            *)
Reached == [unknown |-> {}, source |-> {"collected"}, verified |-> {"collected", "verified"}]

IsEvidence(e) == e.about # "work"
Emitted(u, s) == \E i \in DOMAIN source : source[i].about = u /\ source[i].status = s

(* The sources of which a status is to be told, in the order of the feed.  *)
Feed(s) == SetToSeq({u \in Urls : s \in Reached[found[u]] /\ ~Emitted(u, s)})

(* sync_evidence_events appends what the log does not hold yet.  (The feed *)
(* goes by source and then by status.)                                     *)
New(s) == [i \in 1..Len(Feed(s)) |-> Evidence(research.id, Feed(s)[i], s)]
SyncedEvidence == source \o New("collected") \o New("verified")

(* The agent's saves: a source is fetched and a quote of it verified, and  *)
(* evidence is taken back when its task fails.                             *)
Progress == [unknown |-> {"source"}, source |-> {"verified"}, verified |-> {"source"}]

Working == research.status = "live" /\ held = "none"

AgentSaves ==
    /\ Working /\ Turn
    /\ \E u \in Urls : \E f \in Progress[found[u]] : found' = [found EXCEPT ![u] = f]
    /\ UNCHANGED <<run, log, research, source, acted, memory, crashes, raced>>

AgentActs ==
    /\ Working /\ Turn
    /\ \E a \in Actions \ acted : acted' = acted \cup {a}
    /\ UNCHANGED <<run, log, research, source, found, memory, crashes, raced>>

CoordinatorWorks ==
    /\ Working /\ Turn
    /\ source' = Append(source, Work(research.id))
    /\ UNCHANGED <<run, log, research, found, acted, memory, crashes, raced>>

(* After a task the coordinator's worker adds the evidence itself. *)
CoordinatorSyncs ==
    /\ Working
    /\ source' = SyncedEvidence /\ source' # source
    /\ UNCHANGED <<run, log, research, found, acted, memory, bounds, raced>>

(* _finish saves the run and then appends its last event, under the lock. *)
CoordinatorFinishes ==
    /\ Working
    /\ \E outcome \in {"completed", "failed"} \cup (IF run.stop THEN {"stopped"} ELSE {}) :
          research' = [research EXCEPT !.status = outcome]
    /\ held' = "finish"
    /\ UNCHANGED <<run, log, source, found, acted, sync, worker, owed, bounds, raced>>

CoordinatorTells ==
    /\ held = "finish"
    /\ source' = Append(source, Work(research.id))
    /\ held' = "none"
    /\ UNCHANGED <<run, log, research, found, acted, sync, worker, owed, bounds, raced>>

Coordinator ==
    \/ AgentSaves \/ AgentActs \/ CoordinatorWorks \/ CoordinatorSyncs
    \/ CoordinatorFinishes \/ CoordinatorTells

-----------------------------------------------------------------------------
(* sync_research_events, under the harness's lock. *)

Own(status)       == [status |-> status, kind |-> "own", ref |-> <<>>]
Forwarded(n, i, e) == [status |-> run.status, kind |-> IF IsEvidence(e) THEN "evidence"
                                                       ELSE "research", ref |-> <<n, i>>]
Shown(a)          == [status |-> run.status, kind |-> "action", ref |-> <<a>>]

\* Fault: the cursor of the last coordinator run is kept.
IdentifiedFaulty == [run EXCEPT !.research = research.id]

(* A coordinator run it has not seen starts the cursor anew. *)
Identified ==
    IF research.id # 0 /\ research.id # run.research
    THEN [run EXCEPT !.research = research.id, !.cursor = 0] ELSE run

(* The evidence is brought up to date under the coordinator's lock. *)
SyncBegins(p) ==
    /\ LockFree /\ run.status # "none" /\ held = "none"
    /\ source' = IF research.id = 0 THEN source ELSE SyncedEvidence
    /\ run' = Identified
    /\ sync' = [by |-> p, at |-> "read", id |-> research.id, todo |-> <<>>]
    /\ UNCHANGED <<log, research, found, acted, held, worker, owed, bounds, raced>>

SyncRead ==
    /\ sync.at = "read"
    /\ sync' = [sync EXCEPT !.at = "forward", !.todo =
            [i \in 1..(Len(source) - run.cursor) |->
                [at |-> run.cursor + i, event |-> source[run.cursor + i]]]]
    /\ raced' = (raced \/ \E i \in (run.cursor + 1)..Len(source) : source[i].of # sync.id)
    /\ UNCHANGED <<saved, held, worker, owed, bounds>>

CursorSaved ==
    LET at == Head(sync.todo).at IN
    [run EXCEPT !.cursor = IF @ > at THEN @ ELSE at, !.research = sync.id]

(* For each event the cursor is saved and then the event appended; Crash    *)
(* may fall in between.                                                     *)
SyncForwards ==
    /\ sync.at = "forward" /\ sync.todo # <<>>
    /\ run' = CursorSaved
    /\ log' = Append(log, Forwarded(sync.id, Head(sync.todo).at, Head(sync.todo).event))
    /\ sync' = [sync EXCEPT !.todo = Tail(@)]
    /\ UNCHANGED <<research, source, found, acted, held, worker, owed, bounds, raced>>

IsShown(a) == \E i \in DOMAIN log : log[i].kind = "action" /\ log[i].ref = <<a>>

(* While the run is active its new actions are shown, each once. *)
NewActions == IF run.status \in Active THEN {a \in acted : ~IsShown(a)} ELSE {}

SyncShows ==
    /\ sync.at = "forward" /\ sync.todo = <<>>
    /\ \E a \in NewActions : log' = Append(log, Shown(a))
    /\ UNCHANGED <<run, research, source, found, acted, memory, bounds, raced>>

(* Where _run_research goes when the coordinator has ended. *)
AfterResearch ==
    IF research.status \in {"completed", "stopped"} /\ run.stop THEN "stop"
    ELSE IF research.status = "completed" THEN "done" ELSE "fail"

SyncEnds ==
    /\ sync.at = "forward" /\ sync.todo = <<>> /\ NewActions = {}
    /\ sync' = NoSync
    /\ IF sync.by = "stream" THEN UNCHANGED worker
       ELSE At(IF worker.at = "poll" THEN "look" ELSE AfterResearch)
    /\ UNCHANGED <<saved, held, owed, bounds, raced>>

SyncStep == SyncRead \/ SyncForwards \/ SyncShows \/ SyncEnds

-----------------------------------------------------------------------------
(* The harness's worker: it loads the run without the lock, saves it under *)
(* the lock and appends an event.                                          *)

\* Fault: the copy is saved as it is.
SavedFaulty(new) == new

(* _save_run: a stop request the copy does not know of is kept. *)
Saved(new) ==
    IF run.stop /\ ~new.stop
    THEN [new EXCEPT !.stop = TRUE,
                     !.status = IF @ \in {"queued", "running"} THEN "stopping" ELSE @]
    ELSE new

Loads ==
    /\ worker.at \in {"start", "done", "finish", "fail", "stop"}
    /\ worker.phase = "load" /\ owed = "none"
    /\ worker' = [worker EXCEPT !.phase = "save", !.copy = run,
                     !.at = IF @ = "fail" /\ run.stop THEN "stop" ELSE @]
    /\ UNCHANGED <<saved, held, sync, owed, bounds, raced>>

(* _execute and _complete_stage: the run goes on.  The start stands for    *)
(* the begin of a stage too, which loads, saves and appends in its way.    *)
Updated(copy, at) ==
    CASE at = "start" -> [copy EXCEPT !.status = "running"]
      [] at = "done"  -> [copy EXCEPT !.researched = TRUE]

Saves ==
    /\ worker.phase = "save" /\ worker.at \in {"start", "done"} /\ LockFree
    /\ run' = Saved(Updated(worker.copy, worker.at))
    /\ worker' = [worker EXCEPT !.phase = "append", !.copy = run']
    /\ UNCHANGED <<log, research, source, found, acted, held, sync, owed, bounds, raced>>

(* The end of the worker: the run is saved, its last event is owed. *)
Ending == [finish |-> "completed", fail |-> "failed", stop |-> "stopped"]

SavesEnd ==
    /\ worker.phase = "save" /\ worker.at \in DOMAIN Ending /\ LockFree
    /\ run' = Saved([worker.copy EXCEPT !.status = Ending[worker.at],
                                        !.stop = @ \/ worker.at = "stop"])
    /\ owed' = Ending[worker.at]
    /\ worker' = Off
    /\ UNCHANGED <<log, research, source, found, acted, held, sync, bounds, raced>>

(* _finish_stopped tells a stop once in the life of a run. *)
StopIsTold == \E i \in DOMAIN log : log[i].kind = "own" /\ log[i].status = "stopped"

AppendsEnd ==
    /\ owed # "none" /\ LockFree
    /\ log' = IF owed = "stopped" /\ StopIsTold THEN log ELSE Append(log, Own(owed))
    /\ owed' = "none"
    /\ UNCHANGED <<run, research, source, found, acted, held, sync, worker, bounds, raced>>

(* After an event the worker looks for a stop and goes on. *)
After(at) ==
    CASE at = "start" -> IF run.researched THEN {"finish", "fail"} ELSE {"submit"}
      [] at = "done"  -> {"finish", "fail"}

Appends ==
    /\ worker.phase = "append" /\ LockFree
    /\ log' = Append(log, Own(worker.copy.status))
    /\ \E point \in IF run.stop THEN {"stop"} ELSE After(worker.at) :
          At(point)
    /\ UNCHANGED <<run, research, source, found, acted, held, sync, owed, bounds, raced>>

(* _run_research: a coordinator run that was lost with the process is      *)
(* closed, and one that has not completed is submitted again, or refused.  *)
Submits ==
    /\ worker.at = "submit" /\ held = "none"
    /\ IF research.status = "completed"
       THEN At("poll") /\ UNCHANGED <<research, source, held>>
       ELSE \/ At("fail") /\ UNCHANGED <<research, source, held>>
            \/ /\ source' = IF research.status = "lost" THEN Append(source, Work(research.id))
                             ELSE source
               /\ research' = [id |-> research.id + 1, status |-> "live"]
               /\ held' = "submit" /\ At("clear")
    /\ UNCHANGED <<run, log, found, acted, sync, owed, bounds, raced>>

(* submit clears the log after it has saved the new run. *)
Clears ==
    /\ worker.at = "clear"
    /\ source' = <<Work(research.id)>>
    /\ held' = "none"
    /\ At("poll")
    /\ UNCHANGED <<run, log, research, found, acted, sync, owed, bounds, raced>>

(* Once the coordinator has ended its log is projected a last time. *)
Looks ==
    /\ worker.at = "look"
    /\ At(IF research.status = "live" THEN "poll" ELSE "last")
    /\ UNCHANGED <<saved, held, sync, owed, bounds, raced>>

Worker ==
    \/ Loads \/ Saves \/ SavesEnd \/ AppendsEnd \/ Appends
    \/ Submits \/ Clears \/ Looks
    \/ worker.at \in {"poll", "last"} /\ SyncBegins("worker")

-----------------------------------------------------------------------------
(* The API, each method under the lock. *)

Queued == [run EXCEPT !.status = "queued", !.stop = FALSE]

Submit ==
    /\ LockFree /\ run.status \notin Active \cup {"completed"}
    /\ IF run.status = "none" THEN UNCHANGED turns ELSE Turn
    /\ run' = Queued
    /\ log' = Append(log, Own("queued"))
    /\ worker' = [Off EXCEPT !.at = "start"]
    /\ UNCHANGED <<research, source, found, acted, held, sync, owed, crashes, raced>>

NotStarted == worker.at = "start" /\ worker.phase = "load"

RequestStop ==
    /\ LockFree /\ run.status \in Active /\ Turn
    /\ run' = [run EXCEPT !.stop = TRUE, !.status = IF NotStarted \/ worker.at = "off"
                                                   THEN "stopped" ELSE "stopping"]
    /\ worker' = IF NotStarted THEN Off ELSE worker
    /\ log' = Append(log, Own("stopping"))
              \o (IF run'.status = "stopped" /\ ~StopIsTold THEN <<Own("stopped")>> ELSE <<>>)
    /\ UNCHANGED <<research, source, found, acted, held, sync, owed, crashes, raced>>

(* reconcile_interrupted closes a run whose worker is gone. *)
Reconcile ==
    /\ LockFree /\ run.status \in Active /\ worker.at = "off"
    /\ LET end == IF run.stop THEN "stopped" ELSE "interrupted" IN
         /\ run' = [run EXCEPT !.status = end]
         /\ log' = IF end = "stopped" /\ StopIsTold THEN log ELSE Append(log, Own(end))
    /\ UNCHANGED <<research, source, found, acted, memory, bounds, raced>>

Crash ==
    /\ Turn /\ crashes' = crashes + 1
    /\ research' = [research EXCEPT !.status = IF @ = "live" THEN "lost" ELSE @]
    /\ run' \in {run} \cup (IF sync.todo # <<>> THEN {CursorSaved} ELSE {})
    /\ held' = "none" /\ sync' = NoSync /\ worker' = Off /\ owed' = "none"
    /\ UNCHANGED <<log, source, found, acted, raced>>

Next ==
    \/ Coordinator \/ Worker \/ SyncStep
    \/ SyncBegins("stream")
    \/ Submit \/ RequestStop \/ Reconcile \/ Crash

vars == eventVars
Spec == Init /\ [][Next]_vars

-----------------------------------------------------------------------------
(* Who follows the run by its status and its log sees a PipelineLog. *)
Kind(e) == IF e.kind \in {"own", "evidence"} THEN e.kind ELSE "other"

Followed == INSTANCE PipelineLog WITH
    status <- run.status,
    stop   <- run.stop,
    log    <- [i \in DOMAIN log |-> [status |-> log[i].status, kind |-> Kind(log[i])]],
    thread <- IF worker.at = "off" THEN "off" ELSE IF NotStarted THEN "queued" ELSE "running"

(* Every save and every event of the harness, its projection and its API   *)
(* is a step the readers of the log are promised, or none for them: an     *)
(* event carries the status of a save before it, and an end is told once.  *)
ImplementsLog == Followed!LogSpec

TypeOK ==
    /\ Followed!LogTypeOK
    /\ run.cursor \in Nat /\ run.research \in 0..research.id
    /\ research.status \in {"none", "live", "lost", "completed", "failed", "stopped"}
    /\ held \in {"none", "submit", "finish"}
    /\ sync.by \in Syncers \cup {"none"}
    /\ acted \subseteq Actions

ForwardedRefs == {log[i].ref : i \in {j \in DOMAIN log : log[j].kind \in {"research", "evidence"}}}
Missing(k) == {i \in 1..k : i <= Len(source) /\ <<research.id, i>> \notin ForwardedRefs}

(* However saves of stale cursors, projections by two threads and restarts *)
(* meet, the events below the cursor have been forwarded but for one per   *)
(* restart (sync_research_events saves the cursor first), unless a         *)
(* projection ran into the submission of a coordinator run.                *)
NothingSkipped ==
    LockFree /\ ~raced /\ run.research = research.id
        => Cardinality(Missing(run.cursor)) <= crashes

(* When the research stage is closed the pipeline's log tells all of the   *)
(* coordinator's run, its last event included: _run_research projects once *)
(* more after the end, and that waits for the coordinator's lock.          *)
ResearchIsTold ==
    worker.at = "done" /\ LockFree /\ ~raced
        => Cardinality({i \in Missing(Len(source)) : ~IsEvidence(source[i])}) <= crashes

(* An action of the agent is shown once, whoever projects it and whatever  *)
(* restarts and resumes lie in between.                                    *)
ActionsShownOnce ==
    \A i, j \in DOMAIN log :
        log[i].kind = "action" /\ log[j].kind = "action" /\ log[i].ref = log[j].ref => i = j

(* A transition of the evidence is once in the coordinator's log. *)
EvidenceToldOnce ==
    \A i, j \in DOMAIN source : IsEvidence(source[i]) /\ source[i] = source[j] => i = j

(* What happened in the research is told, all of it, and once. *)
EventsAreTold ==
    TypeOK /\ NothingSkipped /\ ResearchIsTold /\ ActionsShownOnce /\ EvidenceToldOnce
=============================================================================
