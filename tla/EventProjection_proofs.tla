------------------------ MODULE EventProjection_proofs ------------------------
(***************************************************************************)
(* Theorems about EventProjection, for any sources, actions, streams,      *)
(* resumes and restarts: what happened in the research is told, all of it  *)
(* and once, and a reader of the log sees a PipelineLog.                   *)
(***************************************************************************)
EXTENDS EventProjection, FiniteSetTheorems, TLAPS

Statuses == Active \cup Terminal
Runs == [status : Statuses \cup {"none"}, stop : BOOLEAN, researched : BOOLEAN,
         research : Nat, cursor : Nat]
Researches == [id : Nat, status : {"none", "live", "lost", "completed", "failed", "stopped"}]
Events == [of : Nat, about : Urls \cup {"work"}, status : {"none", "collected", "verified"}]
Refs == {<<>>} \cup (Nat \X Nat) \cup {<<a>> : a \in Actions}
Entries == [status : Statuses, kind : {"own", "evidence", "research", "action"}, ref : Refs]
Ends == {"finish", "fail", "stop"}
Points == {"off", "start", "done", "submit", "clear", "poll", "look", "last"} \cup Ends

(* What is saved, and what is in memory, has its type. *)
SavedTypes ==
    /\ run \in Runs /\ log \in Seq(Entries)
    /\ research \in Researches /\ source \in Seq(Events)
    /\ found \in [Urls -> {"unknown", "source", "verified"}] /\ acted \subseteq Actions
    /\ crashes \in Nat

MemoryTypes ==
    /\ held \in {"none", "submit", "finish"}
    /\ sync \in [by : Syncers \cup {"none"}, at : {"idle", "read", "forward"}, id : Nat,
                 todo : Seq([at : Nat, event : Events])]
    /\ worker \in [at : Points, phase : {"load", "save", "append"}, copy : Runs]
    /\ owed \in {"none", "completed", "failed", "stopped"}

(* While a worker lives the run is active, its status says whether a stop  *)
(* was asked for, and so does that of the worker's copy, which only a stop *)
(* can have made old.                                                      *)
IsMarked(r) == r.status \in {"running", "stopping"} /\ (r.stop <=> r.status = "stopping")

ThreadInv ==
    /\ worker.at # "off" =>
          IF worker.at = "start" /\ worker.phase = "load"
          THEN run.status = "queued" /\ ~run.stop
          ELSE IF worker.at = "start" /\ worker.phase = "save"
          THEN run.status \in {"queued", "stopping"} /\ (run.stop <=> run.status = "stopping")
          ELSE IsMarked(run)
    /\ worker.phase # "load" =>
          /\ worker.at \in {"start", "done"} \cup Ends
          /\ worker.copy.stop => run.stop
          /\ IF worker.at = "start" /\ worker.phase = "save"
             THEN worker.copy.status = "queued" /\ ~worker.copy.stop
             ELSE IsMarked(worker.copy)
    /\ worker.phase = "append" => worker.at \in {"start", "done"}
    /\ worker.at = "stop" => run.stop
    /\ sync.by = "none" <=> sync.at = "idle"
    /\ sync.at # "forward" => sync.todo = <<>>
    /\ sync.by # "none" => run.status # "none"
    /\ sync.by = "worker" => worker.at \in {"poll", "last"}
    /\ worker.at = "clear" <=> held = "submit"
    /\ held = "finish" => research.status \in {"completed", "failed", "stopped"}
    /\ research.status # "none" => research.id # 0

(* The references that are in the log. *)
Refd(n, i) == \E j \in DOMAIN log : log[j].kind \in {"research", "evidence"}
                                      /\ log[j].ref = <<n, i>>

(* A run, saved or in the worker's hands, whose cursor is one of the       *)
(* latest coordinator run: all it has passed is forwarded but for one      *)
(* event per restart.                                                      *)
CursorIsSound(r) ==
    /\ r.research <= research.id
    /\ r.research = research.id =>
          /\ r.cursor <= Len(source)
          /\ Cardinality(Missing(r.cursor)) <= crashes

CursorInv ==
    /\ CursorIsSound(run) /\ CursorIsSound(worker.copy)
    /\ research.id = 0 => source = <<>>
    /\ worker.at = "clear" => run.research < research.id /\ sync.id < research.id
    /\ sync.id <= research.id
    /\ sync.by # "none" => run.research = sync.id
    /\ sync.by = "worker" => sync.id = research.id
    /\ \A j \in DOMAIN sync.todo : sync.todo[j].at = run.cursor + j
    /\ sync.by # "none" /\ sync.id = research.id =>
          run.cursor + Len(sync.todo) <= Len(source)

(* After the end of the research the worker projects the whole log. *)
Untold == {i \in Missing(Len(source)) : ~IsEvidence(source[i])}

EndInv ==
    /\ worker.at \in {"last", "done"} =>
          research.status # "live" /\ (sync.by = "worker" \/ worker.at = "done" => held # "finish")
    /\ worker.at = "last" /\ sync.by = "worker" /\ sync.at = "forward"
          => run.cursor + Len(sync.todo) = Len(source)
    /\ worker.at = "done" => Cardinality(Untold) <= crashes

(* A status of a source is told once. *)
OnceInv ==
    /\ ActionsShownOnce
    /\ \A i, j \in DOMAIN source :
          IsEvidence(source[i]) /\ source[i].about = source[j].about
            /\ source[i].status = source[j].status => i = j

EventInv == SavedTypes /\ MemoryTypes /\ ThreadInv /\ CursorInv /\ EndInv /\ OnceInv

-----------------------------------------------------------------------------
(* The evidence feed. *)

(* The feed of a status lists the sources that are still to be told, each  *)
(* once.                                                                   *)
LEMMA FeedLists ==
    ASSUME EventAssumption, NEW s
    PROVE  LET S == {u \in Urls : s \in Reached[found[u]] /\ ~Emitted(u, s)} IN
           /\ Len(Feed(s)) \in Nat /\ Feed(s) \in [1..Len(Feed(s)) -> S]
           /\ \A i, j \in 1..Len(Feed(s)) : Feed(s)[i] = Feed(s)[j] => i = j
<1> DEFINE S == {u \in Urls : s \in Reached[found[u]] /\ ~Emitted(u, s)}
<1>1. IsFiniteSet(S)
  BY FS_Subset DEF EventAssumption
<1>2. Cardinality(S) \in Nat /\ ExistsBijection(1..Cardinality(S), S)
  BY <1>1, FS_CardinalityType
<1>3. \E f \in [1..Cardinality(S) -> S] : IsInjective(f)
  BY <1>2 DEF ExistsBijection, Bijection, Injection
<1>4. SetToSeq(S) \in [1..Cardinality(S) -> S] /\ IsInjective(SetToSeq(S))
  BY <1>3 DEF SetToSeq
<1>5. Feed(s) = SetToSeq(S)
  BY DEF Feed
<1> HIDE DEF S
<1>6. Len(Feed(s)) = Cardinality(S)
  BY <1>2, <1>4, <1>5
<1> QED BY <1>2, <1>4, <1>5, <1>6 DEF IsInjective, S

(* What is appended to the coordinator's log: evidence of the latest run,  *)
(* behind what it holds, and each status of a source once.                 *)
LEMMA EvidenceIsAppended ==
    ASSUME EventAssumption, SavedTypes
    PROVE  /\ SyncedEvidence \in Seq(Events) /\ Len(SyncedEvidence) >= Len(source)
           /\ \A i \in 1..Len(source) : SyncedEvidence[i] = source[i]
           /\ \A i \in (Len(source) + 1)..Len(SyncedEvidence) :
                 /\ IsEvidence(SyncedEvidence[i])
                 /\ ~Emitted(SyncedEvidence[i].about, SyncedEvidence[i].status)
           /\ \A i, j \in (Len(source) + 1)..Len(SyncedEvidence) :
                 /\ SyncedEvidence[i].about = SyncedEvidence[j].about
                 /\ SyncedEvidence[i].status = SyncedEvidence[j].status
                 => i = j
<1> DEFINE c == New("collected")
           v == New("verified")
           m == Len(source)
<1>1. ASSUME NEW s \in {"collected", "verified"}
      PROVE  /\ New(s) \in Seq(Events) /\ Len(New(s)) \in Nat
             /\ \A i \in 1..Len(New(s)) : /\ New(s)[i].about \in Urls /\ New(s)[i].status = s
                                          /\ ~Emitted(New(s)[i].about, s)
             /\ \A i, j \in 1..Len(New(s)) : New(s)[i].about = New(s)[j].about => i = j
  <2> DEFINE n == Len(Feed(s))
  <2>1. /\ n \in Nat /\ \A i \in 1..n : Feed(s)[i] \in Urls /\ ~Emitted(Feed(s)[i], s)
        /\ \A i, j \in 1..n : Feed(s)[i] = Feed(s)[j] => i = j
    BY FeedLists
  <2>2. research.id \in Nat
    BY DEF SavedTypes, Researches
  <2> HIDE DEF n
  <2>3. New(s) = [i \in 1..n |-> Evidence(research.id, Feed(s)[i], s)]
    BY DEF New, n
  <2>4. \A i \in 1..n : /\ Evidence(research.id, Feed(s)[i], s) \in Events
                        /\ Evidence(research.id, Feed(s)[i], s).about = Feed(s)[i]
                        /\ Evidence(research.id, Feed(s)[i], s).status = s
    BY <2>1, <2>2 DEF Evidence, Events
  <2>5. New(s) \in Seq(Events) /\ Len(New(s)) = n
    BY <2>1, <2>3, <2>4
  <2> QED BY <2>1, <2>3, <2>4, <2>5
<1>2. /\ source \in Seq(Events) /\ m \in Nat
      /\ c \in Seq(Events) /\ v \in Seq(Events) /\ Len(c) \in Nat /\ Len(v) \in Nat
  BY <1>1 DEF SavedTypes
<1>3. SyncedEvidence = (source \o c) \o v
  BY DEF SyncedEvidence
<1> HIDE DEF c, v, m
<1>4. /\ SyncedEvidence \in Seq(Events) /\ Len(SyncedEvidence) = m + Len(c) + Len(v)
      /\ \A i \in 1..(m + Len(c) + Len(v)) : SyncedEvidence[i] =
            IF i <= m THEN source[i]
            ELSE IF i <= m + Len(c) THEN c[i - m] ELSE v[i - (m + Len(c))]
  BY <1>2, <1>3 DEF m
<1>5. ASSUME NEW i \in (m + 1)..(m + Len(c) + Len(v))
      PROVE  /\ IsEvidence(SyncedEvidence[i])
             /\ ~Emitted(SyncedEvidence[i].about, SyncedEvidence[i].status)
             /\ SyncedEvidence[i].status = IF i <= m + Len(c) THEN "collected" ELSE "verified"
  <2>1. CASE i <= m + Len(c)
    <3>1. SyncedEvidence[i] = c[i - m] /\ i - m \in 1..Len(c)
      BY <1>2, <1>4, <2>1
    <3> QED BY <1>1, <2>1, <3>1 DEF c, IsEvidence, EventAssumption
  <2>2. CASE ~(i <= m + Len(c))
    <3>1. /\ SyncedEvidence[i] = v[i - (m + Len(c))]
          /\ i - (m + Len(c)) \in 1..Len(v)
      BY <1>2, <1>4, <2>2
    <3> QED BY <1>1, <2>2, <3>1 DEF v, IsEvidence, EventAssumption
  <2> QED BY <2>1, <2>2
<1>6. ASSUME NEW i \in (m + 1)..(m + Len(c) + Len(v)), NEW j \in (m + 1)..(m + Len(c) + Len(v)),
             SyncedEvidence[i].about = SyncedEvidence[j].about,
             SyncedEvidence[i].status = SyncedEvidence[j].status
      PROVE  i = j
  <2>1. i <= m + Len(c) <=> j <= m + Len(c)
    BY <1>2, <1>5, <1>6
  <2>2. CASE i <= m + Len(c)
    <3>1. /\ SyncedEvidence[i] = c[i - m] /\ i - m \in 1..Len(c)
          /\ SyncedEvidence[j] = c[j - m] /\ j - m \in 1..Len(c)
      BY <1>2, <1>4, <2>1, <2>2
    <3>2. i - m = j - m
      BY <1>1, <1>6, <3>1 DEF c
    <3> QED BY <1>2, <3>2
  <2>3. CASE ~(i <= m + Len(c))
    <3>1. /\ SyncedEvidence[i] = v[i - (m + Len(c))] /\ i - (m + Len(c)) \in 1..Len(v)
          /\ SyncedEvidence[j] = v[j - (m + Len(c))] /\ j - (m + Len(c)) \in 1..Len(v)
      BY <1>2, <1>4, <2>1, <2>3
    <3>2. i - (m + Len(c)) = j - (m + Len(c))
      BY <1>1, <1>6, <3>1 DEF v
    <3> QED BY <1>2, <3>2
  <2> QED BY <2>2, <2>3
<1>7. Len(SyncedEvidence) >= m /\ \A i \in 1..m : SyncedEvidence[i] = source[i]
  BY <1>2, <1>4
<1> QED BY <1>4, <1>5, <1>6, <1>7 DEF m

-----------------------------------------------------------------------------
(* Types. *)

LEMMA EventsInit == ASSUME EventAssumption, Init PROVE EventInv
<1>1. SavedTypes
  BY DEF Init, SavedTypes, NoRun, Runs, Researches, Statuses
<1>2. MemoryTypes
  BY DEF Init, MemoryTypes, NoSync, Off, NoRun, Runs, Points, Ends, Syncers, Statuses
<1>3. ThreadInv
  BY DEF Init, ThreadInv, NoSync, Off, NoRun
<1>4. CursorInv
  <2>1. Missing(0) = {}
    BY DEF Missing
  <2>2. Cardinality(Missing(0)) = 0
    BY <2>1, FS_EmptySet
  <2> QED BY <2>2 DEF Init, CursorInv, CursorIsSound, NoSync, Off, NoRun
<1>5. EndInv /\ OnceInv
  BY DEF Init, EndInv, OnceInv, ActionsShownOnce, Off
<1> QED BY <1>1, <1>2, <1>3, <1>4, <1>5 DEF EventInv

(* An event that is put into the log. *)
LEMMA EntryTypes ==
    ASSUME EventInv
    PROVE  /\ \A s \in Statuses : Own(s) \in Entries
           /\ sync.by # "none" =>
                 /\ run.status \in Statuses
                 /\ \A a \in Actions : Shown(a) \in Entries
                 /\ \A n, i \in Nat : \A e \in Events : Forwarded(n, i, e) \in Entries
<1>1. \A s \in Statuses : Own(s) \in Entries
  BY DEF Own, Entries, Refs
<1>2. ASSUME sync.by # "none" PROVE run.status \in Statuses
  BY <1>2 DEF EventInv, SavedTypes, ThreadInv, Runs
<1>3. ASSUME sync.by # "none", NEW a \in Actions PROVE Shown(a) \in Entries
  BY <1>2, <1>3 DEF Shown, Entries, Refs
<1>4. ASSUME sync.by # "none", NEW n \in Nat, NEW i \in Nat, NEW e \in Events
      PROVE  Forwarded(n, i, e) \in Entries
  BY <1>2, <1>4 DEF Forwarded, Entries, Refs
<1> QED BY <1>1, <1>2, <1>3, <1>4

LEMMA HeadOfMany ==
    ASSUME NEW T, NEW s \in Seq(T), s # <<>>
    PROVE  /\ Len(s) \in Nat /\ Len(s) >= 1 /\ Head(s) = s[1] /\ s[1] \in T
           /\ Tail(s) \in Seq(T) /\ Len(Tail(s)) = Len(s) - 1
           /\ \A i \in 1..(Len(s) - 1) : Tail(s)[i] = s[i + 1]
OBVIOUS

LEMMA TupleIsSeq ==
    ASSUME NEW T, NEW n \in Nat, NEW s \in [1..n -> T]
    PROVE  s \in Seq(T)
OBVIOUS

(* The event that is forwarded next. *)
LEMMA FirstTodo ==
    ASSUME MemoryTypes, sync.todo # <<>>
    PROVE  /\ Len(sync.todo) \in Nat /\ Len(sync.todo) >= 1
           /\ Head(sync.todo) = sync.todo[1]
           /\ sync.todo[1].at \in Nat /\ sync.todo[1].event \in Events
           /\ Tail(sync.todo) \in Seq([at : Nat, event : Events])
           /\ Len(Tail(sync.todo)) = Len(sync.todo) - 1
           /\ \A i \in 1..(Len(sync.todo) - 1) : Tail(sync.todo)[i] = sync.todo[i + 1]
<1> DEFINE T == [at : Nat, event : Events]
<1>1. sync.todo \in Seq(T)
  BY DEF MemoryTypes
<1>2. \A x \in T : x.at \in Nat /\ x.event \in Events
  OBVIOUS
<1> HIDE DEF T
<1>3. /\ Len(sync.todo) \in Nat /\ Len(sync.todo) >= 1
      /\ Head(sync.todo) = sync.todo[1] /\ sync.todo[1] \in T
      /\ Tail(sync.todo) \in Seq(T) /\ Len(Tail(sync.todo)) = Len(sync.todo) - 1
      /\ \A i \in 1..(Len(sync.todo) - 1) : Tail(sync.todo)[i] = sync.todo[i + 1]
  BY <1>1, HeadOfMany
<1> QED BY <1>2, <1>3 DEF T

LEMMA CoordinatorTypes ==
    ASSUME EventAssumption, EventInv, Coordinator
    PROVE  SavedTypes' /\ MemoryTypes'
<1> USE DEF EventInv, SavedTypes, MemoryTypes, memory, saved, bounds
<1>1. Work(research.id) \in Events
  BY DEF Work, Events, Researches
<1>2. CASE AgentSaves
  BY <1>2 DEF AgentSaves, Progress
<1>3. CASE AgentActs
  BY <1>3 DEF AgentActs
<1>4. CASE CoordinatorWorks
  BY <1>1, <1>4 DEF CoordinatorWorks
<1>5. CASE CoordinatorSyncs
  <2>1. source' \in Seq(Events)
    BY <1>5, EvidenceIsAppended DEF CoordinatorSyncs
  <2> QED BY <1>5, <2>1 DEF CoordinatorSyncs
<1>6. CASE CoordinatorFinishes
  BY <1>6 DEF CoordinatorFinishes, Researches
<1>7. CASE CoordinatorTells
  BY <1>1, <1>7 DEF CoordinatorTells
<1> QED BY <1>2, <1>3, <1>4, <1>5, <1>6, <1>7 DEF Coordinator

LEMMA SyncTypes ==
    ASSUME EventAssumption, EventInv,
           SyncStep \/ (\E p \in Syncers : SyncBegins(p))
    PROVE  SavedTypes' /\ MemoryTypes'
<1> USE DEF EventInv, SavedTypes, MemoryTypes, memory, saved, bounds
<1>1. ASSUME NEW p \in Syncers, SyncBegins(p) PROVE SavedTypes' /\ MemoryTypes'
  <2>1. source' \in Seq(Events)
    BY <1>1, EvidenceIsAppended DEF SyncBegins
  <2>2. run' \in Runs
    BY <1>1 DEF SyncBegins, Identified, Runs, Researches
  <2>3. sync' \in [by : Syncers \cup {"none"}, at : {"idle", "read", "forward"}, id : Nat,
                   todo : Seq([at : Nat, event : Events])]
    BY <1>1 DEF SyncBegins, Researches
  <2> QED BY <1>1, <2>1, <2>2, <2>3 DEF SyncBegins
<1>2. CASE SyncRead
  <2> DEFINE k == Len(source) - run.cursor
             todo == [i \in 1..k |-> [at |-> run.cursor + i,
                                      event |-> source[run.cursor + i]]]
  <2>1. run.cursor \in Nat /\ Len(source) \in Nat /\ k \in Int
    BY DEF Runs
  <2>2. todo \in [1..k -> [at : Nat, event : Events]]
    BY <2>1
  <2> HIDE DEF todo
  <2>3. todo \in Seq([at : Nat, event : Events])
    <3>1. \E n \in Nat : 1..k = 1..n
      <4>1. CASE k \in Nat
        BY <4>1
      <4>2. CASE k \notin Nat
        <5>1. 1..k = 1..0
          BY <2>1, <4>2
        <5> QED BY <5>1
      <4> QED BY <4>1, <4>2
    <3> HIDE DEF k
    <3>2. PICK n \in Nat : 1..k = 1..n
      BY <3>1
    <3>3. todo \in [1..n -> [at : Nat, event : Events]]
      BY <2>2, <3>2
    <3> QED BY <3>3, TupleIsSeq
  <2>4. sync' = [sync EXCEPT !.at = "forward", !.todo = todo]
    BY <1>2 DEF SyncRead, todo, k
  <2> QED BY <1>2, <2>3, <2>4 DEF SyncRead
<1>3. CASE SyncForwards
  <2>1. /\ sync.by # "none" /\ sync.todo # <<>> /\ sync.id \in Nat
        /\ Head(sync.todo).at \in Nat /\ Head(sync.todo).event \in Events
        /\ Tail(sync.todo) \in Seq([at : Nat, event : Events])
    <3>1. /\ sync.by # "none" /\ sync.todo # <<>> /\ sync.id \in Nat
          /\ sync.todo \in Seq([at : Nat, event : Events])
      BY <1>3 DEF SyncForwards, ThreadInv
    <3>2. sync.todo[1].at \in Nat /\ sync.todo[1].event \in Events
      BY <3>1, FirstTodo
    <3> QED BY <3>1, <3>2, FirstTodo
  <2>2. run' \in Runs
    BY <1>3, <2>1 DEF SyncForwards, CursorSaved, Runs
  <2>3. log' \in Seq(Entries)
    BY <1>3, <2>1, EntryTypes DEF SyncForwards
  <2> QED BY <1>3, <2>1, <2>2, <2>3 DEF SyncForwards
<1>4. CASE SyncShows
  <2>1. sync.by # "none"
    BY <1>4 DEF SyncShows, ThreadInv
  <2>2. log' \in Seq(Entries)
    BY <1>4, <2>1, EntryTypes DEF SyncShows, NewActions
  <2> QED BY <1>4, <2>2 DEF SyncShows
<1>5. CASE SyncEnds
  <2>1. sync' \in [by : Syncers \cup {"none"}, at : {"idle", "read", "forward"}, id : Nat,
                   todo : Seq([at : Nat, event : Events])]
    BY <1>5 DEF SyncEnds, NoSync
  <2>2. Off \in [at : Points, phase : {"load", "save", "append"}, copy : Runs]
    BY DEF Off, NoRun, Runs, Points, Statuses
  <2>3. worker' \in [at : Points, phase : {"load", "save", "append"}, copy : Runs]
    BY <1>5, <2>2 DEF SyncEnds, At, AfterResearch, Points, Ends
  <2> QED BY <1>5, <2>1, <2>3 DEF SyncEnds
<1> QED BY <1>1, <1>2, <1>3, <1>4, <1>5 DEF SyncStep

LEMMA WorkerStaysTyped ==
    ASSUME MemoryTypes, NEW point \in Points, At(point)
    PROVE  worker' \in [at : Points, phase : {"load", "save", "append"}, copy : Runs]
BY DEF At, Off, NoRun, Runs, Statuses

LEMMA SavedIsTyped ==
    ASSUME EventInv, NEW new \in Runs
    PROVE  Saved(new) \in Runs
BY DEF EventInv, SavedTypes, Saved, Runs, Statuses, Active

LEMMA WorkerTypes ==
    ASSUME EventAssumption, EventInv,
           \/ Loads \/ Saves \/ SavesEnd \/ AppendsEnd \/ Appends
           \/ Submits \/ Clears \/ Looks
    PROVE  SavedTypes' /\ MemoryTypes'
<1>0. EventInv
  OBVIOUS
<1>w. Off \in [at : Points, phase : {"load", "save", "append"}, copy : Runs]
  BY DEF Off, NoRun, Runs, Points, Statuses
<1>x. Work(research.id) \in Events /\ source \in Seq(Events) /\ log \in Seq(Entries)
  BY DEF Work, Events, Researches, EventInv, SavedTypes
<1> USE DEF EventInv, SavedTypes, MemoryTypes, memory, saved, bounds
<1>1. CASE Loads
  <2>1. worker' \in [at : Points, phase : {"load", "save", "append"}, copy : Runs]
    BY <1>1 DEF Loads, Points, Ends
  <2> QED BY <1>1, <2>1 DEF Loads
<1>2. CASE Saves
  <2>1. Updated(worker.copy, worker.at) \in Runs
    BY <1>2 DEF Saves, Updated, Runs, Statuses, Active
  <2>2. run' \in Runs
    BY <1>0, <1>2, <2>1, SavedIsTyped DEF Saves
  <2>3. worker' \in [at : Points, phase : {"load", "save", "append"}, copy : Runs]
    BY <1>2, <2>2 DEF Saves
  <2> QED BY <1>2, <2>2, <2>3 DEF Saves
<1>3. CASE SavesEnd
  <2> DEFINE new == [worker.copy EXCEPT !.status = Ending[worker.at],
                                        !.stop = @ \/ worker.at = "stop"]
  <2>1. Ending[worker.at] \in {"completed", "failed", "stopped"}
    BY <1>3 DEF SavesEnd, Ending
  <2>2. worker.copy \in Runs /\ (worker.copy.stop \/ worker.at = "stop") \in BOOLEAN
    OBVIOUS
  <2>3. new \in Runs
    BY <2>1, <2>2 DEF Runs, Statuses, Terminal
  <2> HIDE DEF new
  <2>4. run' = Saved(new)
    BY <1>3 DEF SavesEnd, new
  <2>5. run' \in Runs
    BY <1>0, <2>3, <2>4, SavedIsTyped
  <2> QED BY <1>3, <1>w, <2>1, <2>5 DEF SavesEnd
<1>4. CASE AppendsEnd
  <2>1. owed \in Statuses
    BY <1>4 DEF AppendsEnd, Statuses, Terminal
  <2>2. log' \in Seq(Entries)
    BY <1>0, <1>4, <1>x, <2>1, EntryTypes DEF AppendsEnd
  <2> QED BY <1>4, <2>2 DEF AppendsEnd
<1>5. CASE Appends
  <2>1. worker.copy.status \in Statuses
    BY <1>5 DEF Appends, ThreadInv, IsMarked, Statuses, Active
  <2>2. log' \in Seq(Entries)
    BY <1>0, <1>5, <1>x, <2>1, EntryTypes DEF Appends
  <2>3. \E point \in Points : At(point)
    BY <1>5 DEF Appends, After, Points, Ends, ThreadInv
  <2>4. worker' \in [at : Points, phase : {"load", "save", "append"}, copy : Runs]
    BY <2>3, WorkerStaysTyped
  <2> QED BY <1>5, <2>2, <2>4 DEF Appends
<1>6. CASE Submits
  <2>1. \E point \in Points : At(point)
    BY <1>6 DEF Submits, Points, Ends
  <2>2. worker' \in [at : Points, phase : {"load", "save", "append"}, copy : Runs]
    BY <2>1, WorkerStaysTyped
  <2>3. source' \in Seq(Events) /\ research' \in Researches
    <3>1. [id |-> research.id + 1, status |-> "live"] \in Researches
      BY DEF Researches
    <3>2. Append(source, Work(research.id)) \in Seq(Events)
      BY <1>x
    <3> QED BY <1>6, <1>x, <3>1, <3>2 DEF Submits
  <2> QED BY <1>6, <2>2, <2>3 DEF Submits
<1>7. CASE Clears
  <2>1. source' \in Seq(Events)
    BY <1>7, <1>x DEF Clears
  <2>2. worker' \in [at : Points, phase : {"load", "save", "append"}, copy : Runs]
    BY <1>7, WorkerStaysTyped DEF Clears, Points
  <2> QED BY <1>7, <2>1, <2>2 DEF Clears
<1>8. CASE Looks
  <2>1. worker' \in [at : Points, phase : {"load", "save", "append"}, copy : Runs]
    BY <1>8, WorkerStaysTyped DEF Looks, Points
  <2> QED BY <1>8, <2>1 DEF Looks
<1> QED BY <1>1, <1>2, <1>3, <1>4, <1>5, <1>6, <1>7, <1>8

LEMMA ApiTypes ==
    ASSUME EventAssumption, EventInv, Submit \/ RequestStop \/ Reconcile \/ Crash
    PROVE  SavedTypes' /\ MemoryTypes'
<1>0. EventInv
  OBVIOUS
<1>w. Off \in [at : Points, phase : {"load", "save", "append"}, copy : Runs]
  BY DEF Off, NoRun, Runs, Points, Statuses
<1>x. /\ log \in Seq(Entries)
      /\ \A s \in {"queued", "stopping", "stopped", "interrupted"} : Own(s) \in Entries
  BY EntryTypes DEF EventInv, SavedTypes, Statuses, Active, Terminal
<1> USE DEF EventInv, SavedTypes, MemoryTypes, memory, saved, bounds
<1>1. CASE Submit
  <2>1. run' \in Runs
    BY <1>1 DEF Submit, Queued, Runs, Statuses, Active
  <2>2. log' \in Seq(Entries)
    BY <1>1, <1>x DEF Submit
  <2>3. worker' \in [at : Points, phase : {"load", "save", "append"}, copy : Runs]
    BY <1>1, <1>w DEF Submit, Points
  <2> QED BY <1>1, <2>1, <2>2, <2>3 DEF Submit
<1>2. CASE RequestStop
  <2>1. run' \in Runs
    BY <1>2 DEF RequestStop, Runs, Statuses, Active, Terminal
  <2>2. log' \in Seq(Entries)
    <3>1. \E t \in {<<>>, <<Own("stopped")>>} : log' = Append(log, Own("stopping")) \o t
      BY <1>2 DEF RequestStop
    <3>2. Append(log, Own("stopping")) \in Seq(Entries)
      BY <1>x
    <3>3. <<>> \in Seq(Entries) /\ <<Own("stopped")>> \in Seq(Entries)
      BY <1>x
    <3>4. \A s, u \in Seq(Entries) : s \o u \in Seq(Entries)
      OBVIOUS
    <3> QED BY <3>1, <3>2, <3>3, <3>4
  <2>3. worker' \in [at : Points, phase : {"load", "save", "append"}, copy : Runs]
    BY <1>2, <1>w DEF RequestStop
  <2> QED BY <1>2, <2>1, <2>2, <2>3 DEF RequestStop
<1>3. CASE Reconcile
  <2>1. run' \in Runs
    BY <1>3 DEF Reconcile, Runs, Statuses, Terminal
  <2>2. log' \in Seq(Entries)
    BY <1>3, <1>x DEF Reconcile
  <2> QED BY <1>3, <2>1, <2>2 DEF Reconcile
<1>4. CASE Crash
  <2>1. CursorSaved \in Runs \/ sync.todo = <<>>
    <3> SUFFICES ASSUME sync.todo # <<>> PROVE CursorSaved \in Runs
      OBVIOUS
    <3>1. Head(sync.todo).at \in Nat /\ sync.id \in Nat
      BY FirstTodo
    <3> QED BY <3>1 DEF CursorSaved, Runs
  <2>2. run' \in Runs
    BY <1>4, <2>1 DEF Crash
  <2>3. sync' \in [by : Syncers \cup {"none"}, at : {"idle", "read", "forward"}, id : Nat,
                   todo : Seq([at : Nat, event : Events])]
    BY <1>4 DEF Crash, NoSync
  <2>4. research' \in Researches /\ crashes' \in Nat
    <3>1. (IF research.status = "live" THEN "lost" ELSE research.status)
              \in {"none", "live", "lost", "completed", "failed", "stopped"}
      BY DEF Researches
    <3>2. research' = [research EXCEPT !.status =
                          IF research.status = "live" THEN "lost" ELSE research.status]
      BY <1>4 DEF Crash
    <3> QED BY <1>4, <3>1, <3>2 DEF Crash, Researches
  <2> QED BY <1>4, <1>w, <2>2, <2>3, <2>4 DEF Crash
<1> QED BY <1>1, <1>2, <1>3, <1>4

-----------------------------------------------------------------------------
(* The worker and the status. *)

LEMMA CoordinatorThread ==
    ASSUME EventInv, Coordinator
    PROVE  ThreadInv'
<1>1. UNCHANGED <<run, sync, worker>>
  BY DEF Coordinator, AgentSaves, AgentActs, CoordinatorWorks, CoordinatorSyncs,
         CoordinatorFinishes, CoordinatorTells, memory
<1>2. /\ (worker.at = "clear" <=> held' = "submit")
      /\ held' = "finish" => research'.status \in {"completed", "failed", "stopped"}
      /\ research'.status # "none" => research'.id # 0
  BY DEF EventInv, SavedTypes, Researches, ThreadInv, Coordinator, AgentSaves, AgentActs,
         CoordinatorWorks, CoordinatorSyncs, CoordinatorFinishes, CoordinatorTells, memory,
         Working
<1> QED BY <1>1, <1>2 DEF EventInv, ThreadInv, IsMarked

LEMMA SyncThread ==
    ASSUME EventInv, SyncStep \/ SyncBegins("stream")
                       \/ (worker.at \in {"poll", "last"} /\ SyncBegins("worker"))
    PROVE  ThreadInv'
<1>0. ThreadInv /\ MemoryTypes /\ SavedTypes
  BY DEF EventInv
<1>1. /\ run'.status = run.status /\ run'.stop = run.stop
      /\ UNCHANGED <<held, research>>
  <2>1. CASE SyncForwards
    BY <1>0, <2>1 DEF SyncForwards, CursorSaved, SavedTypes, Runs
  <2>2. CASE ~SyncForwards
    BY <1>0, <2>2 DEF SyncStep, SyncRead, SyncShows, SyncEnds, SyncBegins, Identified,
                      SavedTypes, Runs, saved, memory
  <2> QED BY <2>1, <2>2
<1>2. /\ sync'.by = "none" <=> sync'.at = "idle"
      /\ sync'.at # "forward" => sync'.todo = <<>>
      /\ sync'.by # "none" => run.status # "none"
  <2>1. sync.by = "none" <=> sync.at = "idle"
    BY <1>0 DEF ThreadInv
  <2>2. CASE SyncRead \/ SyncForwards \/ SyncShows
    BY <1>0, <2>1, <2>2 DEF SyncRead, SyncForwards, SyncShows, ThreadInv, MemoryTypes, memory
  <2>3. CASE SyncEnds
    BY <2>3 DEF SyncEnds, NoSync
  <2>4. ASSUME NEW p \in Syncers, SyncBegins(p)
        PROVE  /\ sync'.by = "none" <=> sync'.at = "idle"
               /\ sync'.at # "forward" => sync'.todo = <<>>
               /\ sync'.by # "none" => run.status # "none"
    BY <2>4 DEF SyncBegins, Syncers
  <2> QED BY <2>2, <2>3, <2>4 DEF SyncStep, Syncers
<1>3. CASE ~SyncEnds
  <2>1. UNCHANGED worker
    BY <1>3 DEF SyncStep, SyncRead, SyncForwards, SyncShows, SyncBegins, memory
  <2>2. sync'.by = "worker" => worker.at \in {"poll", "last"}
    <3>1. CASE SyncRead \/ SyncForwards \/ SyncShows
      <4>1. sync'.by = sync.by
        BY <1>0, <3>1 DEF SyncRead, SyncForwards, SyncShows, memory, MemoryTypes
      <4> QED BY <1>0, <4>1 DEF ThreadInv
    <3>2. CASE SyncBegins("stream")
      BY <3>2 DEF SyncBegins
    <3> QED BY <1>3, <3>1, <3>2 DEF SyncStep
  <2> QED BY <1>0, <1>1, <1>2, <2>1, <2>2 DEF ThreadInv, IsMarked
<1>4. CASE SyncEnds /\ sync.by = "stream"
  <2>1. UNCHANGED worker /\ sync'.by = "none"
    BY <1>4 DEF SyncEnds, NoSync
  <2> QED BY <1>0, <1>1, <1>2, <2>1 DEF ThreadInv, IsMarked
<1>5. CASE SyncEnds /\ sync.by # "stream"
  <2>1. sync.by = "worker" /\ worker.at \in {"poll", "last"} /\ IsMarked(run)
    BY <1>0, <1>5 DEF SyncEnds, ThreadInv, MemoryTypes, Syncers
  <2>2. /\ worker'.phase = "load" /\ worker'.at \in {"look", "stop", "done", "fail"}
        /\ worker'.at = "stop" => run.stop
    BY <1>5, <2>1 DEF SyncEnds, At, AfterResearch, Off
  <2>3. sync'.by = "none" /\ held # "submit"
    BY <1>0, <1>5, <2>1 DEF SyncEnds, NoSync, ThreadInv
  <2> QED BY <1>0, <1>1, <1>2, <2>1, <2>2, <2>3 DEF ThreadInv, IsMarked
<1> QED BY <1>3, <1>4, <1>5

LEMMA WorkerThread ==
    ASSUME EventInv,
           \/ Loads \/ Saves \/ SavesEnd \/ AppendsEnd \/ Appends
           \/ Submits \/ Clears \/ Looks
    PROVE  ThreadInv'
<1>0. ThreadInv /\ MemoryTypes /\ SavedTypes
  BY DEF EventInv
<1>1. CASE Loads
  <2>1. /\ UNCHANGED <<run, held, sync, owed, research>> /\ worker'.phase = "save"
        /\ worker'.copy = run /\ worker.at \in {"start", "done", "finish", "fail", "stop"}
        /\ worker'.at = IF worker.at = "fail" /\ run.stop THEN "stop" ELSE worker.at
        /\ worker.phase = "load"
    BY <1>0, <1>1 DEF Loads, saved, MemoryTypes
  <2> QED BY <1>0, <2>1 DEF ThreadInv, IsMarked, Ends
<1>2. CASE Saves
  <2>1. /\ UNCHANGED <<held, sync, owed, research>> /\ worker'.phase = "append"
        /\ worker'.copy = run' /\ worker.at \in {"start", "done"} /\ worker'.at = worker.at
        /\ worker.phase = "save" /\ sync.by = "none"
        /\ run' = Saved(Updated(worker.copy, worker.at))
    BY <1>0, <1>2 DEF Saves, MemoryTypes, LockFree
  <2>2. IsMarked(Updated(worker.copy, worker.at))
    BY <1>0, <2>1 DEF ThreadInv, IsMarked, Updated, MemoryTypes, Runs
  <2>3. Updated(worker.copy, worker.at) \in Runs
    BY <1>0, <2>1 DEF Updated, MemoryTypes, Runs, Statuses, Active
  <2>4. IsMarked(run')
    BY <2>1, <2>2, <2>3 DEF IsMarked, Saved, Runs
  <2> QED BY <1>0, <2>1, <2>4 DEF ThreadInv, IsMarked
<1>3. CASE SavesEnd
  <2>1. /\ UNCHANGED <<held, sync, research>> /\ worker' = Off /\ sync.by = "none"
        /\ worker.at \in DOMAIN Ending
    BY <1>3 DEF SavesEnd, LockFree
  <2>2. held # "submit"
    BY <1>0, <2>1 DEF ThreadInv, Ending
  <2> QED BY <1>0, <2>1, <2>2 DEF ThreadInv, Off
<1>4. CASE AppendsEnd
  BY <1>0, <1>4 DEF AppendsEnd, ThreadInv, IsMarked
<1>5. CASE Appends
  <2>1. /\ UNCHANGED <<run, held, sync, research>> /\ sync.by = "none"
        /\ worker.phase = "append" /\ worker'.phase = "load"
        /\ worker'.at \in {"stop", "submit", "finish", "fail"}
        /\ worker'.at = "stop" => run.stop
    <3>1. worker.at \in {"start", "done"}
      BY <1>0, <1>5 DEF Appends, ThreadInv
    <3> QED BY <1>5, <3>1 DEF Appends, LockFree, At, Off, After
  <2>2. IsMarked(run) /\ held # "submit"
    BY <1>0, <2>1 DEF ThreadInv
  <2> QED BY <1>0, <2>1, <2>2 DEF ThreadInv, IsMarked
<1>6. CASE Submits \/ Clears \/ Looks
  <2>1. /\ UNCHANGED <<run, sync>> /\ worker.at \in {"submit", "clear", "look"}
        /\ worker'.phase = "load" /\ worker'.at \in {"poll", "fail", "clear", "last"}
    BY <1>6 DEF Submits, Clears, Looks, saved, At, Off
  <2>2. IsMarked(run) /\ sync.by # "worker"
    BY <1>0, <2>1 DEF ThreadInv
  <2>3. /\ (worker'.at = "clear" <=> held' = "submit")
        /\ held' = "finish" => research'.status \in {"completed", "failed", "stopped"}
        /\ research'.status # "none" => research'.id # 0
    BY <1>0, <1>6 DEF ThreadInv, Submits, Clears, Looks, saved, At, Off, SavedTypes, Researches
  <2> QED BY <1>0, <2>1, <2>2, <2>3 DEF ThreadInv, IsMarked
<1> QED BY <1>1, <1>2, <1>3, <1>4, <1>5, <1>6

LEMMA ApiThread ==
    ASSUME EventInv, Submit \/ RequestStop \/ Reconcile \/ Crash
    PROVE  ThreadInv'
<1>0. ThreadInv /\ MemoryTypes /\ SavedTypes
  BY DEF EventInv
<1>1. CASE Submit
  <2>1. /\ worker.at = "off" /\ sync.by = "none" /\ UNCHANGED <<research, held, sync, owed>>
        /\ worker' = [Off EXCEPT !.at = "start"]
        /\ run'.status = "queued" /\ ~run'.stop
    BY <1>0, <1>1 DEF Submit, LockFree, ThreadInv, IsMarked, Active, Queued, SavedTypes, Runs
  <2> QED BY <1>0, <2>1 DEF ThreadInv, Off
<1>2. CASE RequestStop
  <2>1. /\ sync.by = "none" /\ UNCHANGED <<research, held, sync, owed>>
        /\ run'.stop /\ run'.status = IF NotStarted \/ worker.at = "off" THEN "stopped"
                                      ELSE "stopping"
        /\ worker' = IF NotStarted THEN Off ELSE worker
    BY <1>0, <1>2 DEF RequestStop, LockFree, SavedTypes, Runs
  <2> QED BY <1>0, <2>1 DEF ThreadInv, IsMarked, NotStarted, Off
<1>3. CASE Reconcile
  BY <1>0, <1>3 DEF Reconcile, ThreadInv, memory, SavedTypes, Runs, LockFree
<1>4. CASE Crash
  <2>1. /\ worker' = Off /\ sync' = NoSync /\ held' = "none"
        /\ research'.status # "none" => research'.id # 0
    BY <1>0, <1>4 DEF Crash, SavedTypes, Researches, ThreadInv
  <2> QED BY <2>1 DEF ThreadInv, Off, NoSync
<1> QED BY <1>1, <1>2, <1>3, <1>4

-----------------------------------------------------------------------------
(* What the cursor has passed.  Of the first k events of a log of the      *)
(* coordinator run n, those with no reference in a set of references.      *)
Gaps(k, len, n, refs) == {i \in 1..k : i <= len /\ <<n, i>> \notin refs}

LEMMA GapsAreFinite ==
    ASSUME NEW k \in Nat, NEW len, NEW n, NEW refs
    PROVE  /\ IsFiniteSet(Gaps(k, len, n, refs))
           /\ Cardinality(Gaps(k, len, n, refs)) \in Nat
<1>1. IsFiniteSet(1..k)
  BY FS_Interval
<1>2. Gaps(k, len, n, refs) \in SUBSET (1..k)
  BY DEF Gaps
<1> QED BY <1>1, <1>2, FS_Subset, FS_CardinalityType

LEMMA NoGapsAtTheStart ==
    ASSUME NEW len, NEW n, NEW refs
    PROVE  Cardinality(Gaps(0, len, n, refs)) = 0
<1>1. Gaps(0, len, n, refs) = {}
  BY DEF Gaps
<1> QED BY <1>1, FS_EmptySet

(* Events behind the cursor and more references open no gap ... *)
LEMMA GapsOnlyClose ==
    ASSUME NEW k \in Nat, NEW len \in Nat, NEW more \in Nat, k <= len, NEW n,
           NEW refs, NEW later, refs \subseteq later
    PROVE  Cardinality(Gaps(k, more, n, later)) <= Cardinality(Gaps(k, len, n, refs))
<1>1. Gaps(k, more, n, later) \in SUBSET Gaps(k, len, n, refs)
  BY DEF Gaps
<1> QED BY <1>1, GapsAreFinite, FS_Subset

(* ... nor does an event that the cursor passes with its reference ... *)
LEMMA ForwardedLeavesNoGap ==
    ASSUME NEW k \in Nat, NEW len \in Nat, NEW n, NEW refs, NEW later,
           refs \subseteq later, <<n, k + 1>> \in later
    PROVE  Cardinality(Gaps(k + 1, len, n, later)) <= Cardinality(Gaps(k, len, n, refs))
<1>1. Gaps(k + 1, len, n, later) \in SUBSET Gaps(k, len, n, refs)
  BY DEF Gaps
<1> QED BY <1>1, GapsAreFinite, FS_Subset

(* ... and without it there is one more. *)
LEMMA CrashLeavesOneGap ==
    ASSUME NEW k \in Nat, NEW len \in Nat, NEW n, NEW refs
    PROVE  Cardinality(Gaps(k + 1, len, n, refs)) <= Cardinality(Gaps(k, len, n, refs)) + 1
<1> DEFINE G == Gaps(k, len, n, refs)
<1>1. IsFiniteSet(G) /\ Cardinality(G) \in Nat
  BY GapsAreFinite
<1>2. Gaps(k + 1, len, n, refs) \in SUBSET (G \cup {k + 1})
  BY DEF Gaps
<1> HIDE DEF G
<1>3. /\ IsFiniteSet(G \cup {k + 1})
      /\ Cardinality(G \cup {k + 1}) \in {Cardinality(G), Cardinality(G) + 1}
  BY <1>1, FS_AddElement
<1>4. Cardinality(Gaps(k + 1, len, n, refs)) <= Cardinality(G \cup {k + 1})
  BY <1>2, <1>3, FS_Subset
<1>5. Cardinality(Gaps(k + 1, len, n, refs)) \in Nat
  BY <1>1, <1>2, GapsAreFinite
<1> QED BY <1>1, <1>3, <1>4, <1>5 DEF G

(* What is in the log stays there. *)
LEMMA LogGrows ==
    ASSUME EventInv, [Next]_vars
    PROVE  ForwardedRefs \subseteq ForwardedRefs'
<1>1. log \in Seq(Entries)
  BY DEF EventInv, SavedTypes
<1>2. \/ UNCHANGED log \/ (\E e : log' = Append(log, e))
      \/ (\E e, f : log' = Append(log, e) \o <<f>>) \/ (\E e : log' = Append(log, e) \o <<>>)
  <2>1. CASE UNCHANGED vars
    BY <2>1 DEF vars, eventVars, saved
  <2>2. CASE Coordinator
    BY <2>2 DEF Coordinator, AgentSaves, AgentActs, CoordinatorWorks, CoordinatorSyncs,
                CoordinatorFinishes, CoordinatorTells
  <2>3. CASE SyncStep \/ \E p \in Syncers : SyncBegins(p)
    BY <2>3 DEF SyncStep, SyncRead, SyncForwards, SyncShows, SyncEnds, SyncBegins, saved
  <2>4. CASE \/ Loads \/ Saves \/ SavesEnd \/ AppendsEnd \/ Appends
             \/ Submits \/ Clears \/ Looks
    BY <2>4 DEF Loads, Saves, SavesEnd, AppendsEnd, Appends, Submits, Clears, Looks, saved
  <2>5. CASE Submit \/ Reconcile \/ Crash
    BY <2>5 DEF Submit, Reconcile, Crash
  <2>6. CASE RequestStop
    BY <2>6 DEF RequestStop
  <2> QED BY <2>1, <2>2, <2>3, <2>4, <2>5, <2>6 DEF Next, Worker, Syncers
<1>3. \A i \in DOMAIN log : i \in DOMAIN log' /\ log'[i] = log[i]
  <2>1. Len(log) \in Nat /\ DOMAIN log = 1..Len(log)
    BY <1>1
  <2>2. CASE \E e : log' = Append(log, e)
    BY <1>1, <2>1, <2>2
  <2>3. CASE \E e, f : log' = Append(log, e) \o <<f>>
    <3>1. PICK e, f : log' = Append(log, e) \o <<f>>
      BY <2>3
    <3>2. PICK T : Entries \subseteq T /\ e \in T /\ f \in T
      <4>1. Entries \subseteq Entries \cup {e, f}
        OBVIOUS
      <4> QED BY <4>1
    <3>3. log \in Seq(T) /\ Append(log, e) \in Seq(T) /\ <<f>> \in Seq(T)
      BY <1>1, <3>2
    <3> QED BY <2>1, <3>1, <3>3
  <2>4. CASE \E e : log' = Append(log, e) \o <<>>
    <3>1. PICK e : log' = Append(log, e) \o <<>>
      BY <2>4
    <3>2. PICK T : Entries \subseteq T /\ e \in T
      <4>1. Entries \subseteq Entries \cup {e}
        OBVIOUS
      <4> QED BY <4>1
    <3>3. log \in Seq(T) /\ Append(log, e) \in Seq(T) /\ <<>> \in Seq(T)
      BY <1>1, <3>2
    <3> QED BY <2>1, <3>1, <3>3
  <2> QED BY <1>2, <2>2, <2>3, <2>4
<1> QED BY <1>3 DEF ForwardedRefs

-----------------------------------------------------------------------------
(* A cursor that is sound after a step. *)
SoundAfter(r) ==
    /\ r.research <= research'.id
    /\ r.research = research'.id =>
          /\ r.cursor <= Len(source')
          /\ Cardinality(Gaps(r.cursor, Len(source'), research'.id, ForwardedRefs')) <= crashes'

SoundNow(r) ==
    /\ r.research <= research.id
    /\ r.research = research.id =>
          /\ r.cursor <= Len(source)
          /\ Cardinality(Gaps(r.cursor, Len(source), research.id, ForwardedRefs)) <= crashes

LEMMA SoundByGaps ==
    /\ CursorIsSound(run) <=> SoundNow(run)
    /\ CursorIsSound(worker.copy) <=> SoundNow(worker.copy)
    /\ CursorIsSound(run)' <=> SoundAfter(run')
    /\ CursorIsSound(worker.copy)' <=> SoundAfter(worker'.copy)
BY DEF CursorIsSound, SoundNow, SoundAfter, Missing, Gaps

(* A log of the same coordinator run that is not shorter, references that  *)
(* are not fewer and restarts leave a sound cursor sound; so does a new    *)
(* coordinator run.                                                        *)
LEMMA SoundStays ==
    ASSUME EventInv, SavedTypes', [Next]_vars, crashes <= crashes',
           \/ research'.id > research.id
           \/ research'.id = research.id /\ Len(source) <= Len(source'),
           NEW r \in Runs, SoundNow(r)
    PROVE  SoundAfter(r)
<1>1. /\ research.id \in Nat /\ research'.id \in Nat /\ crashes \in Nat /\ crashes' \in Nat
      /\ Len(source) \in Nat /\ Len(source') \in Nat /\ r.cursor \in Nat /\ r.research \in Nat
  BY DEF EventInv, SavedTypes, Researches, Runs
<1>2. CASE research'.id > research.id
  BY <1>1, <1>2 DEF SoundNow, SoundAfter
<1>3. CASE research'.id = research.id /\ Len(source) <= Len(source')
  <2> SUFFICES ASSUME r.research = research.id
               PROVE  /\ r.cursor <= Len(source')
                      /\ Cardinality(Gaps(r.cursor, Len(source'), research'.id, ForwardedRefs'))
                            <= crashes'
    BY <1>1, <1>3 DEF SoundNow, SoundAfter
  <2>1. /\ r.cursor <= Len(source)
        /\ Cardinality(Gaps(r.cursor, Len(source), research.id, ForwardedRefs)) <= crashes
    BY DEF SoundNow
  <2>2. Cardinality(Gaps(r.cursor, Len(source'), research.id, ForwardedRefs'))
           <= Cardinality(Gaps(r.cursor, Len(source), research.id, ForwardedRefs))
    BY <1>1, <2>1, LogGrows, GapsOnlyClose
  <2>3. /\ Cardinality(Gaps(r.cursor, Len(source), research.id, ForwardedRefs)) \in Nat
        /\ Cardinality(Gaps(r.cursor, Len(source'), research.id, ForwardedRefs')) \in Nat
    BY <1>1, GapsAreFinite
  <2> QED BY <1>1, <1>3, <2>1, <2>2, <2>3
<1> QED BY <1>2, <1>3

LEMMA NoRunIsSound ==
    ASSUME SavedTypes' PROVE SoundAfter(NoRun)
<1>1. research'.id \in Nat /\ Len(source') \in Nat /\ crashes' \in Nat
  BY DEF SavedTypes, Researches
<1>2. Cardinality(Gaps(0, Len(source'), research'.id, ForwardedRefs')) = 0
  BY NoGapsAtTheStart
<1> QED BY <1>1, <1>2 DEF SoundAfter, NoRun

(* Who does not touch the run or the projection. *)
LEMMA CursorFrame ==
    ASSUME EventInv, SavedTypes', MemoryTypes', [Next]_vars, UNCHANGED <<sync, crashes>>,
           run'.research = run.research, run'.cursor = run.cursor,
           \/ worker'.copy = worker.copy \/ worker'.copy = run \/ worker'.copy = NoRun,
           research'.id = research.id, Len(source) <= Len(source'),
           research.id = 0 => source' = <<>>,
           worker'.at = "clear" => worker.at = "clear",
           sync.by # "worker" \/ worker.at = worker'.at
    PROVE  CursorInv'
<1>1. /\ run \in Runs /\ worker.copy \in Runs /\ crashes \in Nat
      /\ run.cursor \in Nat /\ Len(source) \in Nat /\ Len(source') \in Nat
      /\ sync.todo \in Seq([at : Nat, event : Events]) /\ Len(sync.todo) \in Nat
  BY DEF EventInv, SavedTypes, MemoryTypes, Runs
<1>2. SoundNow(run) /\ SoundNow(worker.copy)
  BY SoundByGaps DEF EventInv, CursorInv
<1>3. SoundAfter(run) /\ SoundAfter(worker.copy)
  BY <1>1, <1>2, SoundStays
<1>4. SoundAfter(run')
  BY <1>3 DEF SoundAfter
<1>5. SoundAfter(worker'.copy)
  BY <1>3, NoRunIsSound
<1>6. CursorIsSound(run)' /\ CursorIsSound(worker.copy)'
  BY <1>4, <1>5, SoundByGaps
<1>7. sync.by # "none" /\ sync.id = research.id => run.cursor + Len(sync.todo) <= Len(source')
  BY <1>1 DEF EventInv, CursorInv
<1> QED BY <1>6, <1>7 DEF EventInv, CursorInv

LEMMA CoordinatorCursor ==
    ASSUME EventAssumption, EventInv, SavedTypes', MemoryTypes', Coordinator, [Next]_vars
    PROVE  CursorInv' /\ UNCHANGED <<run, log, worker, sync>>
           /\ research'.id = research.id /\ Len(source) <= Len(source')
<1>1. /\ UNCHANGED <<run, log, worker, sync, crashes>> /\ research'.id = research.id
  BY DEF Coordinator, AgentSaves, AgentActs, CoordinatorWorks, CoordinatorSyncs, CoordinatorTells,
         CoordinatorFinishes, EventInv, SavedTypes, Researches, memory, bounds
<1>2. source \in Seq(Events) /\ Len(source) \in Nat /\ Work(research.id) \in Events
  BY DEF EventInv, SavedTypes, Work, Events, Researches
<1>3. Len(source) <= Len(source')
  BY <1>2, EvidenceIsAppended
     DEF Coordinator, AgentSaves, AgentActs, CoordinatorWorks, CoordinatorSyncs,
         CoordinatorFinishes, CoordinatorTells, EventInv
<1>4. research.id # 0 \/ UNCHANGED source
  <2>1. research.status # "none" => research.id # 0
    BY DEF EventInv, ThreadInv
  <2>2. held = "finish" => research.status \in {"completed", "failed", "stopped"}
    BY DEF EventInv, ThreadInv
  <2> QED BY <2>1, <2>2
       DEF Coordinator, AgentSaves, AgentActs, CoordinatorWorks, CoordinatorSyncs,
         CoordinatorFinishes, CoordinatorTells, Working
<1>5. research.id = 0 => source' = <<>>
  BY <1>4 DEF EventInv, CursorInv
<1> QED BY <1>1, <1>3, <1>5, CursorFrame

LEMMA WorkerCursor ==
    ASSUME EventAssumption, EventInv, SavedTypes', MemoryTypes', [Next]_vars,
           Loads \/ Saves \/ SavesEnd \/ AppendsEnd \/ Appends \/ Submits \/ Clears \/ Looks
    PROVE  CursorInv'
<1>0. /\ run \in Runs /\ worker.copy \in Runs /\ crashes \in Nat /\ research.id \in Nat
      /\ source \in Seq(Events) /\ Len(source) \in Nat /\ Work(research.id) \in Events
      /\ worker \in [at : Points, phase : {"load", "save", "append"}, copy : Runs]
      /\ (research.id = 0 => source = <<>>)
  BY DEF EventInv, SavedTypes, MemoryTypes, Work, Events, Researches, CursorInv
<1>1. CASE Loads \/ AppendsEnd \/ Appends \/ Looks
  <2>1. UNCHANGED <<run, research, source, sync, crashes>>
    BY <1>1 DEF Loads, AppendsEnd, Appends, Looks, saved, bounds
  <2>2. worker'.copy = worker.copy \/ worker'.copy = run \/ worker'.copy = NoRun
    BY <1>0, <1>1 DEF Loads, AppendsEnd, Appends, Looks, At, Off
  <2>3. worker'.at = "clear" => worker.at = "clear"
    BY <1>0, <1>1 DEF Loads, AppendsEnd, Appends, Looks, At, Off, After, EventInv, ThreadInv
  <2>4. sync.by # "worker" \/ worker.at = worker'.at
    BY <1>1 DEF Loads, AppendsEnd, Appends, Looks, EventInv, ThreadInv
  <2> QED BY <1>0, <2>1, <2>2, <2>3, <2>4, CursorFrame
<1>2. CASE Saves \/ SavesEnd
  <2>1. /\ UNCHANGED <<research, source, sync, crashes>> /\ sync.by = "none"
        /\ worker'.at # "clear" /\ worker'.copy \in {run', NoRun}
        /\ sync.todo = <<>>
    <3>1. /\ UNCHANGED <<research, source, sync, crashes>> /\ sync.by = "none"
      BY <1>2 DEF Saves, SavesEnd, bounds, LockFree
    <3>2. sync.todo = <<>>
      BY <3>1 DEF EventInv, ThreadInv
    <3>3. CASE Saves
      BY <1>0, <3>1, <3>2, <3>3 DEF Saves
    <3>4. CASE SavesEnd
      BY <3>1, <3>2, <3>4 DEF SavesEnd, Off
    <3> QED BY <1>2, <3>3, <3>4
  <2>2. run'.research = worker.copy.research /\ run'.cursor = worker.copy.cursor
    <3>1. CASE Saves
      <4>1. /\ Updated(worker.copy, worker.at) \in Runs
            /\ Updated(worker.copy, worker.at).research = worker.copy.research
            /\ Updated(worker.copy, worker.at).cursor = worker.copy.cursor
        BY <1>0, <3>1 DEF Saves, Updated, Runs, Statuses, Active
      <4>2. run' = Saved(Updated(worker.copy, worker.at))
        BY <3>1 DEF Saves
      <4> QED BY <4>1, <4>2 DEF Saved, Runs
    <3>2. CASE SavesEnd
      <4> DEFINE new == [worker.copy EXCEPT !.status = Ending[worker.at],
                                            !.stop = @ \/ worker.at = "stop"]
      <4>1. new.research = worker.copy.research /\ new.cursor = worker.copy.cursor
        BY <1>0 DEF Runs
      <4>2. run' = Saved(new) /\ DOMAIN new = DOMAIN worker.copy
        BY <3>2 DEF SavesEnd
      <4> HIDE DEF new
      <4> QED BY <1>0, <4>1, <4>2 DEF Saved, Runs
    <3> QED BY <1>2, <3>1, <3>2
  <2>3. SoundAfter(worker.copy)
    BY <1>0, <2>1, SoundByGaps, SoundStays DEF EventInv, CursorInv
  <2>4. SoundAfter(run')
    BY <2>2, <2>3 DEF SoundAfter
  <2>5. SoundAfter(worker'.copy)
    BY <2>1, <2>4, NoRunIsSound
  <2>6. CursorIsSound(run)' /\ CursorIsSound(worker.copy)'
    BY <2>4, <2>5, SoundByGaps
  <2> QED BY <1>0, <2>1, <2>6 DEF EventInv, CursorInv
<1>3. CASE Submits
  <2>1. worker.at = "submit" /\ worker'.copy = NoRun /\ UNCHANGED <<run, sync, crashes>>
    BY <1>3 DEF Submits, At, Off, bounds
  <2>2. sync.by # "worker"
    BY <2>1 DEF EventInv, ThreadInv
  <2>3. CASE UNCHANGED <<research, source, held>>
    <3>1. worker'.at # "clear" \/ research' # research
      BY <1>0, <1>3 DEF Submits, At, Off
    <3>2. worker'.at # "clear"
      BY <2>3, <3>1
    <3> QED BY <1>0, <2>1, <2>2, <2>3, <3>2, CursorFrame
  <2>4. CASE /\ research' = [id |-> research.id + 1, status |-> "live"]
             /\ held' = "submit" /\ At("clear")
    <3>1. research'.id = research.id + 1 /\ research'.id > research.id /\ research'.id # 0
      BY <1>0, <2>4
    <3>2. SoundNow(run)
      BY SoundByGaps DEF EventInv, CursorInv
    <3>3. SoundAfter(run') /\ SoundAfter(worker'.copy)
      BY <1>0, <2>1, <3>1, <3>2, SoundStays, NoRunIsSound
    <3>4. CursorIsSound(run)' /\ CursorIsSound(worker.copy)'
      BY <3>3, SoundByGaps
    <3>5. run.research <= research.id /\ sync.id <= research.id
          /\ run.research \in Nat /\ sync.id \in Nat
      BY <1>0 DEF EventInv, CursorInv, CursorIsSound, MemoryTypes, Runs
    <3>6. run.research < research'.id /\ sync.id < research'.id
      BY <1>0, <3>1, <3>5
    <3>7. sync.id # research'.id /\ sync.id <= research'.id
      BY <1>0, <3>1, <3>5
    <3> QED BY <2>1, <2>2, <3>1, <3>4, <3>6, <3>7 DEF EventInv, CursorInv
  <2> QED BY <1>3, <2>3, <2>4 DEF Submits
<1>4. CASE Clears
  <2>1. /\ worker.at = "clear" /\ worker'.copy = NoRun /\ worker'.at = "poll"
        /\ UNCHANGED <<run, sync, crashes, research>> /\ source' = <<Work(research.id)>>
    BY <1>4 DEF Clears, At, Off, bounds
  <2>2. run.research < research.id /\ sync.id < research.id
    BY <2>1 DEF EventInv, CursorInv
  <2>3. SoundAfter(run')
    BY <1>0, <2>1, <2>2 DEF SoundAfter, Runs
  <2>4. CursorIsSound(run)' /\ CursorIsSound(worker.copy)'
    BY <2>1, <2>3, NoRunIsSound, SoundByGaps
  <2>5. sync.by # "worker" /\ research.id # 0 /\ sync.id # research.id
    <3>1. run.research \in Nat /\ sync.id \in Nat
      BY <1>0 DEF EventInv, MemoryTypes, Runs
    <3> QED BY <1>0, <2>1, <2>2, <3>1 DEF EventInv, ThreadInv
  <2> QED BY <2>1, <2>2, <2>4, <2>5 DEF EventInv, CursorInv
<1> QED BY <1>1, <1>2, <1>3, <1>4

(* The next event moves the cursor on by one. *)
LEMMA CursorMovesByOne ==
    ASSUME EventInv, sync.todo # <<>>
    PROVE  /\ sync.at = "forward" /\ sync.by # "none" /\ run.research = sync.id
           /\ Head(sync.todo).at = run.cursor + 1
           /\ CursorSaved \in Runs /\ CursorSaved.cursor = run.cursor + 1
           /\ CursorSaved.research = run.research
           /\ CursorSaved.status = run.status /\ CursorSaved.stop = run.stop
           /\ sync.id = research.id => run.cursor + 1 <= Len(source)
<1>1. /\ sync.at = "forward" /\ sync.by # "none" /\ run.research = sync.id
      /\ run \in Runs /\ run.cursor \in Nat /\ sync.id \in Nat /\ Len(source) \in Nat
  BY DEF EventInv, ThreadInv, CursorInv, SavedTypes, MemoryTypes, Runs
<1>2. Head(sync.todo) = sync.todo[1] /\ Len(sync.todo) \in Nat /\ Len(sync.todo) >= 1
  BY FirstTodo DEF EventInv
<1>3. 1 \in DOMAIN sync.todo
  BY <1>2 DEF EventInv, MemoryTypes
<1>4. Head(sync.todo).at = run.cursor + 1
  BY <1>2, <1>3 DEF EventInv, CursorInv
<1>5. /\ CursorSaved \in Runs /\ CursorSaved.cursor = run.cursor + 1
      /\ CursorSaved.research = run.research
      /\ CursorSaved.status = run.status /\ CursorSaved.stop = run.stop
  <2> DEFINE moved == [run EXCEPT !.cursor = run.cursor + 1]
  <2>1. CursorSaved = [moved EXCEPT !.research = sync.id]
    <3>1. (IF run.cursor > Head(sync.todo).at THEN run.cursor ELSE Head(sync.todo).at)
             = run.cursor + 1
      BY <1>1, <1>4
    <3> QED BY <3>1 DEF CursorSaved
  <2>2. /\ moved \in Runs /\ moved.cursor = run.cursor + 1 /\ moved.research = run.research
        /\ moved.status = run.status /\ moved.stop = run.stop
    BY <1>1 DEF Runs
  <2> HIDE DEF moved
  <2> QED BY <1>1, <2>1, <2>2 DEF Runs
<1>6. sync.id = research.id => run.cursor + 1 <= Len(source)
  BY <1>1, <1>2 DEF EventInv, CursorInv
<1> QED BY <1>1, <1>4, <1>5, <1>6

LEMMA SyncCursor ==
    ASSUME EventAssumption, EventInv, SavedTypes', MemoryTypes', [Next]_vars,
           SyncStep \/ SyncBegins("stream")
             \/ (worker.at \in {"poll", "last"} /\ SyncBegins("worker"))
    PROVE  CursorInv'
<1>0. /\ run \in Runs /\ worker.copy \in Runs /\ crashes \in Nat /\ research.id \in Nat
      /\ source \in Seq(Events) /\ Len(source) \in Nat /\ run.cursor \in Nat
      /\ run.research \in Nat /\ sync.id \in Nat /\ sync.id <= research.id
      /\ sync \in [by : Syncers \cup {"none"}, at : {"idle", "read", "forward"}, id : Nat,
                 todo : Seq([at : Nat, event : Events])]
      /\ (research.id = 0 => source = <<>>) /\ Len(source') \in Nat
  <2>1. Len(source') \in Nat
    BY DEF SavedTypes
  <2>2. sync.id <= research.id /\ (research.id = 0 => source = <<>>)
    BY DEF EventInv, CursorInv
  <2> QED BY <2>1, <2>2 DEF EventInv, SavedTypes, MemoryTypes, Runs, Researches
<1>1. SoundNow(run) /\ SoundNow(worker.copy)
  BY SoundByGaps DEF EventInv, CursorInv
<1>2. ASSUME NEW p \in Syncers, SyncBegins(p) PROVE CursorInv'
  <2>1. /\ UNCHANGED <<research, worker, crashes>> /\ held = "none" /\ run' = Identified
        /\ source' = IF research.id = 0 THEN source ELSE SyncedEvidence
        /\ sync' = [by |-> p, at |-> "read", id |-> research.id, todo |-> <<>>]
    BY <1>2 DEF SyncBegins, bounds
  <2>2. Len(source) <= Len(source') /\ (research.id = 0 => source' = <<>>)
    BY <1>0, <2>1, EvidenceIsAppended DEF EventInv
  <2>3. SoundAfter(run) /\ SoundAfter(worker.copy)
    BY <1>0, <1>1, <2>1, <2>2, SoundStays
  <2>4. run'.research = research.id /\ SoundAfter(run')
    <3>1. CASE research.id # 0 /\ research.id # run.research
      <4>1. run'.research = research.id /\ run'.cursor = 0
        BY <1>0, <2>1, <3>1 DEF Identified, Runs
      <4>2. Cardinality(Gaps(0, Len(source'), research'.id, ForwardedRefs')) = 0
        BY NoGapsAtTheStart
      <4> QED BY <1>0, <2>1, <4>1, <4>2 DEF SoundAfter
    <3>2. CASE ~(research.id # 0 /\ research.id # run.research)
      <4>1. run' = run
        BY <2>1, <3>2 DEF Identified
      <4>2. run.research = research.id
        BY <1>0, <1>1, <3>2 DEF SoundNow
      <4> QED BY <2>3, <4>1, <4>2
    <3> QED BY <3>1, <3>2
  <2>5. CursorIsSound(run)' /\ CursorIsSound(worker.copy)'
    BY <2>1, <2>3, <2>4, SoundByGaps
  <2>6. run'.cursor + Len(sync'.todo) <= Len(source')
    <3>1. run'.cursor <= Len(source') /\ run'.cursor \in Nat /\ Len(sync'.todo) = 0
      BY <2>1, <2>4 DEF SoundAfter, SavedTypes, Runs
    <3> QED BY <1>0, <3>1
  <2>7. worker.at # "clear"
    BY <2>1 DEF EventInv, ThreadInv
  <2> QED BY <1>0, <2>1, <2>2, <2>4, <2>5, <2>6, <2>7 DEF CursorInv
<1>3. CASE SyncRead
  <2>1. /\ UNCHANGED <<run, source, research, worker, crashes, log>> /\ sync.at = "read"
        /\ sync'.by = sync.by /\ sync'.id = sync.id
        /\ sync'.todo = [i \in 1..(Len(source) - run.cursor) |->
                [at |-> run.cursor + i, event |-> source[run.cursor + i]]]
    BY <1>0, <1>3 DEF SyncRead, saved, bounds
  <2>2. SoundAfter(run) /\ SoundAfter(worker.copy)
    BY <1>0, <1>1, <2>1, SoundStays
  <2>3. CursorIsSound(run)' /\ CursorIsSound(worker.copy)'
    BY <2>1, <2>2, SoundByGaps
  <2>4. \A j \in DOMAIN sync'.todo : sync'.todo[j].at = run.cursor + j
    BY <2>1
  <2>5. sync.by # "none" /\ run.research = sync.id
    BY <2>1 DEF EventInv, ThreadInv, CursorInv
  <2>6. sync.id = research.id => run.cursor + Len(sync'.todo) <= Len(source)
    <3> SUFFICES ASSUME sync.id = research.id PROVE run.cursor + Len(sync'.todo) <= Len(source)
      OBVIOUS
    <3>1. run.cursor <= Len(source)
      BY <1>1, <2>5 DEF SoundNow
    <3>2. Len(source) - run.cursor \in Nat
      BY <1>0, <3>1
    <3>3. Len(sync'.todo) = Len(source) - run.cursor
      BY <2>1, <3>2
    <3> QED BY <1>0, <3>3
  <2> QED BY <2>1, <2>3, <2>4, <2>5, <2>6 DEF EventInv, CursorInv
<1>4. CASE SyncForwards
  <2>1. /\ sync.todo # <<>> /\ UNCHANGED <<source, research, worker, crashes>>
        /\ run' = CursorSaved
        /\ log' = Append(log, Forwarded(sync.id, Head(sync.todo).at, Head(sync.todo).event))
        /\ sync'.by = sync.by /\ sync'.id = sync.id /\ sync'.todo = Tail(sync.todo)
    BY <1>0, <1>4 DEF SyncForwards, bounds
  <2>2. /\ sync.by # "none" /\ run.research = sync.id /\ Head(sync.todo).at = run.cursor + 1
        /\ run'.cursor = run.cursor + 1 /\ run'.research = sync.id
        /\ sync.id = research.id => run.cursor + 1 <= Len(source)
    BY <2>1, CursorMovesByOne
  <2>3. <<sync.id, run.cursor + 1>> \in ForwardedRefs'
    <3>1. /\ Len(log) + 1 \in DOMAIN log'
          /\ log'[Len(log) + 1] = Forwarded(sync.id, Head(sync.todo).at, Head(sync.todo).event)
      BY <2>1 DEF EventInv, SavedTypes
    <3>2. /\ log'[Len(log) + 1].kind \in {"research", "evidence"}
          /\ log'[Len(log) + 1].ref = <<sync.id, run.cursor + 1>>
      BY <2>2, <3>1 DEF Forwarded
    <3> QED BY <3>1, <3>2 DEF ForwardedRefs
  <2>4. SoundAfter(run')
    <3> SUFFICES ASSUME sync.id = research.id
                 PROVE  /\ run.cursor + 1 <= Len(source)
                        /\ Cardinality(Gaps(run.cursor + 1, Len(source), research.id,
                                            ForwardedRefs')) <= crashes
      BY <1>0, <2>1, <2>2 DEF SoundAfter
    <3>1. Cardinality(Gaps(run.cursor, Len(source), research.id, ForwardedRefs)) <= crashes
      BY <1>1, <2>2 DEF SoundNow
    <3>2. Cardinality(Gaps(run.cursor + 1, Len(source), research.id, ForwardedRefs'))
             <= Cardinality(Gaps(run.cursor, Len(source), research.id, ForwardedRefs))
      BY <1>0, <2>3, LogGrows, ForwardedLeavesNoGap
    <3>3. /\ Cardinality(Gaps(run.cursor, Len(source), research.id, ForwardedRefs)) \in Nat
          /\ Cardinality(Gaps(run.cursor + 1, Len(source), research.id, ForwardedRefs')) \in Nat
      BY <1>0, GapsAreFinite
    <3> QED BY <1>0, <2>2, <3>1, <3>2, <3>3
  <2>5. SoundAfter(worker.copy)
    BY <1>0, <1>1, <2>1, SoundStays
  <2>6. CursorIsSound(run)' /\ CursorIsSound(worker.copy)'
    BY <2>1, <2>4, <2>5, SoundByGaps
  <2>7. /\ Len(sync.todo) \in Nat /\ Len(sync'.todo) = Len(sync.todo) - 1
        /\ \A i \in 1..(Len(sync.todo) - 1) : sync'.todo[i] = sync.todo[i + 1]
        /\ DOMAIN sync'.todo = 1..(Len(sync.todo) - 1)
        /\ DOMAIN sync.todo = 1..Len(sync.todo)
    BY <1>0, <2>1, FirstTodo DEF EventInv
  <2>8. \A j \in DOMAIN sync'.todo : sync'.todo[j].at = run'.cursor + j
    <3> SUFFICES ASSUME NEW j \in 1..(Len(sync.todo) - 1)
                 PROVE  sync'.todo[j].at = run'.cursor + j
      BY <2>7
    <3>1. j + 1 \in DOMAIN sync.todo
      BY <2>7
    <3>2. sync.todo[j + 1].at = run.cursor + (j + 1)
      BY <3>1 DEF EventInv, CursorInv
    <3>3. sync'.todo[j] = sync.todo[j + 1] /\ j \in Nat
      BY <2>7
    <3>4. run.cursor + (j + 1) = run'.cursor + j
      <4>1. \A a, b \in Nat : a + (b + 1) = (a + 1) + b
        OBVIOUS
      <4>2. run.cursor \in Nat /\ run'.cursor = run.cursor + 1
        BY <1>0, <2>2
      <4> QED BY <3>3, <4>1, <4>2
    <3> QED BY <3>2, <3>3, <3>4
  <2>9. sync.id = research.id => run'.cursor + Len(sync'.todo) <= Len(source)
    BY <1>0, <2>2, <2>7 DEF EventInv, CursorInv
  <2>10. worker.at = "clear" => run'.research < research.id /\ sync.id < research.id
    BY <2>2 DEF EventInv, CursorInv
  <2>11. sync.by = "worker" => sync.id = research.id
    BY DEF EventInv, CursorInv
  <2> QED BY <1>0, <2>1, <2>2, <2>6, <2>8, <2>9, <2>10, <2>11 DEF CursorInv
<1>5. CASE SyncShows
  <2>1. UNCHANGED <<run, research, source, worker, sync, crashes>>
    BY <1>5 DEF SyncShows, memory, bounds
  <2> QED BY <1>0, <2>1, CursorFrame
<1>6. CASE SyncEnds
  <2>1. /\ UNCHANGED <<run, source, research, crashes, log>> /\ sync' = NoSync
        /\ worker'.copy \in {worker.copy, NoRun}
    BY <1>6 DEF SyncEnds, saved, bounds, At, Off
  <2>2. worker'.at = "clear" => worker.at = "clear"
    BY <1>6 DEF SyncEnds, At, Off, AfterResearch
  <2>3. SoundAfter(run) /\ SoundAfter(worker'.copy)
    BY <1>0, <1>1, <2>1, SoundStays, NoRunIsSound
  <2>4. CursorIsSound(run)' /\ CursorIsSound(worker.copy)'
    BY <2>1, <2>3, SoundByGaps
  <2>5. worker.at = "clear" => run.research < research.id /\ 0 < research.id
    <3>1. worker.at = "clear" => run.research < research.id
      BY DEF EventInv, CursorInv
    <3> QED BY <1>0, <3>1
  <2> QED BY <1>0, <2>1, <2>2, <2>4, <2>5 DEF CursorInv, NoSync
<1> QED BY <1>2, <1>3, <1>4, <1>5, <1>6 DEF SyncStep, Syncers

LEMMA ApiCursor ==
    ASSUME EventAssumption, EventInv, SavedTypes', MemoryTypes', [Next]_vars,
           Submit \/ RequestStop \/ Reconcile \/ Crash
    PROVE  CursorInv'
<1>0. /\ run \in Runs /\ worker.copy \in Runs /\ crashes \in Nat /\ research.id \in Nat
      /\ source \in Seq(Events) /\ Len(source) \in Nat /\ run.cursor \in Nat
      /\ (research.id = 0 => source = <<>>) /\ research \in Researches
  BY DEF EventInv, SavedTypes, MemoryTypes, Runs, Researches, CursorInv
<1>1. CASE Submit \/ RequestStop \/ Reconcile
  <2>1. /\ UNCHANGED <<research, source, sync, crashes>>
        /\ run'.research = run.research /\ run'.cursor = run.cursor
    BY <1>0, <1>1 DEF Submit, RequestStop, Reconcile, Queued, Runs, bounds, memory
  <2>2. /\ worker'.copy = worker.copy \/ worker'.copy = NoRun
        /\ worker'.at = "clear" => worker.at = "clear"
    BY <1>1 DEF Submit, RequestStop, Reconcile, Off, memory
  <2>3. sync.by = "none"
    BY <1>1 DEF Submit, RequestStop, Reconcile, LockFree
  <2> QED BY <1>0, <2>1, <2>2, <2>3, CursorFrame
<1>2. CASE Crash
  <2>1. /\ crashes' = crashes + 1 /\ UNCHANGED <<log, source>> /\ research'.id = research.id
        /\ worker' = Off /\ sync' = NoSync
        /\ run' = run \/ (sync.todo # <<>> /\ run' = CursorSaved)
    BY <1>0, <1>2 DEF Crash, Researches
  <2>2. SoundNow(run)
    BY SoundByGaps DEF EventInv, CursorInv
  <2>3. SoundAfter(run')
    <3>1. CASE run' = run
      BY <1>0, <2>1, <2>2, <3>1, SoundStays
    <3>2. CASE sync.todo # <<>> /\ run' = CursorSaved
      <4>1. /\ run'.cursor = run.cursor + 1 /\ run'.research = run.research
            /\ run.research = sync.id
            /\ sync.id = research.id => run.cursor + 1 <= Len(source)
        BY <3>2, CursorMovesByOne
      <4> SUFFICES ASSUME sync.id = research.id
                   PROVE  Cardinality(Gaps(run.cursor + 1, Len(source), research.id,
                                           ForwardedRefs')) <= crashes + 1
        BY <1>0, <2>1, <2>2, <4>1 DEF SoundAfter, SoundNow
      <4>2. Cardinality(Gaps(run.cursor, Len(source), research.id, ForwardedRefs)) <= crashes
        BY <2>2, <4>1 DEF SoundNow
      <4>3. ForwardedRefs' = ForwardedRefs
        BY <2>1 DEF ForwardedRefs
      <4>4. /\ Cardinality(Gaps(run.cursor, Len(source), research.id, ForwardedRefs)) \in Nat
            /\ Cardinality(Gaps(run.cursor + 1, Len(source), research.id, ForwardedRefs)) \in Nat
        BY <1>0, GapsAreFinite
      <4>5. Cardinality(Gaps(run.cursor + 1, Len(source), research.id, ForwardedRefs))
              <= Cardinality(Gaps(run.cursor, Len(source), research.id, ForwardedRefs)) + 1
        BY <1>0, CrashLeavesOneGap
      <4> QED BY <1>0, <4>2, <4>3, <4>4, <4>5
    <3> QED BY <2>1, <3>1, <3>2
  <2>4. CursorIsSound(run)' /\ CursorIsSound(worker.copy)'
    BY <2>1, <2>3, NoRunIsSound, SoundByGaps DEF Off
  <2> QED BY <1>0, <2>1, <2>4 DEF CursorInv, NoSync, Off
<1> QED BY <1>1, <1>2

-----------------------------------------------------------------------------
(* The end of the research. *)
OpenWork(len, n, refs, events) ==
    {i \in 1..len : <<n, i>> \notin refs /\ ~IsEvidence(events[i])}

LEMMA UntoldIsOpenWork ==
    /\ Untold = OpenWork(Len(source), research.id, ForwardedRefs, source)
    /\ Untold' = OpenWork(Len(source'), research'.id, ForwardedRefs', source')
BY DEF Untold, Missing, OpenWork

(* Evidence at the end of the log opens nothing. *)
LEMMA UntoldStays ==
    ASSUME EventInv, SavedTypes', [Next]_vars, crashes' = crashes,
           research'.id = research.id, Len(source) <= Len(source'),
           \A i \in 1..Len(source) : source'[i] = source[i],
           \A i \in (Len(source) + 1)..Len(source') : IsEvidence(source'[i]),
           Cardinality(Untold) <= crashes
    PROVE  Cardinality(Untold') <= crashes'
<1>0. Len(source) \in Nat /\ Len(source') \in Nat /\ crashes \in Nat
  BY DEF EventInv, SavedTypes
<1> DEFINE now == OpenWork(Len(source), research.id, ForwardedRefs, source)
           next == OpenWork(Len(source'), research'.id, ForwardedRefs', source')
<1>1. next \in SUBSET now
  BY <1>0, LogGrows DEF OpenWork
<1>2. IsFiniteSet(now)
  <2>1. IsFiniteSet(1..Len(source))
    BY <1>0, FS_Interval
  <2>2. now \in SUBSET (1..Len(source))
    BY DEF OpenWork
  <2> QED BY <2>1, <2>2, FS_Subset
<1> HIDE DEF now, next
<1>3. /\ Cardinality(next) <= Cardinality(now) /\ IsFiniteSet(next)
  BY <1>1, <1>2, FS_Subset
<1>4. Cardinality(now) \in Nat /\ Cardinality(next) \in Nat
  BY <1>2, <1>3, FS_CardinalityType
<1>5. Untold = now /\ Untold' = next
  BY UntoldIsOpenWork DEF now, next
<1> QED BY <1>0, <1>3, <1>4, <1>5

(* Who leaves the coordinator and its log alone. *)
LEMMA EndFrame ==
    ASSUME EventInv, SavedTypes', [Next]_vars,
           UNCHANGED <<research, source, held, crashes>>,
           worker'.at \in {"last", "done"} => worker'.at = worker.at,
           worker.at # "last" \/ UNCHANGED <<sync, run>>
    PROVE  EndInv'
<1>0. Len(source) \in Nat
  BY DEF EventInv, SavedTypes
<1>1. ASSUME worker'.at = "done" PROVE Cardinality(Untold)' <= crashes'
  <2>1. worker.at = "done"
    BY <1>1
  <2>2. Cardinality(Untold) <= crashes
    BY <2>1 DEF EventInv, EndInv
  <2> QED BY <1>0, <2>2, UntoldStays
<1>2. worker'.at \in {"last", "done"} =>
          research'.status # "live" /\ (sync'.by = "worker" \/ worker'.at = "done" => held' # "finish")
  BY DEF EventInv, EndInv
<1>3. worker'.at = "last" /\ sync'.by = "worker" /\ sync'.at = "forward"
          => run'.cursor + Len(sync'.todo) = Len(source')
  BY DEF EventInv, EndInv
<1> QED BY <1>1, <1>2, <1>3 DEF EndInv

LEMMA CoordinatorEnd ==
    ASSUME EventAssumption, EventInv, SavedTypes', MemoryTypes', Coordinator, [Next]_vars
    PROVE  EndInv'
<1>1. UNCHANGED <<run, log, worker, sync>>
  BY CoordinatorCursor
<1>2. CASE worker.at \notin {"last", "done"}
  BY <1>1, <1>2 DEF EndInv
<1>3. CASE worker.at \in {"last", "done"}
  <2>1. research.status # "live"
    BY <1>3 DEF EventInv, EndInv
  <2>2. CoordinatorTells
    BY <2>1 DEF Coordinator, AgentSaves, AgentActs, CoordinatorWorks, CoordinatorSyncs,
                CoordinatorFinishes, Working
  <2>3. held = "finish" /\ UNCHANGED research
    BY <2>2 DEF CoordinatorTells
  <2>4. worker.at = "last" /\ sync.by # "worker"
    BY <1>3, <2>3 DEF EventInv, EndInv
  <2> QED BY <1>1, <2>1, <2>3, <2>4 DEF EndInv
<1> QED BY <1>2, <1>3

LEMMA SyncEnd ==
    ASSUME EventAssumption, EventInv, SavedTypes', MemoryTypes', [Next]_vars,
           SyncStep \/ SyncBegins("stream")
             \/ (worker.at \in {"poll", "last"} /\ SyncBegins("worker"))
    PROVE  EndInv'
<1>0. /\ run \in Runs /\ crashes \in Nat /\ research.id \in Nat
      /\ source \in Seq(Events) /\ Len(source) \in Nat /\ run.cursor \in Nat
      /\ sync \in [by : Syncers \cup {"none"}, at : {"idle", "read", "forward"}, id : Nat,
                 todo : Seq([at : Nat, event : Events])]
      /\ EndInv /\ ThreadInv
  BY DEF EventInv, SavedTypes, MemoryTypes, Runs, Researches
<1>1. ASSUME NEW p \in Syncers, SyncBegins(p) PROVE EndInv'
  <2>1. /\ UNCHANGED <<research, worker, crashes, held>> /\ held = "none"
        /\ source' = IF research.id = 0 THEN source ELSE SyncedEvidence
        /\ sync'.at = "read"
    BY <1>1 DEF SyncBegins, bounds
  <2>2. /\ Len(source) <= Len(source') /\ \A i \in 1..Len(source) : source'[i] = source[i]
        /\ \A i \in (Len(source) + 1)..Len(source') : IsEvidence(source'[i])
    BY <1>0, <2>1, EvidenceIsAppended DEF EventInv
  <2>3. worker.at = "done" => Cardinality(Untold') <= crashes'
    BY <1>0, <2>1, <2>2, UntoldStays DEF EndInv
  <2> QED BY <1>0, <2>1, <2>3 DEF EndInv
<1>2. CASE SyncRead
  <2>1. /\ UNCHANGED <<run, source, research, worker, held, crashes>>
        /\ sync.at = "read" /\ sync'.by = sync.by
        /\ sync'.todo = [i \in 1..(Len(source) - run.cursor) |->
                [at |-> run.cursor + i, event |-> source[run.cursor + i]]]
    BY <1>0, <1>2 DEF SyncRead, saved, bounds
  <2>2. CASE worker.at # "last"
    BY <2>1, <2>2, EndFrame
  <2>3. CASE worker.at = "last"
    <3>1. sync.by = "worker" => run.cursor + Len(sync'.todo) = Len(source)
      <4> SUFFICES ASSUME sync.by = "worker" PROVE run.cursor + Len(sync'.todo) = Len(source)
        OBVIOUS
      <4>1. run.cursor <= Len(source)
        BY DEF EventInv, CursorInv, CursorIsSound
      <4>2. Len(source) - run.cursor \in Nat
        BY <1>0, <4>1
      <4>3. Len(sync'.todo) = Len(source) - run.cursor
        BY <2>1, <4>2
      <4> QED BY <1>0, <4>3
    <3> QED BY <1>0, <2>1, <2>3, <3>1 DEF EndInv
  <2> QED BY <2>2, <2>3
<1>3. CASE SyncForwards
  <2>1. /\ sync.todo # <<>> /\ UNCHANGED <<source, research, worker, held, crashes>>
        /\ run' = CursorSaved
        /\ sync'.by = sync.by /\ sync.at = "forward" /\ sync'.todo = Tail(sync.todo)
    BY <1>0, <1>3 DEF SyncForwards, bounds
  <2>2. CASE worker.at # "last"
    BY <2>1, <2>2, EndFrame
  <2>3. CASE worker.at = "last"
    <3>1. run'.cursor = run.cursor + 1
      BY <2>1, CursorMovesByOne
    <3>2. Len(sync'.todo) = Len(sync.todo) - 1 /\ Len(sync.todo) \in Nat
      BY <2>1, FirstTodo DEF EventInv
    <3>3. run'.cursor + Len(sync'.todo) = run.cursor + Len(sync.todo)
      <4>1. \A a, b \in Nat : (a + 1) + (b - 1) = a + b
        OBVIOUS
      <4>2. run.cursor \in Nat
        BY <1>0
      <4> QED BY <3>1, <3>2, <4>1, <4>2
    <3> QED BY <1>0, <2>1, <2>3, <3>3 DEF EndInv
  <2> QED BY <2>2, <2>3
<1>4. CASE SyncShows
  BY <1>4, EndFrame DEF SyncShows, memory, bounds
<1>5. CASE SyncEnds
  <2>1. /\ UNCHANGED <<run, source, research, held, crashes, log>> /\ sync'.by = "none"
        /\ sync.at = "forward" /\ sync.todo = <<>>
    BY <1>5 DEF SyncEnds, saved, bounds, NoSync
  <2>2. CASE sync.by = "stream"
    BY <1>0, <1>5, <2>1, <2>2 DEF SyncEnds, EndInv, Untold, Missing, ForwardedRefs
  <2>3. CASE sync.by # "stream"
    <3>1. /\ sync.by = "worker" /\ worker.at \in {"poll", "last"}
          /\ At(IF worker.at = "poll" THEN "look" ELSE AfterResearch)
      BY <1>0, <1>5, <2>1, <2>3 DEF SyncEnds, ThreadInv, Syncers
    <3>2. CASE worker.at = "poll"
      BY <3>1, <3>2 DEF At, Off, EndInv
    <3>3. CASE worker.at = "last"
      <4>1. worker'.at \in {"stop", "fail", "done"}
        BY <3>1, <3>3 DEF At, Off, AfterResearch
      <4>2. run.cursor = Len(source)
        <5>1. Len(sync.todo) = 0
          BY <2>1
        <5> QED BY <1>0, <2>1, <3>1, <3>3, <5>1 DEF EndInv
      <4>3. run.research = research.id
        BY <2>1, <3>1 DEF EventInv, CursorInv
      <4>4. Cardinality(Gaps(Len(source), Len(source), research.id, ForwardedRefs)) <= crashes
        BY <4>2, <4>3, SoundByGaps DEF EventInv, CursorInv, SoundNow
      <4>5. Untold \in SUBSET Gaps(Len(source), Len(source), research.id, ForwardedRefs)
        BY <1>0 DEF Untold, Missing, Gaps
      <4>6. Cardinality(Untold) <= crashes
        <5>1. /\ IsFiniteSet(Gaps(Len(source), Len(source), research.id, ForwardedRefs))
              /\ Cardinality(Gaps(Len(source), Len(source), research.id, ForwardedRefs)) \in Nat
          BY <1>0, GapsAreFinite
        <5>2. /\ IsFiniteSet(Untold)
              /\ Cardinality(Untold) <=
                    Cardinality(Gaps(Len(source), Len(source), research.id, ForwardedRefs))
          BY <4>5, <5>1, FS_Subset
        <5>3. Cardinality(Untold) \in Nat
          BY <5>2, FS_CardinalityType
        <5> QED BY <1>0, <4>4, <5>1, <5>2, <5>3
      <4>7. Cardinality(Untold)' <= crashes'
        BY <2>1, <4>6 DEF Untold, Missing, ForwardedRefs
      <4>8. research.status # "live" /\ held # "finish"
        BY <1>0, <3>1, <3>3 DEF EndInv
      <4> QED BY <2>1, <4>1, <4>7, <4>8 DEF EndInv
    <3> QED BY <3>1, <3>2, <3>3
  <2> QED BY <2>2, <2>3
<1> QED BY <1>1, <1>2, <1>3, <1>4, <1>5 DEF SyncStep, Syncers

LEMMA OthersEnd ==
    ASSUME EventAssumption, EventInv, SavedTypes', MemoryTypes', [Next]_vars,
           \/ Loads \/ Saves \/ SavesEnd \/ AppendsEnd \/ Appends \/ Submits \/ Clears \/ Looks
           \/ Submit \/ RequestStop \/ Reconcile \/ Crash
    PROVE  EndInv'
<1>0. ThreadInv /\ MemoryTypes
  BY DEF EventInv
<1>1. CASE Loads \/ Saves
  <2>1. /\ UNCHANGED <<research, source, held, crashes>>
        /\ worker.at \in {"start", "done", "finish", "fail", "stop"}
        /\ worker'.at = worker.at \/ worker'.at = "stop"
    BY <1>0, <1>1 DEF Loads, Saves, saved, bounds, MemoryTypes
  <2> QED BY <2>1, EndFrame
<1>2. CASE AppendsEnd \/ RequestStop \/ Reconcile
  <2>1. /\ UNCHANGED <<research, source, held, crashes>>
        /\ worker'.at \in {worker.at, "off"}
    BY <1>2 DEF AppendsEnd, RequestStop, Reconcile, bounds, memory, Off
  <2>2. worker.at # "last" \/ UNCHANGED <<sync, run>> \/ RequestStop
    BY <1>2 DEF AppendsEnd, Reconcile
  <2>3. CASE RequestStop /\ worker.at = "last"
    <3>1. sync'.by = "none" /\ worker'.at = "last"
      BY <2>3 DEF RequestStop, LockFree, NotStarted
    <3> QED BY <2>1, <2>3, <3>1 DEF EventInv, EndInv
  <2> QED BY <2>1, <2>2, <2>3, EndFrame
<1>3. CASE SavesEnd \/ Appends \/ Submits \/ Clears \/ Submit \/ Crash
  <2>1. worker'.at \notin {"last", "done"} \/ (Submits /\ worker'.at = "poll")
    BY <1>0, <1>3 DEF SavesEnd, Appends, Submits, Clears, Submit, Crash, At, Off, After,
                      ThreadInv
  <2> QED BY <2>1 DEF EndInv
<1>4. CASE Looks
  <2>1. /\ worker.at = "look" /\ UNCHANGED <<research, held, sync>>
        /\ worker'.at \in {"poll", "last"}
        /\ worker'.at = "last" => research.status # "live"
    BY <1>4 DEF Looks, saved, At, Off
  <2>2. sync.by # "worker"
    BY <1>0, <2>1 DEF ThreadInv
  <2> QED BY <2>1, <2>2 DEF EndInv
<1> QED BY <1>1, <1>2, <1>3, <1>4

-----------------------------------------------------------------------------
(* Once. *)

(* An action only gets into the log where SyncShows puts it. *)
LEMMA OtherEntries ==
    ASSUME EventInv, [Next]_vars, ~SyncShows
    PROVE  \A i \in DOMAIN log' : log'[i].kind = "action" => i \in DOMAIN log /\ log'[i] = log[i]
<1>0. log \in Seq(Entries) /\ Len(log) \in Nat /\ DOMAIN log = 1..Len(log)
  BY DEF EventInv, SavedTypes
<1>1. /\ \A s : Own(s).kind # "action"
      /\ \A n, i, e : Forwarded(n, i, e).kind # "action"
  BY DEF Own, Forwarded
<1>2. ASSUME NEW e, log' = Append(log, e), e.kind # "action"
      PROVE  \A i \in DOMAIN log' : log'[i].kind = "action"
                => i \in DOMAIN log /\ log'[i] = log[i]
  <2>1. DOMAIN log' = 1..(Len(log) + 1) /\ log'[Len(log) + 1] = e
        /\ \A i \in 1..Len(log) : log'[i] = log[i]
    BY <1>0, <1>2
  <2> QED BY <1>0, <1>2, <2>1
<1>3. CASE UNCHANGED log
  BY <1>3
<1>4. CASE SyncForwards
  <2>1. \E e : log' = Append(log, e) /\ e.kind # "action"
    BY <1>1, <1>4 DEF SyncForwards
  <2> QED BY <1>2, <2>1
<1>5. CASE Appends \/ AppendsEnd \/ Submit \/ Reconcile
  <2>1. UNCHANGED log \/ \E e : log' = Append(log, e) /\ e.kind # "action"
    BY <1>1, <1>5 DEF Appends, AppendsEnd, Submit, Reconcile
  <2> QED BY <1>2, <1>3, <2>1
<1>6. CASE RequestStop
  <2> DEFINE l == Append(log, Own("stopping"))
  <2>1. /\ l \in Seq(Entries) /\ Len(l) = Len(log) + 1
        /\ \A i \in 1..Len(log) : l[i] = log[i]
        /\ l[Len(log) + 1] = Own("stopping")
    <3>1. Own("stopping") \in Entries
      BY EntryTypes DEF Statuses, Active
    <3> QED BY <1>0, <3>1
  <2>2. log' = l \o <<>> \/ log' = l \o <<Own("stopped")>>
    BY <1>6 DEF RequestStop
  <2> HIDE DEF l
  <2>4. l[Len(log) + 1].kind # "action" /\ Own("stopped").kind # "action"
    <3>1. Own("stopping").kind # "action" /\ Own("stopped").kind # "action"
      BY <1>1
    <3>2. l[Len(log) + 1] = Own("stopping")
      BY <2>1
    <3> QED BY <3>1, <3>2, Zenon
  <2>3. ASSUME NEW i \in DOMAIN log', log'[i].kind = "action"
        PROVE  i \in DOMAIN log /\ log'[i] = log[i]
    <3>1. CASE log' = l \o <<>>
      <4>1. DOMAIN log' = 1..(Len(log) + 1) /\ log'[i] = l[i]
        BY <1>0, <2>1, <2>3, <3>1
      <4>2. i # Len(log) + 1
        BY <2>3, <2>4, <4>1
      <4>3. i \in 1..Len(log)
        BY <1>0, <2>3, <4>1, <4>2
      <4> QED BY <1>0, <2>1, <4>1, <4>3
    <3>2. CASE log' = l \o <<Own("stopped")>>
      <4>1. /\ DOMAIN log' = 1..(Len(log) + 2)
            /\ i <= Len(log) + 1 => log'[i] = l[i]
            /\ i = Len(log) + 2 => log'[i] = Own("stopped")
        <5>1. Own("stopped") \in Entries
          BY EntryTypes DEF Statuses, Terminal
        <5> QED BY <1>0, <2>1, <2>3, <3>2, <5>1
      <4>2. i \in Nat /\ i # Len(log) + 2
        BY <1>0, <2>3, <2>4, <4>1
      <4>3. i # Len(log) + 1
        <5>1. i = Len(log) + 1 => log'[i] = l[Len(log) + 1]
          BY <1>0, <4>1
        <5> QED BY <2>3, <2>4, <5>1
      <4>4. i \in 1..Len(log)
        BY <1>0, <2>3, <4>1, <4>2, <4>3
      <4> QED BY <1>0, <2>1, <4>1, <4>4
    <3> QED BY <2>2, <3>1, <3>2
  <2> QED BY <2>3
<1>7. UNCHANGED log \/ SyncForwards \/ Appends \/ AppendsEnd \/ Submit \/ Reconcile \/ RequestStop
  <2>1. CASE UNCHANGED vars
    BY <2>1 DEF vars, eventVars, saved
  <2>2. CASE Coordinator
    BY <2>2 DEF Coordinator, AgentSaves, AgentActs, CoordinatorWorks, CoordinatorSyncs,
                CoordinatorFinishes, CoordinatorTells
  <2>3. CASE SyncStep \/ \E p \in Syncers : SyncBegins(p)
    BY <2>3 DEF SyncStep, SyncRead, SyncEnds, SyncBegins, saved
  <2>4. CASE Worker /\ ~\E p \in Syncers : SyncBegins(p)
    BY <2>4 DEF Worker, Syncers, Loads, Saves, SavesEnd, Submits, Clears, Looks, saved
  <2>5. CASE Crash
    BY <2>5 DEF Crash
  <2> QED BY <2>1, <2>2, <2>3, <2>4, <2>5 DEF Next, Syncers
<1> QED BY <1>3, <1>4, <1>5, <1>6, <1>7

LEMMA ActionsStayOnce ==
    ASSUME EventInv, [Next]_vars
    PROVE  ActionsShownOnce'
<1>0. log \in Seq(Entries) /\ Len(log) \in Nat /\ DOMAIN log = 1..Len(log) /\ ActionsShownOnce
  BY DEF EventInv, SavedTypes, OnceInv
<1>1. CASE ~SyncShows
  BY <1>0, <1>1, OtherEntries DEF ActionsShownOnce
<1>2. CASE SyncShows
  <2>1. PICK a \in NewActions : log' = Append(log, Shown(a))
    BY <1>2 DEF SyncShows
  <2>2. ~IsShown(a)
    BY <2>1 DEF NewActions
  <2>3. /\ DOMAIN log' = 1..(Len(log) + 1) /\ log'[Len(log) + 1] = Shown(a)
        /\ \A i \in 1..Len(log) : log'[i] = log[i]
    BY <1>0, <2>1
  <2>4. Shown(a).ref = <<a>>
    BY DEF Shown
  <2> SUFFICES ASSUME NEW i \in DOMAIN log', NEW j \in DOMAIN log', log'[i].kind = "action",
                      log'[j].kind = "action", log'[i].ref = log'[j].ref
               PROVE  i = j
    BY DEF ActionsShownOnce
  <2>5. CASE i <= Len(log) /\ j <= Len(log)
    BY <1>0, <2>3, <2>5 DEF ActionsShownOnce
  <2>6. CASE i = Len(log) + 1 /\ j = Len(log) + 1
    BY <2>6
  <2>7. CASE i <= Len(log) /\ j = Len(log) + 1
    <3>1. i \in DOMAIN log /\ log[i].kind = "action" /\ log[i].ref = <<a>>
      BY <1>0, <2>3, <2>4, <2>7
    <3> QED BY <2>2, <3>1 DEF IsShown
  <2>8. CASE i = Len(log) + 1 /\ j <= Len(log)
    <3>1. j \in DOMAIN log /\ log[j].kind = "action" /\ log[j].ref = <<a>>
      BY <1>0, <2>3, <2>4, <2>8
    <3> QED BY <2>2, <3>1 DEF IsShown
  <2> QED BY <1>0, <2>3, <2>5, <2>6, <2>7, <2>8
<1> QED BY <1>1, <1>2

LEMMA EvidenceStaysOnce ==
    ASSUME EventAssumption, EventInv, [Next]_vars
    PROVE  (\A i, j \in DOMAIN source :
              IsEvidence(source[i]) /\ source[i].about = source[j].about
                /\ source[i].status = source[j].status => i = j)'
<1>0. /\ source \in Seq(Events) /\ Len(source) \in Nat /\ DOMAIN source = 1..Len(source)
      /\ Work(research.id) \in Events
      /\ \A i, j \in DOMAIN source :
          IsEvidence(source[i]) /\ source[i].about = source[j].about
            /\ source[i].status = source[j].status => i = j
  BY DEF EventInv, SavedTypes, OnceInv, Work, Events, Researches
<1>1. CASE UNCHANGED source
  BY <1>0, <1>1
<1>2. CASE source' = Append(source, Work(research.id))
  <2>1. /\ DOMAIN source' = 1..(Len(source) + 1) /\ source'[Len(source) + 1] = Work(research.id)
        /\ \A i \in 1..Len(source) : source'[i] = source[i]
    BY <1>0, <1>2
  <2>2. Work(research.id).about = "work"
    BY DEF Work
  <2> QED BY <1>0, <2>1, <2>2 DEF IsEvidence
<1>3. CASE source' = <<Work(research.id)>>
  BY <1>3
<1>4. CASE source' = SyncedEvidence
  <2>1. /\ SyncedEvidence \in Seq(Events) /\ Len(SyncedEvidence) >= Len(source)
        /\ \A i \in 1..Len(source) : SyncedEvidence[i] = source[i]
        /\ \A i \in (Len(source) + 1)..Len(SyncedEvidence) :
                 ~Emitted(SyncedEvidence[i].about, SyncedEvidence[i].status)
        /\ \A i, j \in (Len(source) + 1)..Len(SyncedEvidence) :
                 /\ SyncedEvidence[i].about = SyncedEvidence[j].about
                 /\ SyncedEvidence[i].status = SyncedEvidence[j].status
                 => i = j
    BY EvidenceIsAppended DEF EventInv
  <2> SUFFICES ASSUME NEW i \in DOMAIN source', NEW j \in DOMAIN source',
                      IsEvidence(source'[i]), source'[i].about = source'[j].about,
                      source'[i].status = source'[j].status
               PROVE  i = j
    OBVIOUS
  <2>2. /\ Len(SyncedEvidence) \in Nat /\ i \in 1..Len(SyncedEvidence)
        /\ j \in 1..Len(SyncedEvidence)
    BY <1>4, <2>1
  <2>3. CASE i <= Len(source) /\ j <= Len(source)
    BY <1>0, <1>4, <2>1, <2>2, <2>3
  <2>4. CASE i > Len(source) /\ j > Len(source)
    BY <1>0, <1>4, <2>1, <2>2, <2>4
  <2>5. CASE i <= Len(source) /\ j > Len(source)
    BY <1>0, <1>4, <2>1, <2>2, <2>5 DEF Emitted
  <2>6. CASE i > Len(source) /\ j <= Len(source)
    BY <1>0, <1>4, <2>1, <2>2, <2>6 DEF Emitted
  <2> QED BY <1>0, <2>2, <2>3, <2>4, <2>5, <2>6
<1>5. \/ UNCHANGED source \/ source' = Append(source, Work(research.id))
      \/ source' = <<Work(research.id)>> \/ source' = SyncedEvidence
  <2>1. CASE UNCHANGED vars
    BY <2>1 DEF vars, eventVars, saved
  <2>2. CASE Coordinator
    BY <2>2 DEF Coordinator, AgentSaves, AgentActs, CoordinatorWorks, CoordinatorSyncs,
                CoordinatorFinishes, CoordinatorTells
  <2>3. CASE SyncStep \/ \E p \in Syncers : SyncBegins(p)
    BY <2>3 DEF SyncStep, SyncRead, SyncForwards, SyncShows, SyncEnds, SyncBegins, saved
  <2>4. CASE Worker /\ ~\E p \in Syncers : SyncBegins(p)
    BY <2>4 DEF Worker, Syncers, Loads, Saves, SavesEnd, AppendsEnd, Appends, Submits, Clears,
                Looks, saved
  <2>5. CASE Submit \/ RequestStop \/ Reconcile \/ Crash
    BY <2>5 DEF Submit, RequestStop, Reconcile, Crash
  <2> QED BY <2>1, <2>2, <2>3, <2>4, <2>5 DEF Next, Syncers
<1> QED BY <1>1, <1>2, <1>3, <1>4, <1>5

-----------------------------------------------------------------------------
(* Together. *)

LEMMA EventsNext ==
    ASSUME EventAssumption, EventInv, [Next]_vars
    PROVE  EventInv'
<1>1. /\ ActionsShownOnce'
      /\ (\A i, j \in DOMAIN source :
            IsEvidence(source[i]) /\ source[i].about = source[j].about
              /\ source[i].status = source[j].status => i = j)'
  BY ActionsStayOnce, EvidenceStaysOnce
<1>2. OnceInv'
  BY <1>1 DEF OnceInv
<1>3. CASE Coordinator
  <2>1. SavedTypes' /\ MemoryTypes'
    BY <1>3, CoordinatorTypes
  <2>2. ThreadInv'
    BY <1>3, CoordinatorThread
  <2>3. CursorInv' /\ EndInv'
    BY <1>3, <2>1, CoordinatorCursor, CoordinatorEnd
  <2> QED BY <1>2, <2>1, <2>2, <2>3 DEF EventInv
<1>4. CASE SyncStep \/ SyncBegins("stream")
             \/ (worker.at \in {"poll", "last"} /\ SyncBegins("worker"))
  <2>1. SavedTypes' /\ MemoryTypes'
    <3>1. SyncStep \/ \E p \in Syncers : SyncBegins(p)
      BY <1>4 DEF Syncers
    <3> QED BY <3>1, SyncTypes
  <2>2. ThreadInv'
    BY <1>4, SyncThread
  <2>3. CursorInv' /\ EndInv'
    BY <1>4, <2>1, SyncCursor, SyncEnd
  <2> QED BY <1>2, <2>1, <2>2, <2>3 DEF EventInv
<1>5. CASE Loads \/ Saves \/ SavesEnd \/ AppendsEnd \/ Appends \/ Submits \/ Clears \/ Looks
  <2>1. SavedTypes' /\ MemoryTypes'
    BY <1>5, WorkerTypes
  <2>2. ThreadInv'
    BY <1>5, WorkerThread
  <2>3. CursorInv' /\ EndInv'
    BY <1>5, <2>1, WorkerCursor, OthersEnd
  <2> QED BY <1>2, <2>1, <2>2, <2>3 DEF EventInv
<1>6. CASE Submit \/ RequestStop \/ Reconcile \/ Crash
  <2>1. SavedTypes' /\ MemoryTypes'
    BY <1>6, ApiTypes
  <2>2. ThreadInv'
    BY <1>6, ApiThread
  <2>3. CursorInv' /\ EndInv'
    BY <1>6, <2>1, ApiCursor, OthersEnd
  <2> QED BY <1>2, <2>1, <2>2, <2>3 DEF EventInv
<1>7. CASE UNCHANGED vars
  <2>1. /\ UNCHANGED <<run, log, research, source, found, acted>>
        /\ UNCHANGED <<held, sync, worker, owed, turns, crashes, raced>>
    BY <1>7 DEF vars, eventVars, saved, memory, bounds
  <2>2. ForwardedRefs' = ForwardedRefs
    BY <2>1 DEF ForwardedRefs
  <2>3. CursorIsSound(run)' <=> CursorIsSound(run)
    BY <2>1, <2>2 DEF CursorIsSound, Missing
  <2>4. CursorIsSound(worker.copy)' <=> CursorIsSound(worker.copy)
    BY <2>1, <2>2 DEF CursorIsSound, Missing
  <2>5. Untold' = Untold
    BY <2>1, <2>2 DEF Untold, Missing
  <2>6. SavedTypes' /\ MemoryTypes' /\ ThreadInv'
    BY <2>1 DEF EventInv, SavedTypes, MemoryTypes, ThreadInv
  <2>7. CursorInv'
    BY <2>1, <2>3, <2>4 DEF EventInv, CursorInv
  <2>8. EndInv'
    BY <2>1, <2>5 DEF EventInv, EndInv
  <2> QED BY <1>2, <2>6, <2>7, <2>8 DEF EventInv
<1> QED BY <1>3, <1>4, <1>5, <1>6, <1>7 DEF Next, Worker

LEMMA EventsAlways == ASSUME EventAssumption PROVE Spec => []EventInv
<1>1. Init => EventInv
  BY EventsInit
<1>2. EventInv /\ [Next]_vars => EventInv'
  BY EventsNext
<1> QED BY <1>1, <1>2, PTL DEF Spec

(* What happened in the research is told, all of it and once: however the  *)
(* projections of the worker and of the event streams, saves of copies     *)
(* they have made stale, stops, resumes and restarts meet, no event of the *)
(* coordinator is skipped but for one per restart, and no action and no    *)
(* evidence is told again (sync_research_events and sync_evidence_events). *)
THEOREM ResearchIsToldOnce == ASSUME EventAssumption PROVE Spec => []EventsAreTold
<1> DEFINE seen == [i \in DOMAIN log |-> [status |-> log[i].status, kind |-> Kind(log[i])]]
<1>1. ASSUME EventInv PROVE EventsAreTold
  <2> USE <1>1
  <2>1. SavedTypes /\ MemoryTypes /\ ThreadInv /\ CursorInv /\ EndInv /\ OnceInv
    BY DEF EventInv
  <2>2. TypeOK
    <3>1. seen \in Seq([status : Followed!Active \cup Followed!Terminal, kind : Followed!Kinds])
      <4>1. /\ Len(log) \in Nat /\ DOMAIN log = 1..Len(log)
            /\ \A i \in 1..Len(log) : log[i] \in Entries
        BY <2>1 DEF SavedTypes
      <4>2. \A i \in 1..Len(log) : [status |-> log[i].status, kind |-> Kind(log[i])]
              \in [status : Followed!Active \cup Followed!Terminal, kind : Followed!Kinds]
        BY <4>1 DEF Entries, Statuses, Active, Terminal, Kind, Followed!Active,
                    Followed!Terminal, Followed!Kinds
      <4> QED BY <4>1, <4>2, TupleIsSeq
    <3>2. /\ run.status \in Followed!Active \cup Followed!Terminal \cup {"none"}
          /\ run.stop \in BOOLEAN
          /\ owed \in {"none", "completed", "failed", "stopped"}
      BY <2>1 DEF SavedTypes, MemoryTypes, Runs, Statuses, Active, Terminal,
                  Followed!Active, Followed!Terminal
    <3>3. Followed!LogTypeOK
      BY <3>1, <3>2 DEF Followed!LogTypeOK
    <3>4. /\ run.cursor \in Nat /\ run.research \in Nat /\ run.research <= research.id
          /\ research.id \in Nat
      BY <2>1 DEF SavedTypes, CursorInv, CursorIsSound, Runs, Researches
    <3> QED BY <2>1, <3>3, <3>4
         DEF TypeOK, SavedTypes, MemoryTypes, Researches
  <2>3. NothingSkipped
    BY <2>1 DEF NothingSkipped, CursorInv, CursorIsSound
  <2>4. ResearchIsTold
    BY <2>1 DEF ResearchIsTold, EndInv, Untold
  <2>5. ActionsShownOnce /\ EvidenceToldOnce
    BY <2>1 DEF OnceInv, EvidenceToldOnce
  <2> QED BY <2>2, <2>3, <2>4, <2>5 DEF EventsAreTold
<1> QED BY <1>1, EventsAlways, PTL

-----------------------------------------------------------------------------
(* What a reader of the log sees. *)

Seen(e)   == [status |-> e.status, kind |-> Kind(e)]
SeenOf(l) == [i \in DOMAIN l |-> Seen(l[i])]
Thread    == IF worker.at = "off" THEN "off" ELSE IF NotStarted THEN "queued" ELSE "running"

LEMMA SeenAppend ==
    ASSUME NEW l \in Seq(Entries), NEW e \in Entries
    PROVE  /\ SeenOf(Append(l, e)) = Append(SeenOf(l), Seen(e))
           /\ Append(l, e) \in Seq(Entries)
<1>1. /\ Len(l) \in Nat /\ DOMAIN l = 1..Len(l)
      /\ Append(l, e) \in Seq(Entries) /\ Len(Append(l, e)) = Len(l) + 1
      /\ DOMAIN Append(l, e) = 1..(Len(l) + 1)
      /\ \A i \in 1..Len(l) : Append(l, e)[i] = l[i]
      /\ Append(l, e)[Len(l) + 1] = e
  OBVIOUS
<1> DEFINE m == [i \in 1..Len(l) |-> Seen(l[i])]
<1>2. SeenOf(l) = m
  BY <1>1 DEF SeenOf
<1>3. m \in Seq({Seen(x) : x \in Entries})
  <2>1. \A i \in 1..Len(l) : l[i] \in Entries
    OBVIOUS
  <2>2. m \in [1..Len(l) -> {Seen(x) : x \in Entries}]
    BY <2>1
  <2> QED BY <1>1, <2>2, TupleIsSeq
<1>4. Append(m, Seen(e)) = [i \in 1..(Len(l) + 1) |-> IF i <= Len(l) THEN m[i] ELSE Seen(e)]
  BY <1>1, <1>3
<1>5. SeenOf(Append(l, e))
        = [i \in 1..(Len(l) + 1) |-> IF i <= Len(l) THEN m[i] ELSE Seen(e)]
  <2>1. SeenOf(Append(l, e)) = [i \in 1..(Len(l) + 1) |-> Seen(Append(l, e)[i])]
    BY <1>1 DEF SeenOf
  <2>2. \A i \in 1..(Len(l) + 1) :
          Seen(Append(l, e)[i]) = IF i <= Len(l) THEN m[i] ELSE Seen(e)
    <3> SUFFICES ASSUME NEW i \in 1..(Len(l) + 1)
                 PROVE  Seen(Append(l, e)[i]) = IF i <= Len(l) THEN m[i] ELSE Seen(e)
      OBVIOUS
    <3>1. CASE i \in 1..Len(l)
      <4>1. Append(l, e)[i] = l[i] /\ m[i] = Seen(l[i]) /\ i <= Len(l)
        BY <1>1, <3>1
      <4> QED BY <4>1
    <3>2. CASE i = Len(l) + 1
      <4>1. Append(l, e)[i] = e /\ ~(i <= Len(l))
        BY <1>1, <3>2
      <4> QED BY <4>1
    <3> QED BY <1>1, <3>1, <3>2
  <2> QED BY <2>1, <2>2
<1> QED BY <1>1, <1>2, <1>4, <1>5

(* The reader sees that a stop was told when it was. *)
LEMMA StopIsSeen ==
    ASSUME SavedTypes
    PROVE  (\E i \in DOMAIN SeenOf(log) : SeenOf(log)[i] = [status |-> "stopped", kind |-> "own"])
             <=> StopIsTold
<1>1. DOMAIN SeenOf(log) = DOMAIN log
      /\ \A i \in DOMAIN log : SeenOf(log)[i] = Seen(log[i])
  BY DEF SeenOf
<1>2. \A i \in DOMAIN log : Seen(log[i]) = [status |-> "stopped", kind |-> "own"]
                              <=> log[i].kind = "own" /\ log[i].status = "stopped"
  BY DEF Seen, Kind
<1> QED BY <1>1, <1>2 DEF StopIsTold

LEMMA OwnIsSeen ==
    ASSUME NEW s \in Statuses
    PROVE  Own(s) \in Entries /\ Seen(Own(s)) = [status |-> s, kind |-> "own"]
BY DEF Own, Entries, Refs, Seen, Kind

(* What a step shows of itself. *)
LEMMA ShownStep ==
    /\ Followed!StopIsTold
         <=> \E i \in DOMAIN SeenOf(log) : SeenOf(log)[i] = [status |-> "stopped", kind |-> "own"]
    /\ Followed!LogForwards <=>
          /\ run.status # "none"
          /\ \E k \in {"evidence", "other"} :
                SeenOf(log') = Append(SeenOf(log), [status |-> run.status, kind |-> k])
          /\ UNCHANGED <<run.status, run.stop, Thread, owed>>
    /\ UNCHANGED <<run.status, run.stop, log, Thread, owed>> => UNCHANGED Followed!logVars
BY DEF Followed!StopIsTold, Followed!LogForwards, Followed!logVars, Followed!Own, SeenOf, Seen, Thread

LEMMA SeenTypes ==
    ASSUME NEW l \in Seq(Entries)
    PROVE  SeenOf(l) \in Seq({Seen(x) : x \in Entries})
<1>1. /\ Len(l) \in Nat /\ DOMAIN l = 1..Len(l)
      /\ \A i \in 1..Len(l) : l[i] \in Entries
  OBVIOUS
<1>2. SeenOf(l) \in [1..Len(l) -> {Seen(x) : x \in Entries}]
  BY <1>1 DEF SeenOf
<1> QED BY <1>1, <1>2, TupleIsSeq

LEMMA AppendIsConcat ==
    ASSUME NEW T, NEW s \in Seq(T), NEW e PROVE Append(s, e) = s \o <<e>>
OBVIOUS

(* The coordinator's steps, and the projection's up to an event, show the  *)
(* reader nothing; the event is one that is forwarded.                     *)
LEMMA ProjectionShows ==
    ASSUME EventInv,
           \/ Coordinator \/ SyncStep \/ SyncBegins("stream")
           \/ worker.at \in {"poll", "last"} /\ SyncBegins("worker")
    PROVE  [Followed!LogNext]_Followed!logVars
<1>0. /\ SavedTypes /\ MemoryTypes /\ ThreadInv
      /\ run \in Runs /\ log \in Seq(Entries)
  BY DEF EventInv, SavedTypes
<1>1. CASE Coordinator
  <2>1. UNCHANGED <<run, log, worker, owed>>
    BY <1>1 DEF Coordinator, AgentSaves, AgentActs, CoordinatorWorks, CoordinatorSyncs,
                CoordinatorFinishes, CoordinatorTells, memory
  <2> QED BY <2>1, ShownStep DEF Thread, NotStarted
<1>2. CASE SyncBegins("stream") \/ SyncBegins("worker")
  <2>1. UNCHANGED <<log, worker, owed>> /\ run' = Identified
    BY <1>2 DEF SyncBegins
  <2>2. run'.status = run.status /\ run'.stop = run.stop
    BY <1>0, <2>1 DEF Identified, Runs
  <2> QED BY <2>1, <2>2, ShownStep DEF Thread, NotStarted
<1>3. CASE SyncRead
  BY <1>3, ShownStep DEF SyncRead, saved, Thread, NotStarted
<1>4. CASE SyncEnds
  <2>1. UNCHANGED <<run, log, owed>>
    BY <1>4 DEF SyncEnds, saved
  <2>2. UNCHANGED Thread
    <3>1. CASE UNCHANGED worker
      BY <3>1 DEF Thread, NotStarted
    <3>2. CASE worker' # worker
      <4>1. /\ sync.by = "worker" /\ worker.at \in {"poll", "last"}
            /\ worker'.at \in {"look", "stop", "done", "fail"}
        BY <1>0, <1>4, <3>2 DEF SyncEnds, ThreadInv, MemoryTypes, Syncers, At, Off, AfterResearch
      <4> QED BY <4>1 DEF Thread, NotStarted
    <3> QED BY <3>1, <3>2
  <2> QED BY <2>1, <2>2, ShownStep
<1>5. CASE SyncForwards
  <2> DEFINE e == Forwarded(sync.id, Head(sync.todo).at, Head(sync.todo).event)
  <2>1. /\ UNCHANGED <<worker, owed>> /\ log' = Append(log, e) /\ run' = CursorSaved
        /\ sync.todo # <<>>
    BY <1>5 DEF SyncForwards
  <2>2. run'.status = run.status /\ run'.stop = run.stop
    BY <1>0, <2>1 DEF CursorSaved, Runs
  <2>3. run.status # "none"
    BY <1>0, <2>1 DEF ThreadInv, MemoryTypes, Syncers
  <2>4. e \in Entries
    <3>1. sync.by # "none"
      BY <1>0, <1>5 DEF SyncForwards, ThreadInv
    <3>2. sync.id \in Nat /\ Head(sync.todo).at \in Nat /\ run.status \in Statuses
      BY <1>0, <2>1, <2>3, FirstTodo DEF MemoryTypes, Runs
    <3> QED BY <3>2 DEF Forwarded, Entries, Refs
  <2>5. \E k \in {"evidence", "other"} : Seen(e) = [status |-> run.status, kind |-> k]
    BY DEF Seen, Kind, Forwarded
  <2> HIDE DEF e
  <2>6. SeenOf(log') = Append(SeenOf(log), Seen(e))
    BY <1>0, <2>1, <2>4, SeenAppend
  <2>7. Followed!LogForwards
    BY <2>1, <2>2, <2>3, <2>5, <2>6, ShownStep DEF Thread, NotStarted
  <2> QED BY <2>7 DEF Followed!LogNext
<1>6. CASE SyncShows
  <2>1. PICK a \in NewActions : log' = Append(log, Shown(a))
    BY <1>6 DEF SyncShows
  <2>2. UNCHANGED <<run, worker, owed>>
    BY <1>6 DEF SyncShows, memory
  <2>3. run.status \in Statuses /\ run.status # "none" /\ a \in Actions
    BY <1>0, <2>1 DEF NewActions, Statuses, Active, SavedTypes
  <2>4. Shown(a) \in Entries /\ Seen(Shown(a)) = [status |-> run.status, kind |-> "other"]
    BY <2>3 DEF Shown, Entries, Refs, Seen, Kind
  <2>5. SeenOf(log') = Append(SeenOf(log), Seen(Shown(a)))
    BY <1>0, <2>1, <2>4, SeenAppend
  <2>6. Followed!LogForwards
    BY <2>2, <2>3, <2>4, <2>5, ShownStep DEF Thread, NotStarted
  <2> QED BY <2>6 DEF Followed!LogNext
<1> QED BY <1>1, <1>2, <1>3, <1>4, <1>5, <1>6 DEF SyncStep

(* The worker starts, saves, tells and ends as a PipelineLog's worker may. *)
LEMMA WorkerShows ==
    ASSUME EventInv,
           Loads \/ Saves \/ SavesEnd \/ AppendsEnd \/ Appends \/ Submits \/ Clears \/ Looks
    PROVE  [Followed!LogNext]_Followed!logVars
<1>0. /\ SavedTypes /\ MemoryTypes /\ ThreadInv
      /\ run \in Runs /\ log \in Seq(Entries) /\ worker.copy \in Runs
  BY DEF EventInv, SavedTypes, MemoryTypes
<1>1. CASE Loads
  <2>1. /\ UNCHANGED <<run, log, owed>> /\ owed = "none"
        /\ worker.at \in {"start", "done", "finish", "fail", "stop"} /\ worker.phase = "load"
        /\ worker'.phase = "save"
        /\ worker'.at = IF worker.at = "fail" /\ run.stop THEN "stop" ELSE worker.at
    BY <1>0, <1>1 DEF Loads, saved, MemoryTypes
  <2>2. CASE worker.at = "start"
    <3>1. Followed!LogStarts
      BY <2>1, <2>2 DEF Followed!LogStarts, NotStarted
    <3> QED BY <3>1 DEF Followed!LogNext
  <2>3. CASE worker.at # "start"
    <3>1. UNCHANGED Thread
      BY <2>1, <2>3 DEF Thread, NotStarted
    <3> QED BY <2>1, <3>1, ShownStep
  <2> QED BY <2>2, <2>3
<1>2. CASE Saves
  <2> DEFINE new == Updated(worker.copy, worker.at)
  <2>1. /\ UNCHANGED <<log, owed>> /\ run' = Saved(new)
        /\ worker.phase = "save" /\ worker.at \in {"start", "done"}
        /\ worker'.phase = "append" /\ worker'.at = worker.at
    BY <1>0, <1>2 DEF Saves, MemoryTypes
  <2>2. /\ new.stop = worker.copy.stop /\ new \in Runs
        /\ new.status = IF worker.at = "start" THEN "running" ELSE worker.copy.status
    BY <1>0, <2>1 DEF Updated, Runs, Statuses, Active
  <2>3. /\ worker.copy.stop => run.stop
        /\ worker.at = "start" => ~worker.copy.stop
        /\ worker.at = "done" => IsMarked(worker.copy)
    BY <1>0, <2>1 DEF ThreadInv
  <2> HIDE DEF new
  <2>4. run'.stop = run.stop /\ run'.status = IF run.stop THEN "stopping" ELSE "running"
    <3>1. new.status \in {"running", "stopping"} /\ (new.stop <=> new.status = "stopping")
      BY <2>1, <2>2, <2>3 DEF IsMarked
    <3>2. CASE run.stop /\ ~new.stop
      BY <1>0, <2>1, <2>2, <3>1, <3>2 DEF Saved, Runs
    <3>3. CASE ~(run.stop /\ ~new.stop)
      <4>1. run' = new /\ run.stop \in BOOLEAN /\ new.stop \in BOOLEAN
        BY <1>0, <2>1, <2>2, <3>3 DEF Saved, Runs
      <4> QED BY <2>2, <2>3, <3>1, <3>3, <4>1
    <3> QED BY <3>2, <3>3
  <2>5. Followed!LogSaves
    BY <2>1, <2>4 DEF Followed!LogSaves, NotStarted
  <2> QED BY <2>5 DEF Followed!LogNext
<1>3. CASE SavesEnd
  <2> DEFINE new == [worker.copy EXCEPT !.status = Ending[worker.at],
                                        !.stop = @ \/ worker.at = "stop"]
  <2>1. /\ UNCHANGED log /\ run' = Saved(new) /\ owed' = Ending[worker.at]
        /\ worker.phase = "save" /\ worker.at \in {"finish", "fail", "stop"}
        /\ worker'.at = "off"
    BY <1>3 DEF SavesEnd, Ending, Off
  <2>2. /\ new.stop = (worker.copy.stop \/ worker.at = "stop") /\ new.stop \in BOOLEAN
        /\ new.status = Ending[worker.at]
        /\ Ending[worker.at] \in {"completed", "failed", "stopped"}
        /\ Ending[worker.at] = "stopped" => worker.at = "stop"
    BY <1>0, <2>1 DEF Runs, Ending
  <2>3. worker.copy.stop => run.stop
    BY <1>0, <2>1 DEF ThreadInv
  <2>4. worker.at = "stop" => run.stop
    BY <1>0 DEF ThreadInv
  <2>5. DOMAIN new = {"status", "stop", "researched", "research", "cursor"}
    BY <1>0 DEF Runs
  <2> HIDE DEF new
  <2>6. run'.stop = run.stop /\ run'.status = Ending[worker.at]
    <3>1. CASE run.stop /\ ~new.stop
      BY <1>0, <2>1, <2>2, <2>5, <3>1 DEF Saved, Runs
    <3>2. CASE ~(run.stop /\ ~new.stop)
      <4>1. run' = new /\ run.stop \in BOOLEAN
        BY <1>0, <2>1, <3>2 DEF Saved, Runs
      <4> QED BY <2>2, <2>3, <2>4, <3>2, <4>1
    <3> QED BY <3>1, <3>2
  <2>7. Followed!LogEnds
    BY <2>1, <2>2, <2>4, <2>6 DEF Followed!LogEnds, NotStarted
  <2> QED BY <2>7 DEF Followed!LogNext
<1>4. CASE AppendsEnd
  <2>1. /\ owed # "none" /\ owed' = "none" /\ UNCHANGED <<run, worker>>
        /\ log' = IF owed = "stopped" /\ StopIsTold THEN log ELSE Append(log, Own(owed))
    BY <1>4 DEF AppendsEnd
  <2>2. owed \in Statuses
    BY <1>0, <2>1 DEF MemoryTypes, Statuses, Terminal
  <2>3. SeenOf(Append(log, Own(owed)))
          = Append(SeenOf(log), [status |-> owed, kind |-> "own"])
    BY <1>0, <2>2, SeenAppend, OwnIsSeen
  <2>4. SeenOf(log') = SeenOf(log) \o Followed!EndTold(owed)
    <3>1. SeenOf(log) \in Seq({Seen(x) : x \in Entries})
      BY <1>0, SeenTypes
    <3>2. CASE owed = "stopped" /\ StopIsTold
      <4>1. Followed!EndTold(owed) = <<>> /\ log' = log
        BY <1>0, <2>1, <3>2, ShownStep, StopIsSeen DEF Followed!EndTold
      <4> QED BY <3>1, <4>1
    <3>3. CASE ~(owed = "stopped" /\ StopIsTold)
      <4>1. /\ Followed!EndTold(owed) = <<[status |-> owed, kind |-> "own"]>>
            /\ log' = Append(log, Own(owed))
        BY <1>0, <2>1, <3>3, ShownStep, StopIsSeen DEF Followed!EndTold, Followed!Own
      <4>2. Append(SeenOf(log), [status |-> owed, kind |-> "own"])
              = SeenOf(log) \o <<[status |-> owed, kind |-> "own"]>>
        BY <3>1, AppendIsConcat
      <4> QED BY <2>3, <4>1, <4>2
    <3> QED BY <3>2, <3>3
  <2>5. Followed!LogTellsEnd
    BY <2>1, <2>4 DEF Followed!LogTellsEnd, SeenOf, Seen, NotStarted
  <2> QED BY <2>5 DEF Followed!LogNext
<1>5. CASE Appends
  <2> DEFINE s == worker.copy.status
  <2>1. /\ UNCHANGED <<run, owed>> /\ log' = Append(log, Own(s))
        /\ worker.phase = "append"
    BY <1>5 DEF Appends
  <2>2. /\ s \in {"running"} \cup (IF run.stop THEN {"stopping"} ELSE {})
        /\ worker.at \in {"start", "done"}
    BY <1>0, <2>1 DEF ThreadInv, IsMarked
  <2>3. worker'.at \in {"stop", "finish", "fail", "submit"}
    BY <1>0, <1>5, <2>2 DEF Appends, After, At, Off
  <2>4. SeenOf(log') = Append(SeenOf(log), [status |-> s, kind |-> "own"])
    <3>1. s \in Statuses
      BY <2>2 DEF Statuses, Active
    <3> QED BY <1>0, <2>1, <3>1, SeenAppend, OwnIsSeen
  <2> HIDE DEF s
  <2>5. Followed!LogAppends
    BY <2>1, <2>2, <2>3, <2>4 DEF Followed!LogAppends, Followed!Own, SeenOf, Seen, NotStarted
  <2> QED BY <2>5 DEF Followed!LogNext
<1>6. CASE Submits \/ Clears \/ Looks
  <2>1. /\ UNCHANGED <<run, log, owed>>
        /\ worker.at \in {"submit", "clear", "look"}
        /\ worker'.at \in {"poll", "fail", "clear", "last"}
    BY <1>6 DEF Submits, Clears, Looks, saved, At, Off
  <2>2. UNCHANGED Thread
    BY <2>1 DEF Thread, NotStarted
  <2> QED BY <2>1, <2>2, ShownStep
<1> QED BY <1>1, <1>2, <1>3, <1>4, <1>5, <1>6

(* The API and a restart do to the log what a reader is told of them. *)
LEMMA ApiShows ==
    ASSUME EventInv, Submit \/ RequestStop \/ Reconcile \/ Crash
    PROVE  [Followed!LogNext]_Followed!logVars
<1>0. /\ SavedTypes /\ MemoryTypes /\ ThreadInv
      /\ run \in Runs /\ log \in Seq(Entries)
      /\ SeenOf(log) \in Seq({Seen(x) : x \in Entries})
  BY SeenTypes DEF EventInv, SavedTypes
<1>1. \A s \in Statuses :
        /\ Append(log, Own(s)) \in Seq(Entries)
        /\ SeenOf(Append(log, Own(s))) = Append(SeenOf(log), [status |-> s, kind |-> "own"])
  BY <1>0, SeenAppend, OwnIsSeen
<1>2. Followed!StopIsTold <=> StopIsTold
  BY <1>0, ShownStep, StopIsSeen
<1>3. CASE Submit
  <2>1. /\ run.status \notin Followed!Active \cup {"completed"}
        /\ log' = Append(log, Own("queued")) /\ UNCHANGED owed
        /\ worker'.at = "start" /\ worker'.phase = "load"
        /\ run'.status = "queued" /\ run'.stop = FALSE
    BY <1>0, <1>3 DEF Submit, Queued, Runs, Off, Active, Followed!Active
  <2>2. SeenOf(log') = Append(SeenOf(log), [status |-> "queued", kind |-> "own"])
    BY <1>1, <2>1 DEF Statuses, Active
  <2>3. Followed!LogSubmit
    BY <2>1, <2>2 DEF Followed!LogSubmit, Followed!Own, SeenOf, Seen, NotStarted
  <2> QED BY <2>3 DEF Followed!LogNext
<1>4. CASE RequestStop
  <2> DEFINE l == Append(log, Own("stopping"))
             m == Append(SeenOf(log), [status |-> "stopping", kind |-> "own"])
  <2>1. /\ run.status \in Followed!Active /\ UNCHANGED owed
        /\ run'.stop = TRUE
        /\ run'.status = IF NotStarted \/ worker.at = "off" THEN "stopped" ELSE "stopping"
        /\ worker' = IF NotStarted THEN Off ELSE worker
        /\ log' = l \o (IF run'.status = "stopped" /\ ~StopIsTold THEN <<Own("stopped")>>
                        ELSE <<>>)
    BY <1>0, <1>4 DEF RequestStop, Runs, Active, Followed!Active
  <2>2. /\ l \in Seq(Entries) /\ SeenOf(l) = m
        /\ m \in Seq({Seen(x) : x \in Entries})
    BY <1>1, SeenTypes DEF Statuses, Active
  <2>3. /\ Thread = "running" <=> ~(NotStarted \/ worker.at = "off")
        /\ Thread' = IF Thread = "running" THEN "running" ELSE "off"
    BY <2>1 DEF Thread, NotStarted, Off
  <2>4. SeenOf(log') = m \o (IF Thread = "running" THEN <<>> ELSE Followed!EndTold("stopped"))
    <3>1. CASE run'.status = "stopped" /\ ~StopIsTold
      <4>1. Thread # "running"
        BY <2>1, <2>3, <3>1
      <4>2. Followed!EndTold("stopped") = <<[status |-> "stopped", kind |-> "own"]>>
        BY <1>2, <3>1 DEF Followed!EndTold, Followed!Own
      <4>3. /\ Own("stopped") \in Entries
            /\ Seen(Own("stopped")) = [status |-> "stopped", kind |-> "own"]
        BY OwnIsSeen DEF Statuses, Terminal
      <4>4. log' = Append(l, Own("stopped"))
        <5>1. l \o <<Own("stopped")>> = Append(l, Own("stopped"))
          BY <2>2, <4>3, AppendIsConcat
        <5> QED BY <2>1, <3>1, <5>1
      <4>5. SeenOf(log') = Append(m, [status |-> "stopped", kind |-> "own"])
        BY <2>2, <4>3, <4>4, SeenAppend
      <4>6. Append(m, [status |-> "stopped", kind |-> "own"])
              = m \o <<[status |-> "stopped", kind |-> "own"]>>
        BY <2>2, AppendIsConcat
      <4> QED BY <4>1, <4>2, <4>5, <4>6
    <3>2. CASE ~(run'.status = "stopped" /\ ~StopIsTold)
      <4>1. log' = l /\ m = m \o <<>>
        BY <2>1, <2>2, <3>2
      <4>2. Thread # "running" => Followed!EndTold("stopped") = <<>>
        BY <1>2, <2>1, <2>3, <3>2 DEF Followed!EndTold
      <4> QED BY <2>2, <4>1, <4>2
    <3> QED BY <3>1, <3>2
  <2>5. run'.status = IF Thread = "running" THEN "stopping" ELSE "stopped"
    BY <2>1, <2>3
  <2> HIDE DEF l
  <2>6. Followed!LogRequestStop
    BY <2>1, <2>3, <2>4, <2>5
    DEF Followed!LogRequestStop, Followed!Own, SeenOf, Seen, Thread
  <2> QED BY <2>6 DEF Followed!LogNext
<1>5. CASE Reconcile
  <2> DEFINE end == IF run.stop THEN "stopped" ELSE "interrupted"
  <2>1. /\ run.status \in Followed!Active /\ worker.at = "off"
        /\ UNCHANGED <<worker, owed>>
        /\ run'.status = end /\ run'.stop = run.stop
        /\ log' = IF end = "stopped" /\ StopIsTold THEN log ELSE Append(log, Own(end))
    BY <1>0, <1>5 DEF Reconcile, Runs, Active, Followed!Active, memory
  <2>2. end \in Statuses
    BY DEF Statuses, Terminal
  <2> HIDE DEF end
  <2>3. SeenOf(log') = SeenOf(log) \o Followed!EndTold(end)
    <3>1. CASE end = "stopped" /\ StopIsTold
      <4>1. Followed!EndTold(end) = <<>> /\ log' = log
        BY <1>2, <2>1, <3>1 DEF Followed!EndTold
      <4> QED BY <1>0, <4>1
    <3>2. CASE ~(end = "stopped" /\ StopIsTold)
      <4>1. /\ Followed!EndTold(end) = <<[status |-> end, kind |-> "own"]>>
            /\ log' = Append(log, Own(end))
        BY <1>2, <2>1, <3>2 DEF Followed!EndTold, Followed!Own
      <4>2. Append(SeenOf(log), [status |-> end, kind |-> "own"])
              = SeenOf(log) \o <<[status |-> end, kind |-> "own"]>>
        BY <1>0, AppendIsConcat
      <4> QED BY <1>1, <2>2, <4>1, <4>2
    <3> QED BY <3>1, <3>2
  <2>4. Followed!LogReconciled
    BY <2>1, <2>3 DEF Followed!LogReconciled, SeenOf, Seen, NotStarted, end
  <2> QED BY <2>4 DEF Followed!LogNext
<1>6. CASE Crash
  <2>1. /\ worker'.at = "off" /\ owed' = "none" /\ UNCHANGED log
        /\ run'.status = run.status /\ run'.stop = run.stop
    BY <1>0, <1>6 DEF Crash, CursorSaved, Runs, Off
  <2>2. Followed!LogCrash
    BY <2>1 DEF Followed!LogCrash
  <2> QED BY <2>2 DEF Followed!LogNext
<1> QED BY <1>3, <1>4, <1>5, <1>6

(* The event streams may rely on PipelineLog: every save and every event   *)
(* of the harness's worker, of its projection and of its API, a restart    *)
(* among them, is a step that a reader of the log is promised or shows     *)
(* nothing.                                                                *)
THEOREM LogKeepsItsPromise == ASSUME EventAssumption PROVE Spec => ImplementsLog
<1>1. Init => Followed!LogInit
  BY DEF Init, Followed!LogInit, NoRun, Off
<1>2. EventInv /\ [Next]_vars => [Followed!LogNext]_Followed!logVars
  <2> SUFFICES ASSUME EventInv, [Next]_vars PROVE [Followed!LogNext]_Followed!logVars
    OBVIOUS
  <2>1. CASE UNCHANGED vars
    BY <2>1 DEF vars, eventVars, saved, memory, Followed!logVars, NotStarted
  <2>2. CASE Next
    BY <2>2, ProjectionShows, WorkerShows, ApiShows DEF Next, Worker
  <2> QED BY <2>1, <2>2
<1> QED BY <1>1, <1>2, EventsAlways, PTL DEF Spec, ImplementsLog, Followed!LogSpec
=============================================================================
