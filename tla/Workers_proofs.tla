---------------------------- MODULE Workers_proofs ----------------------------
(***************************************************************************)
(* Theorems about two of the workers of MCWorkers, for every value of      *)
(* their constants.  Of the research loop: what it says it has covered,    *)
(* spent and read is so (LoopIsHonest).  Of the analysis: no assessment is *)
(* paid for twice and no gap of the research is lost                       *)
(* (NothingIsLostOrPaidTwice), and it is final and not failed by checks of *)
(* its own (AnalysisIsKept).                                               *)
(***************************************************************************)
EXTENDS MCWorkers, FiniteSetTheorems, TLAPS

-----------------------------------------------------------------------------
(* The research loop: its inductive invariant. *)

Statuses == {"pending", "ready", "running", "completed", "failed", "requires_human"}
BoardRecord == [role : {"collector", "researcher", "extractor", "analyst"},
                status : Statuses, pages : SUBSET Pages]

(* A board: every record has the records it depends on. *)
Board(b) ==
    /\ b = [k \in DOMAIN b |-> b[k]]
    /\ \A k \in DOMAIN b :
          /\ b[k] \in BoardRecord
          /\ k[1] \in RL!Kinds /\ k = <<k[1], k[2]>> /\ RL!DependsOn(k) \subseteq DOMAIN b

(* The extractions that can be claimed. *)
Unread(b) == {k \in RL!Ready(b) : k[1] = "extract"}

Active == {"queued", "running"}

LoopRun(r) ==
    /\ r = [status |-> r.status, reason |-> r.reason, stage |-> r.stage,
            actions |-> r.actions, sources |-> r.sources]
    /\ r.status \in {"none"} \cup Active \cup RL!Ended /\ r.actions \in Nat

LoopTypes ==
    /\ plan.status \in {"needs_collection", "ready_for_analysis", "blocked"}
    /\ plan.status = "blocked" => plan.exhausted # {}
    /\ Board(board)
    /\ sources \subseteq Pages /\ IsFiniteSet(evidence)
    /\ LoopRun(run)
    /\ thread = [pc |-> thread.pc, kind |-> thread.kind, id |-> thread.id,
                 tasks |-> thread.tasks, limit |-> thread.limit, got |-> thread.got]
    /\ thread.pc \in {"idle", "queued", "decide", "claim", "work", "store"}
    /\ thread.pc \in {"claim", "work", "store"} => thread.kind \in RL!Kinds
    /\ thread.pc \in {"work", "store"} => <<thread.kind, thread.id>> \in DOMAIN board
    /\ thread.pc = "store" /\ thread.kind = "collect" => thread.got \subseteq Pages
    /\ thread.pc = "work" /\ thread.kind = "collect" => thread.limit \in Nat
    /\ manual \in Nat /\ losses \in Nat

Covered == \A s \in Scopes : RL!CoverageStatus(evidence, s) = "sufficient"

CoveredInv ==
    /\ plan.status = "ready_for_analysis" => Covered
    /\ run.status = "completed" => Covered

BudgetInv ==
    manual = 0 =>
        /\ RL!Cardinality(sources) <= MaxTotal
        /\ thread.pc = "work" /\ thread.kind = "collect" =>
              RL!Cardinality(sources) + thread.limit <= MaxTotal

(* The loop alone, in one go: what it has loaded is what there is, and at  *)
(* most one extraction waits for it.                                       *)
AloneInv ==
    /\ \A k \in DOMAIN board : k[2] \in DOMAIN tasks
    /\ thread.pc = "idle" <=> run.status \notin Active
    /\ thread.pc \in {"work", "store"} /\ thread.kind # "evaluate" =>
          DOMAIN thread.tasks = DOMAIN tasks
    /\ thread.pc \in {"claim", "work"} => plan.status = "needs_collection"
    /\ thread.pc = "store" /\ thread.kind # "evaluate" => plan.status = "needs_collection"
    /\ \A k, l \in Unread(board) : k = l
    /\ \/ run.status = "none"
       \/ thread.pc \in {"queued", "work", "store"}
       \/ thread.pc = "claim" /\ thread.kind # "extract"
       \/ thread.pc = "decide" /\ plan.status # "needs_collection"
       \/ /\ run.status \in RL!Ended /\ ~ RL!SpentOut(RL!Cardinality(sources))
          /\ run.actions < MaxActions
       => Unread(board) = {}

LoopInv == LoopTypes /\ CoveredInv /\ BudgetInv /\ (manual = 0 /\ losses = 0 => AloneInv)

-----------------------------------------------------------------------------
(* Boards. *)

-----------------------------------------------------------------------------
(* What the constants have to be, and the library of the instance: its     *)
(* operators are its own, and are those of this module.                    *)

LEMMA LoopCounts ==
    /\ \A S : RL!Cardinality(S) = Cardinality(S)
    /\ \A S : RL!IsFiniteSet(S) <=> IsFiniteSet(S)
  BY DEF RL!Cardinality, Cardinality, RL!IsFiniteSet, IsFiniteSet

LEMMA LoopConstants ==
    /\ MaxRounds \in 1 .. 3 /\ MaxPerTask \in Nat \ {0} /\ MaxTotal \in Nat \ {0}
    /\ MaxActions \in Nat /\ Social \subseteq Pages /\ IsFiniteSet(Pages)
    /\ Quotes \in [Pages -> Nat]
  BY WorkersAssumption, LoopCounts DEF RL!BudgetAssumption

LEMMA MarkedBoard ==
    ASSUME NEW b, Board(b)
    PROVE  /\ Board(RL!Marked(b)) /\ DOMAIN RL!Marked(b) = DOMAIN b
           /\ \A k \in DOMAIN b :
                 /\ RL!Marked(b)[k].pages = b[k].pages
                 /\ b[k].status \notin {"pending", "ready"} => RL!Marked(b)[k].status = b[k].status
                 /\ b[k].status \in {"pending", "ready"} =>
                       RL!Marked(b)[k].status =
                          IF \A d \in RL!DependsOn(k) : b[d].status = "completed"
                          THEN "ready" ELSE "pending"
  <1> DEFINE m == RL!Marked(b)
  <1>1. DOMAIN m = DOMAIN b /\ m = [k \in DOMAIN m |-> m[k]]
    BY DEF RL!Marked
  <1>2. ASSUME NEW k \in DOMAIN b
        PROVE  /\ m[k].pages = b[k].pages /\ m[k] \in BoardRecord
               /\ b[k].status \notin {"pending", "ready"} => m[k].status = b[k].status
               /\ b[k].status \in {"pending", "ready"} =>
                     m[k].status =
                        IF \A d \in RL!DependsOn(k) : b[d].status = "completed"
                        THEN "ready" ELSE "pending"
    <2> DEFINE s == IF \A d \in RL!DependsOn(k) : b[d].status = "completed"
                    THEN "ready" ELSE "pending"
    <2>1. s \in {"ready", "pending"}
      OBVIOUS
    <2>2. b[k] \in BoardRecord
      BY DEF Board
    <2> HIDE DEF s
    <2>3. m[k] = IF b[k].status \notin {"pending", "ready"} THEN b[k]
                 ELSE [b[k] EXCEPT !.status = s]
      BY DEF RL!Marked, s
    <2>4. /\ m[k].pages = b[k].pages /\ m[k] \in BoardRecord
          /\ b[k].status \notin {"pending", "ready"} => m[k].status = b[k].status
          /\ b[k].status \in {"pending", "ready"} => m[k].status = s
      BY <2>1, <2>2, <2>3 DEF BoardRecord, Statuses
    <2> QED
      BY <2>4 DEF s
  <1> HIDE DEF m
  <1>3. Board(m)
    BY <1>1, <1>2 DEF Board
  <1> QED
    BY <1>1, <1>2, <1>3 DEF m

(* A record can be claimed when it is open and what it depends on is       *)
(* complete.                                                               *)
LEMMA ReadyIs ==
    ASSUME NEW b, Board(b), NEW k
    PROVE  k \in RL!Ready(b) <=>
              /\ k \in DOMAIN b /\ b[k].status \in {"pending", "ready"}
              /\ \A d \in RL!DependsOn(k) : b[d].status = "completed"
  BY MarkedBoard DEF RL!Ready

LEMMA UnreadIs ==
    ASSUME NEW b, Board(b), NEW k
    PROVE  k \in Unread(b) <=>
              /\ k \in DOMAIN b /\ k[1] = "extract" /\ b[k].status \in {"pending", "ready"}
              /\ <<"collect", k[2]>> \in DOMAIN b /\ b[<<"collect", k[2]>>].status = "completed"
  <1>1. k \in DOMAIN b => RL!DependsOn(k) \subseteq DOMAIN b
    BY DEF Board
  <1>2. k[1] = "extract" => RL!DependsOn(k) = {<<"collect", k[2]>>}
    BY DEF RL!DependsOn
  <1>3. k \in Unread(b) <=> k \in RL!Ready(b) /\ k[1] = "extract"
    BY DEF Unread
  <1> QED
    BY <1>1, <1>2, <1>3, ReadyIs

(* Marking a board leaves what can be claimed. *)
LEMMA MarkedUnread ==
    ASSUME NEW b, Board(b)
    PROVE  Unread(RL!Marked(b)) = Unread(b)
  <1> DEFINE m == RL!Marked(b)
  <1>1. Board(m) /\ DOMAIN m = DOMAIN b
    BY MarkedBoard
  <1>2. \A k \in DOMAIN b :
           /\ m[k].status \in {"pending", "ready"} <=> b[k].status \in {"pending", "ready"}
           /\ m[k].status = "completed" <=> b[k].status = "completed"
    BY MarkedBoard DEF Board, BoardRecord, Statuses
  <1> HIDE DEF m
  <1>3. ASSUME NEW k PROVE k \in Unread(m) <=> k \in Unread(b)
    <2> DEFINE c == <<"collect", k[2]>>
    <2>1. k \in Unread(b) <=>
             /\ k \in DOMAIN b /\ k[1] = "extract" /\ b[k].status \in {"pending", "ready"}
             /\ c \in DOMAIN b /\ b[c].status = "completed"
      BY UnreadIs
    <2>2. k \in Unread(m) <=>
             /\ k \in DOMAIN m /\ k[1] = "extract" /\ m[k].status \in {"pending", "ready"}
             /\ c \in DOMAIN m /\ m[c].status = "completed"
      BY <1>1, UnreadIs
    <2> HIDE DEF c
    <2> QED
      BY <1>1, <1>2, <2>1, <2>2
  <1> QED
    BY <1>3 DEF m

(* The statuses that a service moves a record to. *)
Moves == {"running", "completed", "failed", "requires_human"}

LEMMA MovesAre ==
    /\ "running" \in Moves /\ "completed" \in Moves /\ "failed" \in Moves
    /\ "requires_human" \in Moves
    /\ \A m \in Moves : m \in Statuses /\ m \notin {"pending", "ready"}
  BY DEF Moves, Statuses

LEMMA MovedBoard ==
    ASSUME NEW b, Board(b), NEW kind, NEW id, <<kind, id>> \in DOMAIN b,
           NEW to \in Moves
    PROVE  /\ Board(RL!Moved(b, kind, id, to))
           /\ DOMAIN RL!Moved(b, kind, id, to) = DOMAIN b
           /\ RL!Moved(b, kind, id, to)[<<kind, id>>].status = to
           /\ \A k \in DOMAIN b :
                 k # <<kind, id>> => RL!Moved(b, kind, id, to)[k] = RL!Marked(b)[k]
  <1> DEFINE m == RL!Marked(b)
             v == RL!Moved(b, kind, id, to)
             key == <<kind, id>>
  <1>1. /\ Board(m) /\ DOMAIN m = DOMAIN b /\ Unread(m) = Unread(b)
        /\ \A k \in DOMAIN b : m[k].pages = b[k].pages
    BY MarkedBoard, MarkedUnread
  <1>2. v = [m EXCEPT ![key].status = to]
    BY DEF RL!Moved
  <1> HIDE DEF m, v
  <1>3. key \in DOMAIN b /\ \A k : k = key => k[1] = kind /\ k[2] = id
    OBVIOUS
  <1> HIDE DEF key
  <1>4. /\ DOMAIN v = DOMAIN b /\ v = [k \in DOMAIN v |-> v[k]]
        /\ \A k \in DOMAIN b : k # key => v[k] = m[k]
        /\ v[key] = [m[key] EXCEPT !.status = to]
    BY <1>1, <1>2, <1>3
  <1>5. m[key] \in BoardRecord
    BY <1>1, <1>3 DEF Board
  <1>6. v[key] \in BoardRecord /\ v[key].status = to /\ v[key].pages = m[key].pages
    BY <1>4, <1>5, MovesAre DEF BoardRecord
  <1>7. Board(v)
    BY <1>1, <1>4, <1>6 DEF Board
  <1> QED
    BY <1>4, <1>6, <1>7 DEF v, m, key

LEMMA MovedUnread ==
    ASSUME NEW b, Board(b), NEW kind, NEW id, <<kind, id>> \in DOMAIN b,
           NEW to \in Moves,
           NEW k \in Unread(RL!Moved(b, kind, id, to))
    PROVE  /\ k # <<kind, id>>
           /\ \/ k \in Unread(b)
              \/ kind = "collect" /\ to = "completed" /\ k = <<"extract", id>>
  <1> DEFINE m == RL!Marked(b)
             v == RL!Moved(b, kind, id, to)
             key == <<kind, id>>
             c == <<"collect", k[2]>>
  <1>1. /\ Board(m) /\ DOMAIN m = DOMAIN b /\ Unread(m) = Unread(b)
        /\ Board(v) /\ DOMAIN v = DOMAIN b /\ v[key].status = to
        /\ \A l \in DOMAIN b : l # key => v[l] = m[l]
    BY MarkedBoard, MarkedUnread, MovedBoard
  <1>2. /\ k \in DOMAIN v /\ k[1] = "extract" /\ v[k].status \in {"pending", "ready"}
        /\ c \in DOMAIN v /\ v[c].status = "completed"
    BY <1>1, UnreadIs
  <1>3. c = key => kind = "collect" /\ id = k[2]
    OBVIOUS
  <1>4. k = <<k[1], k[2]>>
    BY <1>1, <1>2 DEF Board
  <1> HIDE DEF m, v, key
  <1>5. k # key
    BY <1>1, <1>2, MovesAre
  <1>6. CASE c # key
    <2>1. /\ k \in DOMAIN m /\ k[1] = "extract" /\ m[k].status \in {"pending", "ready"}
          /\ c \in DOMAIN m /\ m[c].status = "completed"
      BY <1>1, <1>2, <1>5, <1>6
    <2>2. k \in Unread(m)
      BY <1>1, <2>1, UnreadIs
    <2> QED
      BY <1>1, <1>5, <2>2 DEF key
  <1>7. CASE c = key
    BY <1>1, <1>2, <1>3, <1>4, <1>7
  <1> QED
    BY <1>5, <1>6, <1>7 DEF key

(* A record that was claimed or served makes nothing claimable.            *)
LEMMA ServedBoard ==
    ASSUME NEW b, Board(b), NEW kind, NEW id, <<kind, id>> \in DOMAIN b,
           NEW to \in Moves, kind # "collect" \/ to # "completed"
    PROVE  /\ Board(RL!Moved(b, kind, id, to))
           /\ DOMAIN RL!Moved(b, kind, id, to) = DOMAIN b
           /\ \A k \in Unread(RL!Moved(b, kind, id, to)) :
                 k # <<kind, id>> /\ k \in Unread(b)
  BY MovedBoard, MovedUnread

(* The board with one more task to do, its dependants marked. *)
Opened(b, kind, id, role, pages) == RL!Marked(RL!Patch(b, RL!Open(kind, id, role, pages)))

(* The board after a collection, with an extraction to do when it got      *)
(* pages, and after an extraction, with an evaluation to do.               *)
LEMMA OpenedBoard ==
    ASSUME NEW b, Board(b), NEW kind \in {"extract", "evaluate"}, NEW id,
           RL!DependsOn(<<kind, id>>) \subseteq DOMAIN b,
           NEW role \in {"extractor", "analyst"}, NEW pages \in SUBSET Pages
    PROVE  /\ Board(Opened(b, kind, id, role, pages))
           /\ \A k \in Unread(Opened(b, kind, id, role, pages)) :
                 k \in Unread(b) \/ (kind = "extract" /\ k = <<"extract", id>>)
  <1> DEFINE p == RL!Patch(b, RL!Open(kind, id, role, pages))
             key == <<kind, id>>
             new == RL!Record(role, "pending", pages)
  <1>1. key[1] = kind /\ key[2] = id /\ key = <<key[1], key[2]>>
    OBVIOUS
  <1>2. new \in BoardRecord /\ new.status = "pending"
    BY DEF RL!Record, BoardRecord, Statuses
  <1>3. /\ DOMAIN p = DOMAIN b \cup {key} /\ p = [k \in DOMAIN p |-> p[k]]
        /\ p[key] = new /\ \A k \in DOMAIN b : k # key => p[k] = b[k]
    BY DEF RL!Patch, RL!Open
  <1> HIDE DEF p, new
  <1>4. Board(p)
    <2>1. ASSUME NEW k \in DOMAIN p
          PROVE  /\ p[k] \in BoardRecord
                 /\ k[1] \in RL!Kinds /\ k = <<k[1], k[2]>> /\ RL!DependsOn(k) \subseteq DOMAIN p
      <3>1. CASE k = key
        BY <1>1, <1>2, <1>3, <3>1 DEF RL!Kinds
      <3>2. CASE k # key
        BY <1>3, <2>1, <3>2 DEF Board
      <3> QED
        BY <3>1, <3>2
    <2> QED
      BY <1>3, <2>1 DEF Board
  <1>5. /\ Board(RL!Marked(p)) /\ DOMAIN RL!Marked(p) = DOMAIN p /\ Unread(RL!Marked(p)) = Unread(p)
    BY <1>4, MarkedBoard, MarkedUnread
  <1>6. ASSUME NEW k \in Unread(p)
        PROVE  k \in Unread(b) \/ (kind = "extract" /\ k = <<"extract", id>>)
    <2> DEFINE c == <<"collect", k[2]>>
    <2>1. /\ k \in DOMAIN p /\ k[1] = "extract" /\ p[k].status \in {"pending", "ready"}
          /\ c \in DOMAIN p /\ p[c].status = "completed"
      BY <1>4, <1>6, UnreadIs
    <2>2. c # key
      OBVIOUS
    <2>3. CASE k = key
      BY <1>1, <2>1, <2>3
    <2>4. CASE k # key
      <3>1. k \in DOMAIN b /\ b[k] = p[k] /\ c \in DOMAIN b /\ b[c] = p[c]
        BY <1>3, <2>1, <2>2, <2>4
      <3>2. /\ k \in DOMAIN b /\ k[1] = "extract" /\ b[k].status \in {"pending", "ready"}
            /\ c \in DOMAIN b /\ b[c].status = "completed"
        BY <2>1, <3>1
      <3> QED
        BY <3>2, UnreadIs
    <2> QED
      BY <2>3, <2>4
  <1> QED
    BY <1>3, <1>5, <1>6 DEF p, Opened

(* The board with the collections of the next round. *)
LEMMA PublishedBoard ==
    ASSUME NEW b, Board(b), NEW new
    PROVE  /\ Board(RL!PublishedRecords(b, new))
           /\ DOMAIN RL!PublishedRecords(b, new) = DOMAIN b \cup {<<"collect", i>> : i \in new}
           /\ Unread(RL!PublishedRecords(b, new)) \subseteq Unread(b)
  <1> DEFINE p == RL!PublishedRecords(b, new)
             keys == {<<"collect", i>> : i \in new}
             rec == RL!Record("researcher", "ready", {})
  <1>1. rec \in BoardRecord /\ rec.status = "ready"
    BY DEF RL!Record, BoardRecord, Statuses
  <1>2. /\ DOMAIN p = DOMAIN b \cup keys /\ p = [k \in DOMAIN p |-> p[k]]
        /\ \A k \in keys : p[k] = rec
        /\ \A k \in DOMAIN b \ keys : p[k] = b[k]
    BY DEF RL!PublishedRecords, RL!Patch
  <1>3. \A k \in keys : /\ k[1] = "collect" /\ k = <<k[1], k[2]>>
                        /\ RL!DependsOn(k) = {}
    BY DEF RL!DependsOn
  <1> HIDE DEF p, keys, rec
  <1>4. Board(p)
    <2>1. ASSUME NEW k \in DOMAIN p
          PROVE  /\ p[k] \in BoardRecord
                 /\ k[1] \in RL!Kinds /\ k = <<k[1], k[2]>> /\ RL!DependsOn(k) \subseteq DOMAIN p
      <3>1. CASE k \in keys
        BY <1>1, <1>2, <1>3, <3>1 DEF RL!Kinds
      <3>2. CASE k \notin keys
        BY <1>2, <2>1, <3>2 DEF Board
      <3> QED
        BY <3>1, <3>2
    <2> QED
      BY <1>2, <2>1 DEF Board
  <1>5. ASSUME NEW k \in Unread(p) PROVE k \in Unread(b)
    <2> DEFINE c == <<"collect", k[2]>>
    <2>1. /\ k \in DOMAIN p /\ k[1] = "extract" /\ p[k].status \in {"pending", "ready"}
          /\ c \in DOMAIN p /\ p[c].status = "completed"
      BY <1>4, <1>5, UnreadIs
    <2>2. k \notin keys /\ c \notin keys
      BY <1>1, <1>2, <1>3, <2>1
    <2>3. k \in DOMAIN b /\ b[k] = p[k] /\ c \in DOMAIN b /\ b[c] = p[c]
      BY <1>2, <2>1, <2>2
    <2> QED
      BY <2>1, <2>3, UnreadIs
  <1> QED
    BY <1>2, <1>4, <1>5 DEF p, keys

-----------------------------------------------------------------------------
(* Coverage: a scope that is covered stays so. *)

LEMMA CoverageGrows ==
    ASSUME NEW e, NEW f, e \subseteq f, IsFiniteSet(f), NEW s,
           RL!CoverageStatus(e, s) = "sufficient"
    PROVE  RL!CoverageStatus(f, s) = "sufficient"
  <1> DEFINE E == RL!Matches(e, s)
             F == RL!Matches(f, s)
  <1>1. E \subseteq F /\ F \subseteq f
    BY DEF RL!Matches
  <1>2. E # {} /\ ~ (\A q \in E : q[1] \in Social) /\ RL!Cardinality(E) >= 2
    BY DEF RL!CoverageStatus
  <1> HIDE DEF E, F
  <1>3. IsFiniteSet(F)
    BY <1>1, LoopCounts, FS_Subset
  <1>4. IsFiniteSet(E) /\ RL!Cardinality(E) <= RL!Cardinality(F)
    BY <1>1, <1>3, LoopCounts, FS_Subset
  <1>5. RL!Cardinality(E) \in Nat /\ RL!Cardinality(F) \in Nat
    BY <1>3, <1>4, LoopCounts, FS_CardinalityType
  <1>6. F # {} /\ ~ (\A q \in F : q[1] \in Social) /\ RL!Cardinality(F) >= 2
    BY <1>1, <1>2, <1>4, <1>5
  <1> QED
    BY <1>6 DEF RL!CoverageStatus, F

(* The quotes of some pages for a scope are finitely many. *)
QuotesOf(pages, s) == UNION {{<<p, s, n>> : n \in 1 .. Quotes[p]} : p \in pages}

LEMMA QuotesAreFinite ==
    ASSUME NEW pages \in SUBSET Pages, NEW s
    PROVE  IsFiniteSet(QuotesOf(pages, s))
  <1> DEFINE Of(p) == {<<p, s, n>> : n \in 1 .. Quotes[p]}
             all == {Of(p) : p \in pages}
             f == [p \in pages |-> Of(p)]
  <1>1. IsFiniteSet(pages)
    BY LoopConstants, LoopCounts, FS_Subset
  <1>2. f \in Surjection(pages, all)
    BY DEF Surjection
  <1>3. IsFiniteSet(all)
    BY <1>1, <1>2, LoopCounts, FS_Surjection
  <1>4. ASSUME NEW p \in pages PROVE IsFiniteSet(Of(p))
    <2> DEFINE g == [n \in 1 .. Quotes[p] |-> <<p, s, n>>]
    <2>1. Quotes[p] \in Nat
      BY LoopConstants
    <2>2. IsFiniteSet(1 .. Quotes[p])
      BY <2>1, LoopCounts, FS_Interval
    <2>3. g \in Surjection(1 .. Quotes[p], Of(p))
      BY DEF Surjection
    <2> QED
      BY <2>2, <2>3, LoopCounts, FS_Surjection
  <1>5. \A x \in all : IsFiniteSet(x)
    BY <1>4
  <1> QED
    BY <1>3, <1>5, LoopCounts, FS_UNION DEF QuotesOf

-----------------------------------------------------------------------------
(* Facts about the steps. *)

LEMMA CoveredStays ==
    ASSUME Covered, evidence \subseteq evidence', IsFiniteSet(evidence')
    PROVE  Covered'
  BY CoverageGrows DEF Covered

LEMMA SourcesAreFinite ==
    ASSUME LoopTypes
    PROVE  IsFiniteSet(sources) /\ RL!Cardinality(sources) \in Nat
  <1>1. IsFiniteSet(sources)
    BY LoopConstants, LoopCounts, FS_Subset DEF LoopTypes
  <1> QED
    BY <1>1, LoopCounts, FS_CardinalityType

LEMMA DecisionIs ==
    ASSUME LoopTypes
    PROVE  /\ RL!StopDecision = <<>> => plan.status = "needs_collection"
           /\ RL!StopDecision # <<>> =>
                 /\ RL!StopDecision[1] \in {"completed", "requires_human"}
                 /\ RL!StopDecision[1] = "completed" => plan.status = "ready_for_analysis"
                 /\ \/ plan.status # "needs_collection" \/ RL!SpentOut(RL!Cardinality(sources))
                    \/ ~ (run.actions < MaxActions)
  <1>1. run.actions \in Nat /\ MaxActions \in Nat
    BY LoopConstants DEF LoopTypes, LoopRun
  <1>0. \A x, y : <<x, y>> # << >> /\ <<x, y>>[1] = x /\ <<x, y>>[2] = y
    OBVIOUS
  <1>2. CASE plan.status = "ready_for_analysis"
    <2>1. RL!StopDecision = <<"completed", "coverage_sufficient">>
      BY <1>2 DEF RL!StopDecision
    <2> QED
      BY <1>0, <1>2, <2>1
  <1>3. CASE plan.status # "ready_for_analysis" /\ RL!SpentOut(RL!Cardinality(sources))
    <2>1. RL!StopDecision = <<"requires_human", "budget_exhausted">>
      BY <1>3 DEF RL!StopDecision
    <2> QED
      BY <1>0, <1>3, <2>1
  <1>4. CASE /\ plan.status # "ready_for_analysis" /\ ~ RL!SpentOut(RL!Cardinality(sources))
             /\ plan.status = "blocked"
    <2>1. plan.exhausted # {}
      BY <1>4 DEF LoopTypes
    <2>2. RL!StopDecision = <<"requires_human", "budget_exhausted">>
      BY <1>4, <2>1 DEF RL!StopDecision
    <2> QED
      BY <1>0, <1>4, <2>2
  <1>5. CASE plan.status = "needs_collection" /\ ~ RL!SpentOut(RL!Cardinality(sources))
    <2>1. CASE run.actions >= MaxActions
      <3>1. RL!StopDecision = <<"requires_human", "budget_exhausted">>
        BY <1>5, <2>1 DEF RL!StopDecision
      <3>2. ~ (run.actions < MaxActions)
        BY <1>1, <2>1
      <3> QED
        BY <1>0, <1>5, <3>1, <3>2
    <2>2. CASE ~ (run.actions >= MaxActions)
      <3>1. RL!StopDecision = << >>
        BY <1>5, <2>2 DEF RL!StopDecision
      <3> QED
        BY <1>5, <3>1
    <2> QED
      BY <2>1, <2>2
  <1> QED
    BY <1>2, <1>3, <1>4, <1>5 DEF LoopTypes

LEMMA StageIs ==
    /\ RL!NextStage \in RL!Kinds \cup {""}
    /\ RL!NextStage # "extract" => Unread(board) = {}
  BY DEF RL!NextStage, RL!Kinds, Unread

LEMMA LimitIs ==
    ASSUME LoopTypes, RL!CollectLimit >= 1
    PROVE  RL!CollectLimit \in Nat /\ RL!Cardinality(sources) + RL!CollectLimit <= MaxTotal
  <1> DEFINE n == MaxTotal - RL!Cardinality(sources)
  <1>1. RL!Cardinality(sources) \in Nat /\ MaxTotal \in Nat /\ MaxPerTask \in Nat
    BY SourcesAreFinite, LoopConstants
  <1>2. n \in Int /\ MaxPerTask \in Int
    BY <1>1
  <1>3. ASSUME NEW x \in Int, NEW y \in Int
        PROVE  RL!Min({x, y}) \in {x, y} /\ RL!Min({x, y}) <= y
    <2>1. \E z \in {x, y} : \A v \in {x, y} : z <= v
      BY <1>3
    <2> QED
      BY <2>1 DEF RL!Min
  <1>4. RL!CollectLimit \in {MaxPerTask, n} /\ RL!CollectLimit <= n
    BY <1>2, <1>3 DEF RL!CollectLimit
  <1> QED
    BY <1>1, <1>4

(* What a thread leaves that ends its run. *)
LEMMA FinishLeaves ==
    ASSUME LoopTypes, NEW to \in RL!Ended, NEW reason, RL!Finish(to, reason)
    PROVE  /\ LoopRun(run') /\ run'.status = to /\ run'.actions = run.actions
           /\ thread' = RL!Idle /\ thread'.pc = "idle"
  <1>1. LoopRun(run) /\ to \in {"none"} \cup Active \cup RL!Ended
    BY DEF LoopTypes
  <1>2. RL!Cardinality(sources) \in Nat
    BY SourcesAreFinite
  <1>3. /\ run' = [run EXCEPT !.status = to, !.reason = reason, !.stage = "",
                             !.sources = RL!Cardinality(sources)]
        /\ thread' = RL!Idle
    BY DEF RL!Finish
  <1>4. thread'.pc = "idle"
    BY <1>3 DEF RL!Idle
  <1> QED
    BY <1>1, <1>2, <1>3, <1>4 DEF LoopRun

(* What is left of the types when only the thread and the run have moved. *)
LEMMA TypesStay ==
    ASSUME LoopTypes, plan' = plan, sources' = sources, evidence' = evidence,
           Board(board'), LoopRun(run'), thread' = RL!Idle,
           manual' = manual, losses' \in Nat
    PROVE  LoopTypes'
  BY DEF LoopTypes, Board, RL!Idle

LEMMA LoopInvInit == RL!Init => LoopInv
  <1> SUFFICES ASSUME RL!Init PROVE LoopInv
    OBVIOUS
  <1>1. PICK f : board = [k \in {<<"collect", i>> : i \in DOMAIN tasks} |->
                             RL!Record("collector", f[k], {})] /\
                 \A k \in {<<"collect", i>> : i \in DOMAIN tasks} : f[k] \in Statuses
    <2> DEFINE g == [k \in {<<"collect", i>> : i \in DOMAIN tasks} |->
                        IF k[2] \in RL!Waiting(tasks) THEN "ready" ELSE "completed"]
    <2>1. \A k \in {<<"collect", i>> : i \in DOMAIN tasks} : g[k] \in Statuses
      BY DEF Statuses
    <2>2. board = [k \in {<<"collect", i>> : i \in DOMAIN tasks} |->
                      RL!Record("collector", g[k], {})]
      BY DEF RL!Init
    <2> QED
      BY <2>1, <2>2
  <1>2. \A k \in {<<"collect", i>> : i \in DOMAIN tasks} :
           /\ k[1] = "collect" /\ k = <<k[1], k[2]>> /\ RL!DependsOn(k) = {}
           /\ k[2] \in DOMAIN tasks
    BY DEF RL!DependsOn
  <1>3. Board(board)
    BY <1>1, <1>2 DEF Board, RL!Record, BoardRecord, RL!Kinds
  <1>4. Unread(board) = {}
    BY <1>1, <1>2, <1>3, UnreadIs
  <1>5. LoopTypes
    <2>1. LoopRun(run)
      BY DEF RL!Init, LoopRun
    <2>2. /\ thread = [pc |-> thread.pc, kind |-> thread.kind, id |-> thread.id,
                      tasks |-> thread.tasks, limit |-> thread.limit, got |-> thread.got]
          /\ thread.pc = "idle"
      BY DEF RL!Init, RL!Idle
    <2>3. plan.status = "needs_collection" /\ sources \subseteq Pages /\ IsFiniteSet(evidence)
      BY LoopCounts, FS_EmptySet DEF RL!Init
    <2>4. manual \in Nat /\ losses \in Nat
      BY DEF RL!Init
    <2> QED
      BY <1>3, <2>1, <2>2, <2>3, <2>4 DEF LoopTypes
  <1>6. CoveredInv
    BY DEF RL!Init, CoveredInv
  <1>7. BudgetInv
    <2>1. RL!Cardinality(sources) = 0 /\ thread.pc = "idle"
      BY LoopCounts, FS_EmptySet DEF RL!Init, RL!Idle
    <2>2. MaxTotal \in Nat
      BY LoopConstants
    <2> QED
      BY <2>1, <2>2 DEF BudgetInv
  <1>8. AloneInv
    BY <1>1, <1>2, <1>4 DEF RL!Init, AloneInv, RL!Idle, Active
  <1> QED
    BY <1>5, <1>6, <1>7, <1>8 DEF LoopInv

-----------------------------------------------------------------------------
(* The steps of the loop's thread. *)

Alone == manual = 0 /\ losses = 0

LEMMA SubmitKeeps == ASSUME LoopInv, RL!Submit PROVE LoopInv'
  <1>1. /\ run.status = "none"
        /\ UNCHANGED <<plan, tasks, board, sources, evidence, manual, losses>>
        /\ thread' = [RL!Idle EXCEPT !.pc = "queued"]
        /\ run' = [run EXCEPT !.status = "queued", !.sources = RL!Cardinality(sources)]
    BY DEF RL!Submit, RL!Records
  <1>2. LoopRun(run') /\ run'.status = "queued"
    BY <1>1 DEF LoopInv, LoopTypes, LoopRun, Active
  <1>3. /\ thread'.pc = "queued"
        /\ thread' = [pc |-> thread'.pc, kind |-> thread'.kind, id |-> thread'.id,
                      tasks |-> thread'.tasks, limit |-> thread'.limit, got |-> thread'.got]
    BY <1>1 DEF RL!Idle
  <1>4. LoopTypes'
    BY <1>1, <1>2, <1>3 DEF LoopInv, LoopTypes, Board
  <1>5. CoveredInv' /\ BudgetInv'
    BY <1>1, <1>2, <1>3 DEF LoopInv, CoveredInv, BudgetInv, Covered
  <1>6. ASSUME Alone' PROVE AloneInv'
    <2>1. AloneInv /\ Unread(board) = {}
      BY <1>1, <1>6 DEF Alone, LoopInv, AloneInv
    <2> QED
      BY <1>1, <1>2, <1>3, <2>1 DEF AloneInv, Active
  <1> QED
    BY <1>4, <1>5, <1>6 DEF LoopInv, Alone

LEMMA LoopStartKeeps == ASSUME LoopInv, RL!Start PROVE LoopInv'
  <1>1. /\ thread.pc = "queued"
        /\ UNCHANGED <<plan, tasks, board, sources, evidence, manual, losses>>
        /\ thread' = [RL!Idle EXCEPT !.pc = "decide"]
        /\ run' = [run EXCEPT !.status = "running"]
    BY DEF RL!Start, RL!Records
  <1>2. LoopRun(run') /\ run'.status = "running"
    BY <1>1 DEF LoopInv, LoopTypes, LoopRun, Active
  <1>3. /\ thread'.pc = "decide"
        /\ thread' = [pc |-> thread'.pc, kind |-> thread'.kind, id |-> thread'.id,
                      tasks |-> thread'.tasks, limit |-> thread'.limit, got |-> thread'.got]
    BY <1>1 DEF RL!Idle
  <1>4. LoopTypes'
    BY <1>1, <1>2, <1>3 DEF LoopInv, LoopTypes, Board
  <1>5. CoveredInv' /\ BudgetInv'
    BY <1>1, <1>2, <1>3 DEF LoopInv, CoveredInv, BudgetInv, Covered
  <1>6. ASSUME Alone' PROVE AloneInv'
    <2>1. AloneInv /\ Unread(board) = {}
      BY <1>1, <1>6 DEF Alone, LoopInv, AloneInv
    <2> QED
      BY <1>1, <1>2, <1>3, <2>1 DEF AloneInv, Active, RL!Ended
  <1> QED
    BY <1>4, <1>5, <1>6 DEF LoopInv, Alone

(* A run that its thread ends, with the board as it was or marked. *)
LEMMA EndKeeps ==
    ASSUME LoopInv, NEW to \in RL!Ended, NEW reason, RL!Finish(to, reason),
           UNCHANGED <<plan, tasks, sources, manual, losses>>, evidence' = evidence,
           board' \in {board, RL!Marked(board)},
           to = "completed" => plan.status = "ready_for_analysis",
           Alone => \/ Unread(board) = {} \/ RL!SpentOut(RL!Cardinality(sources))
                    \/ ~ (run.actions < MaxActions)
    PROVE  LoopInv'
  <1>1. /\ LoopRun(run') /\ run'.status = to /\ run'.actions = run.actions
        /\ thread' = RL!Idle /\ thread'.pc = "idle"
    BY FinishLeaves DEF LoopInv
  <1>2. Board(board') /\ DOMAIN board' = DOMAIN board /\ Unread(board') = Unread(board)
    BY MarkedBoard, MarkedUnread DEF LoopInv, LoopTypes
  <1>3. LoopTypes'
    BY <1>1, <1>2, TypesStay DEF LoopInv, LoopTypes
  <1>4. CoveredInv' /\ BudgetInv'
    BY <1>1 DEF LoopInv, CoveredInv, BudgetInv, Covered
  <1>5. ASSUME Alone' PROVE AloneInv'
    <2>1. AloneInv /\ Alone
      BY <1>5 DEF Alone, LoopInv
    <2>2. Unread(board)' = Unread(board)
      BY <1>2 DEF Unread, RL!Ready
    <2> QED
      BY <1>1, <1>2, <2>1, <2>2 DEF AloneInv, Active, RL!Ended, RL!SpentOut
  <1> QED
    BY <1>3, <1>4, <1>5 DEF LoopInv, Alone

LEMMA DecideKeeps == ASSUME LoopInv, RL!Decide PROVE LoopInv'
  <1>1. /\ thread.pc = "decide" /\ evidence' = evidence
        /\ UNCHANGED <<plan, tasks, sources, manual, losses>>
    BY DEF RL!Decide
  <1>2. CASE RL!StopDecision # <<>>
    <2>1. RL!Finish(RL!StopDecision[1], RL!StopDecision[2]) /\ board' = board
      BY <1>2 DEF RL!Decide
    <2>2. /\ RL!StopDecision[1] \in RL!Ended
          /\ RL!StopDecision[1] = "completed" => plan.status = "ready_for_analysis"
          /\ \/ plan.status # "needs_collection" \/ RL!SpentOut(RL!Cardinality(sources))
             \/ ~ (run.actions < MaxActions)
      BY <1>2, DecisionIs DEF LoopInv, RL!Ended
    <2>3. Alone => \/ Unread(board) = {} \/ RL!SpentOut(RL!Cardinality(sources))
                   \/ ~ (run.actions < MaxActions)
      BY <1>1, <2>2 DEF LoopInv, AloneInv, Alone
    <2> QED
      BY <1>1, <2>1, <2>2, <2>3, EndKeeps
  <1>3. CASE RL!StopDecision = <<>> /\ RL!NextStage = ""
    <2>1. RL!Finish("requires_human", "no_runnable_task") /\ board' = RL!Marked(board)
      BY <1>3 DEF RL!Decide
    <2>2. Unread(board) = {}
      BY <1>3, StageIs
    <2>3. "requires_human" \in RL!Ended /\ "requires_human" # "completed"
      BY DEF RL!Ended
    <2> QED
      BY <1>1, <2>1, <2>2, <2>3, EndKeeps
  <1>4. CASE RL!StopDecision = <<>> /\ RL!NextStage # ""
    <2>1. /\ board' = RL!Marked(board)
          /\ run' = [run EXCEPT !.stage = RL!NextStage, !.sources = RL!Cardinality(sources)]
          /\ thread' = [RL!Idle EXCEPT !.pc = "claim", !.kind = RL!NextStage]
      BY <1>4 DEF RL!Decide
    <2>2. LoopRun(run') /\ run'.status = run.status /\ run'.actions = run.actions
      BY <2>1 DEF LoopInv, LoopTypes, LoopRun
    <2>3. /\ thread'.pc = "claim" /\ thread'.kind = RL!NextStage /\ RL!NextStage \in RL!Kinds
          /\ thread' = [pc |-> thread'.pc, kind |-> thread'.kind, id |-> thread'.id,
                        tasks |-> thread'.tasks, limit |-> thread'.limit, got |-> thread'.got]
      BY <1>4, <2>1, StageIs DEF RL!Idle
    <2>4. /\ Board(board') /\ DOMAIN board' = DOMAIN board
          /\ Unread(board') = Unread(board) /\ Unread(board)' = Unread(board')
      BY <2>1, MarkedBoard, MarkedUnread DEF LoopInv, LoopTypes, Unread, RL!Ready
    <2>5. LoopTypes'
      BY <1>1, <2>2, <2>3, <2>4 DEF LoopInv, LoopTypes, Board
    <2>6. CoveredInv' /\ BudgetInv'
      BY <1>1, <2>2, <2>3 DEF LoopInv, CoveredInv, BudgetInv, Covered
    <2>7. ASSUME Alone' PROVE AloneInv'
      <3>1. AloneInv
        BY <1>1, <2>7 DEF Alone, LoopInv
      <3>2. plan.status = "needs_collection"
        BY <1>4, DecisionIs DEF LoopInv
      <3>3. thread'.kind # "extract" => Unread(board) = {}
        BY <2>3, StageIs
      <3>4. run.status \in Active
        BY <1>1, <3>1 DEF AloneInv
      <3> QED
        BY <1>1, <2>2, <2>3, <2>4, <3>1, <3>2, <3>3, <3>4 DEF AloneInv, Active, RL!Ended
    <2> QED
      BY <2>5, <2>6, <2>7 DEF LoopInv, Alone
  <1> QED
    BY <1>2, <1>3, <1>4

LEMMA ClaimKeeps == ASSUME LoopInv, RL!Claim PROVE LoopInv'
  <1>1. /\ thread.pc = "claim" /\ thread.kind \in RL!Kinds /\ evidence' = evidence
        /\ UNCHANGED <<plan, sources, manual, losses>>
        /\ LoopRun(run) /\ Board(board)
    BY DEF RL!Claim, LoopInv, LoopTypes
  <1>2. CASE /\ \/ RL!Claimable(thread.kind, board, tasks) = {}
                \/ thread.kind = "collect" /\ RL!Cardinality(sources) >= MaxTotal
             /\ board' = RL!Marked(board) /\ RL!Fail /\ tasks' = tasks
    <2>1. ASSUME Alone
          PROVE  Unread(board) = {} \/ RL!SpentOut(RL!Cardinality(sources))
      <3>1. AloneInv
        BY <2>1 DEF LoopInv, Alone
      <3>2. CASE thread.kind # "extract"
        BY <1>1, <3>1, <3>2 DEF AloneInv
      <3>3. CASE thread.kind = "extract"
        <4>1. RL!Claimable("extract", board, tasks) = {}
          BY <1>2, <3>3
        <4>2. ASSUME NEW k \in Unread(board) PROVE FALSE
          <5>1. k \in DOMAIN board /\ k \in RL!Ready(board) /\ k[1] = "extract"
            BY <4>2 DEF Unread, RL!Ready
          <5>2. k = <<"extract", k[2]>> /\ k[2] \in DOMAIN tasks
            BY <1>1, <3>1, <5>1 DEF Board, AloneInv
          <5>3. k[2] \in RL!Claimable("extract", board, tasks)
            BY <5>1, <5>2 DEF RL!Claimable
          <5> QED
            BY <4>1, <5>3
        <4> QED
          BY <4>2
      <3> QED
        BY <3>2, <3>3
    <2>2. "failed" \in RL!Ended /\ "failed" # "completed" /\ RL!Finish("failed", "failed")
      BY <1>2 DEF RL!Ended, RL!Fail
    <2> QED
      BY <1>1, <1>2, <2>1, <2>2, EndKeeps
  <1>3. ASSUME NEW id \in RL!Claimable(thread.kind, board, tasks),
               thread.kind = "collect" => RL!CollectLimit >= 1,
               board' = RL!Moved(board, thread.kind, id, "running"),
               thread' = [thread EXCEPT !.pc = "work", !.id = id, !.tasks = tasks,
                                        !.limit = RL!CollectLimit],
               tasks' = tasks, run' = run
        PROVE  LoopInv'
    <2>1. <<thread.kind, id>> \in DOMAIN board /\ <<thread.kind, id>> \in RL!Ready(board)
      BY DEF RL!Claimable, RL!Ready
    <2>2. /\ Board(board') /\ DOMAIN board' = DOMAIN board
          /\ \A k \in Unread(board') : k # <<thread.kind, id>> /\ k \in Unread(board)
      BY <1>1, <1>3, <2>1, ServedBoard, MovesAre
    <2>3. /\ thread'.pc = "work" /\ thread'.kind = thread.kind /\ thread'.id = id
          /\ thread'.tasks = tasks /\ thread'.limit = RL!CollectLimit
          /\ thread' = [pc |-> thread'.pc, kind |-> thread'.kind, id |-> thread'.id,
                        tasks |-> thread'.tasks, limit |-> thread'.limit, got |-> thread'.got]
      BY <1>3 DEF LoopInv, LoopTypes
    <2>4. thread.kind = "collect" =>
             RL!CollectLimit \in Nat /\ RL!Cardinality(sources) + RL!CollectLimit <= MaxTotal
      BY <1>3, LimitIs DEF LoopInv
    <2>5. LoopTypes'
      BY <1>1, <1>3, <2>1, <2>2, <2>3, <2>4 DEF LoopInv, LoopTypes, Board, LoopRun
    <2>6. CoveredInv' /\ BudgetInv'
      BY <1>1, <1>3, <2>3, <2>4 DEF LoopInv, CoveredInv, BudgetInv, Covered
    <2>7. ASSUME Alone' PROVE AloneInv'
      <3>1. AloneInv
        BY <1>1, <2>7 DEF Alone, LoopInv
      <3>2. Unread(board') = {} /\ Unread(board)' = Unread(board')
        <4>1. CASE thread.kind = "extract"
          <5>1. <<thread.kind, id>> \in Unread(board)
            BY <2>1, <4>1 DEF Unread
          <5> QED
            BY <2>2, <3>1, <5>1 DEF AloneInv, Unread, RL!Ready
        <4>2. CASE thread.kind # "extract"
          <5>1. Unread(board) = {}
            BY <1>1, <3>1, <4>2 DEF AloneInv
          <5> QED
            BY <2>2, <5>1 DEF Unread, RL!Ready
        <4> QED
          BY <4>1, <4>2
      <3> QED
        BY <1>1, <1>3, <2>2, <2>3, <3>1, <3>2 DEF AloneInv, Active
    <2> QED
      BY <2>5, <2>6, <2>7 DEF LoopInv, Alone
  <1>4. ASSUME NEW id \in RL!Claimable(thread.kind, board, tasks),
               thread.kind = "collect",
               board' = RL!Moved(board, "collect", id, "requires_human"),
               tasks' = [tasks EXCEPT ![id] = "requires_human"],
               thread' = [RL!Idle EXCEPT !.pc = "decide"],
               run' = [run EXCEPT !.actions = @ + 1]
        PROVE  LoopInv'
    <2>1. <<"collect", id>> \in DOMAIN board
      BY <1>4 DEF RL!Claimable, RL!Ready
    <2>2. /\ Board(board') /\ DOMAIN board' = DOMAIN board
          /\ \A k \in Unread(board') : k \in Unread(board)
      BY <1>1, <1>4, <2>1, MovedBoard, MovedUnread, MovesAre
    <2>3. /\ thread'.pc = "decide"
          /\ thread' = [pc |-> thread'.pc, kind |-> thread'.kind, id |-> thread'.id,
                        tasks |-> thread'.tasks, limit |-> thread'.limit, got |-> thread'.got]
      BY <1>4 DEF RL!Idle
    <2>4. LoopRun(run') /\ run'.status = run.status
      BY <1>1, <1>4 DEF LoopRun
    <2>5. LoopTypes'
      BY <1>1, <2>2, <2>3, <2>4 DEF LoopInv, LoopTypes, Board, LoopRun
    <2>6. CoveredInv' /\ BudgetInv'
      BY <1>1, <2>3, <2>4 DEF LoopInv, CoveredInv, BudgetInv, Covered
    <2>7. ASSUME Alone' PROVE AloneInv'
      <3>1. AloneInv
        BY <1>1, <2>7 DEF Alone, LoopInv
      <3>2. Unread(board') = {} /\ Unread(board)' = Unread(board')
        BY <1>1, <1>4, <2>2, <3>1 DEF AloneInv, Unread, RL!Ready
      <3>3. DOMAIN tasks' = DOMAIN tasks
        BY <1>4
      <3> QED
        BY <1>1, <2>2, <2>3, <2>4, <3>1, <3>2, <3>3 DEF AloneInv, Active
    <2> QED
      BY <2>5, <2>6, <2>7 DEF LoopInv, Alone
  <1> QED
    BY <1>2, <1>3, <1>4 DEF RL!Claim

LEMMA WorkCollectKeeps == ASSUME LoopInv, RL!WorkCollect PROVE LoopInv'
  <1>1. /\ thread.pc = "work" /\ thread.kind = "collect" /\ evidence' = evidence
        /\ UNCHANGED <<plan, tasks, board, run, manual, losses>>
        /\ Board(board) /\ thread.limit \in Nat
    BY DEF RL!WorkCollect, LoopInv, LoopTypes
  <1>2. PICK got \in RL!TriedUrls(thread.limit) :
           /\ sources' = sources \cup got
           /\ thread' = [thread EXCEPT !.pc = "store", !.got = got]
    BY DEF RL!WorkCollect
  <1>3. /\ got \subseteq Pages /\ IsFiniteSet(got) /\ RL!Cardinality(got) \in Nat
        /\ RL!Cardinality(got) <= thread.limit
    BY LoopConstants, LoopCounts, FS_Subset, FS_CardinalityType DEF RL!TriedUrls
  <1>4. /\ thread'.pc = "store" /\ thread'.kind = "collect" /\ thread'.id = thread.id
        /\ thread'.tasks = thread.tasks /\ thread'.got = got
        /\ thread' = [pc |-> thread'.pc, kind |-> thread'.kind, id |-> thread'.id,
                      tasks |-> thread'.tasks, limit |-> thread'.limit, got |-> thread'.got]
    BY <1>1, <1>2 DEF LoopInv, LoopTypes
  <1>5. LoopTypes'
    BY <1>1, <1>2, <1>3, <1>4 DEF LoopInv, LoopTypes, Board, LoopRun
  <1>6. CoveredInv'
    BY <1>1 DEF LoopInv, CoveredInv, Covered
  <1>7. BudgetInv'
    <2>1. /\ IsFiniteSet(sources) /\ RL!Cardinality(sources) \in Nat
          /\ RL!Cardinality(sources \cup got) <= RL!Cardinality(sources) + RL!Cardinality(got)
      <3>1. IsFiniteSet(sources) /\ RL!Cardinality(sources) \in Nat
        BY SourcesAreFinite DEF LoopInv
      <3>2. /\ IsFiniteSet(sources \cap got) /\ RL!Cardinality(sources \cap got) \in Nat
        BY <3>1, LoopCounts, FS_Subset, FS_CardinalityType
      <3>3. RL!Cardinality(sources \cup got) =
               RL!Cardinality(sources) + RL!Cardinality(got) - RL!Cardinality(sources \cap got)
        BY <1>3, <3>1, LoopCounts, FS_Union
      <3> QED
        BY <1>3, <3>1, <3>2, <3>3
    <2>2. RL!Cardinality(sources \cup got) \in Nat /\ MaxTotal \in Nat
      BY <1>3, <2>1, LoopCounts, FS_Union, FS_CardinalityType, LoopConstants
    <2>3. manual = 0 => RL!Cardinality(sources) + thread.limit <= MaxTotal
      BY <1>1 DEF LoopInv, BudgetInv
    <2>4. manual = 0 => RL!Cardinality(sources \cup got) <= MaxTotal
      BY <1>1, <1>3, <2>1, <2>2, <2>3
    <2> QED
      BY <1>1, <1>2, <1>4, <2>4 DEF BudgetInv
  <1>8. ASSUME Alone' PROVE AloneInv'
    <2>1. AloneInv
      BY <1>1, <1>8 DEF Alone, LoopInv
    <2>2. Unread(board)' = Unread(board) /\ Unread(board) = {}
      BY <1>1, <2>1 DEF AloneInv, Unread, RL!Ready
    <2> QED
      BY <1>1, <1>4, <2>1, <2>2 DEF AloneInv, Active
  <1> QED
    BY <1>5, <1>6, <1>7, <1>8 DEF LoopInv, Alone

LEMMA ExtractedIsFinite ==
    ASSUME NEW b, Board(b), NEW id, <<"extract", id>> \in DOMAIN b
    PROVE  IsFiniteSet(RL!Extracted(b, id))
  <1>1. b[<<"extract", id>>].pages \in SUBSET Pages
    BY DEF Board, BoardRecord
  <1>2. RL!Extracted(b, id) = QuotesOf(b[<<"extract", id>>].pages, id[1])
    BY DEF RL!Extracted, QuotesOf
  <1> QED
    BY <1>1, <1>2, QuotesAreFinite

LEMMA WorkExtractKeeps == ASSUME LoopInv, RL!WorkExtract PROVE LoopInv'
  <1>1. /\ thread.pc = "work" /\ thread.kind = "extract"
        /\ UNCHANGED <<plan, tasks, board, sources, manual, losses>>
        /\ Board(board) /\ <<"extract", thread.id>> \in DOMAIN board
    BY DEF RL!WorkExtract, LoopInv, LoopTypes
  <1>2. CASE /\ evidence' = evidence \cup RL!Extracted(board, thread.id)
             /\ thread' = [thread EXCEPT !.pc = "store", !.got = RL!Extracted(board, thread.id)]
             /\ run' = run
    <2>1. IsFiniteSet(evidence') /\ evidence \subseteq evidence'
      BY <1>1, <1>2, ExtractedIsFinite, LoopCounts, FS_Union DEF LoopInv, LoopTypes
    <2>2. /\ thread'.pc = "store" /\ thread'.kind = "extract" /\ thread'.id = thread.id
          /\ thread'.tasks = thread.tasks
          /\ thread' = [pc |-> thread'.pc, kind |-> thread'.kind, id |-> thread'.id,
                        tasks |-> thread'.tasks, limit |-> thread'.limit, got |-> thread'.got]
      BY <1>1, <1>2 DEF LoopInv, LoopTypes
    <2>3. LoopTypes'
      BY <1>1, <1>2, <2>1, <2>2 DEF LoopInv, LoopTypes, Board, LoopRun
    <2>4. CoveredInv'
      BY <1>1, <1>2, <2>1, CoveredStays DEF LoopInv, CoveredInv
    <2>5. BudgetInv'
      BY <1>1, <2>2 DEF LoopInv, BudgetInv
    <2>6. ASSUME Alone' PROVE AloneInv'
      <3>1. AloneInv
        BY <1>1, <2>6 DEF Alone, LoopInv
      <3>2. Unread(board)' = Unread(board) /\ Unread(board) = {}
        BY <1>1, <3>1 DEF AloneInv, Unread, RL!Ready
      <3> QED
        BY <1>1, <1>2, <2>2, <3>1, <3>2 DEF AloneInv, Active
    <2> QED
      BY <2>3, <2>4, <2>5, <2>6 DEF LoopInv, Alone
  <1>3. CASE RL!Fail /\ evidence' = evidence
    <2>1. Alone => Unread(board) = {}
      BY <1>1 DEF LoopInv, AloneInv, Alone
    <2>2. "failed" \in RL!Ended /\ "failed" # "completed" /\ RL!Finish("failed", "failed")
      BY <1>3 DEF RL!Ended, RL!Fail
    <2> QED
      BY <1>1, <1>3, <2>1, <2>2, EndKeeps
  <1> QED
    BY <1>2, <1>3 DEF RL!WorkExtract

LEMMA RefreshLeaves ==
    ASSUME NEW b, Board(b), RL!Refresh(b), evidence' = evidence
    PROVE  /\ Board(board') /\ DOMAIN b \subseteq DOMAIN board'
           /\ Unread(board') \subseteq Unread(b)
           /\ DOMAIN tasks \subseteq DOMAIN tasks'
           /\ \A k \in DOMAIN board' \ DOMAIN b : k[2] \in DOMAIN tasks'
           /\ plan'.status \in {"needs_collection", "ready_for_analysis", "blocked"}
           /\ plan'.status = "blocked" => plan'.exhausted # {}
           /\ plan'.status = "ready_for_analysis" => Covered'
  <1> DEFINE new == RL!Supplements(tasks, RL!CoverageNow, RL!Cardinality(sources))
             gone == RL!Exhausted(tasks, RL!CoverageNow, RL!Cardinality(sources))
             open == RL!Gaps(RL!CoverageNow)
  <1>1. /\ board' = RL!PublishedRecords(b, new) /\ tasks' = RL!PublishedTasks(new)
        /\ plan' = RL!PlanOf(tasks, RL!CoverageNow, RL!Cardinality(sources))
    BY DEF RL!Refresh
  <1>2. DOMAIN tasks' = DOMAIN tasks \cup new
    BY <1>1 DEF RL!PublishedTasks, RL!Patch
  <1>3. /\ Board(board') /\ DOMAIN board' = DOMAIN b \cup {<<"collect", i>> : i \in new}
        /\ Unread(board') \subseteq Unread(b)
    BY <1>1, PublishedBoard
  <1>4. /\ plan'.status = IF open = {} THEN "ready_for_analysis"
                          ELSE IF gone = open THEN "blocked" ELSE "needs_collection"
        /\ plan'.exhausted = gone
    BY <1>1 DEF RL!PlanOf
  <1> HIDE DEF new, gone
  <1>5. open = {} => Covered
    BY DEF RL!Gaps, RL!CoverageNow, Covered
  <1>6. Covered => Covered'
    BY DEF Covered
  <1> HIDE DEF open
  <1> QED
    BY <1>2, <1>3, <1>4, <1>5, <1>6

LEMMA WorkEvaluateKeeps == ASSUME LoopInv, RL!WorkEvaluate PROVE LoopInv'
  <1>1. /\ thread.pc = "work" /\ thread.kind = "evaluate" /\ evidence' = evidence
        /\ RL!Refresh(board) /\ UNCHANGED <<sources, run, manual, losses>>
        /\ Board(board) /\ <<thread.kind, thread.id>> \in DOMAIN board
        /\ thread' = [thread EXCEPT !.pc = "store"]
    BY DEF RL!WorkEvaluate, LoopInv, LoopTypes
  <1>2. /\ Board(board') /\ DOMAIN board \subseteq DOMAIN board'
        /\ Unread(board') \subseteq Unread(board)
        /\ DOMAIN tasks \subseteq DOMAIN tasks'
        /\ \A k \in DOMAIN board' \ DOMAIN board : k[2] \in DOMAIN tasks'
        /\ plan'.status \in {"needs_collection", "ready_for_analysis", "blocked"}
        /\ plan'.status = "blocked" => plan'.exhausted # {}
        /\ plan'.status = "ready_for_analysis" => Covered'
    BY <1>1, RefreshLeaves
  <1>3. /\ thread'.pc = "store" /\ thread'.kind = "evaluate" /\ thread'.id = thread.id
        /\ thread' = [pc |-> thread'.pc, kind |-> thread'.kind, id |-> thread'.id,
                      tasks |-> thread'.tasks, limit |-> thread'.limit, got |-> thread'.got]
    BY <1>1 DEF LoopInv, LoopTypes
  <1>4. Board(board)' /\ Unread(board)' = Unread(board')
    BY <1>2 DEF Board, Unread, RL!Ready
  <1>5. LoopTypes'
    BY <1>1, <1>2, <1>3, <1>4 DEF LoopInv, LoopTypes, LoopRun
  <1>6. CoveredInv' /\ BudgetInv'
    BY <1>1, <1>2, <1>3 DEF LoopInv, CoveredInv, BudgetInv, Covered
  <1>7. ASSUME Alone' PROVE AloneInv'
    <2>1. AloneInv /\ Unread(board) = {}
      BY <1>1, <1>7 DEF Alone, LoopInv, AloneInv
    <2>2. \A k \in DOMAIN board' : k[2] \in DOMAIN tasks'
      BY <1>2, <2>1 DEF AloneInv
    <2>3. Unread(board)' = {}
      BY <1>2, <1>4, <2>1
    <2> QED
      BY <1>1, <1>3, <2>1, <2>2, <2>3 DEF AloneInv, Active
  <1> QED
    BY <1>5, <1>6, <1>7 DEF LoopInv, Alone

(* What the end of a stage leaves of the board and the tasks, by the loop  *)
(* or by hand: at most the extraction of what was collected is new.        *)
LEMMA CollectionLeaves ==
    ASSUME NEW b, Board(b), NEW id, <<"collect", id>> \in DOMAIN b, NEW got \in SUBSET Pages
    PROVE  LET a == RL!AfterCollection(b, id, got)
           IN  /\ Board(a) /\ DOMAIN b \subseteq DOMAIN a
               /\ DOMAIN a \subseteq DOMAIN b \cup {<<"extract", id>>}
               /\ \A k \in Unread(a) : k \in Unread(b) \/ k = <<"extract", id>>
  <1> DEFINE a == RL!AfterCollection(b, id, got)
  <1>1. CASE got = {}
    <2>1. a = RL!Moved(b, "collect", id, "failed")
      BY <1>1 DEF RL!AfterCollection
    <2>2. /\ Board(a) /\ DOMAIN a = DOMAIN b
          /\ \A k \in Unread(a) : k \in Unread(b) \/ k = <<"extract", id>>
      BY <2>1, MovedBoard, MovedUnread, MovesAre
    <2> QED
      BY <2>2
  <1>2. CASE got # {}
    <2> DEFINE m == RL!Moved(b, "collect", id, "completed")
    <2>1. /\ Board(m) /\ DOMAIN m = DOMAIN b
          /\ \A k \in Unread(m) : k \in Unread(b) \/ k = <<"extract", id>>
      BY MovedBoard, MovedUnread, MovesAre
    <2>2. a = Opened(m, "extract", id, "extractor", got)
      BY <1>2 DEF RL!AfterCollection, Opened
    <2> HIDE DEF m, a
    <2>3. RL!DependsOn(<<"extract", id>>) \subseteq DOMAIN m
      BY <2>1 DEF RL!DependsOn
    <2>4. /\ Board(a) /\ DOMAIN a = DOMAIN m \cup {<<"extract", id>>}
          /\ \A k \in Unread(a) : k \in Unread(m) \/ k = <<"extract", id>>
      <3>1. DOMAIN a = DOMAIN m \cup {<<"extract", id>>}
        BY ONLY <2>2 DEF Opened, RL!Marked, RL!Patch, RL!Open
      <3>2. Board(a)
        BY ONLY <2>1, <2>2, <2>3, OpenedBoard
      <3>3. \A k \in Unread(a) : k \in Unread(m) \/ k = <<"extract", id>>
        BY ONLY <2>1, <2>2, <2>3, OpenedBoard
      <3> QED
        BY <3>1, <3>2, <3>3
    <2>5. Board(a) /\ DOMAIN b \subseteq DOMAIN a
          /\ DOMAIN a \subseteq DOMAIN b \cup {<<"extract", id>>}
          /\ \A k \in Unread(a) : k \in Unread(b) \/ k = <<"extract", id>>
      BY <2>1, <2>4
    <2> QED
      BY <2>5 DEF a
  <1> QED
    BY <1>1, <1>2

LEMMA ExtractionLeaves ==
    ASSUME NEW b, Board(b), NEW id, <<"extract", id>> \in DOMAIN b
    PROVE  LET a == RL!AfterExtraction(b, id)
           IN  /\ Board(a) /\ DOMAIN b \subseteq DOMAIN a
               /\ DOMAIN a \subseteq DOMAIN b \cup {<<"evaluate", id>>}
               /\ Unread(a) \subseteq Unread(b)
  <1> DEFINE a == RL!AfterExtraction(b, id)
             m == RL!Moved(b, "extract", id, "completed")
  <1>1. /\ Board(m) /\ DOMAIN m = DOMAIN b /\ Unread(m) \subseteq Unread(b)
    BY MovedBoard, MovedUnread, MovesAre
  <1>2. a = Opened(m, "evaluate", id, "analyst", {})
    BY DEF RL!AfterExtraction, Opened
  <1> HIDE DEF m, a
  <1>3. RL!DependsOn(<<"evaluate", id>>) \subseteq DOMAIN m
    BY <1>1 DEF RL!DependsOn
  <1>4. /\ Board(a) /\ DOMAIN a = DOMAIN m \cup {<<"evaluate", id>>}
        /\ Unread(a) \subseteq Unread(m)
    <2>1. DOMAIN a = DOMAIN m \cup {<<"evaluate", id>>}
      BY ONLY <1>2 DEF Opened, RL!Marked, RL!Patch, RL!Open
    <2>2. Board(a)
      BY ONLY <1>1, <1>2, <1>3, OpenedBoard
    <2>3. \A k \in Unread(a) : k \in Unread(m)
      BY ONLY <1>1, <1>2, <1>3, OpenedBoard
    <2> QED
      BY <2>1, <2>2, <2>3
  <1>5. /\ Board(a) /\ DOMAIN b \subseteq DOMAIN a
        /\ DOMAIN a \subseteq DOMAIN b \cup {<<"evaluate", id>>}
        /\ Unread(a) \subseteq Unread(b)
    BY <1>1, <1>4
  <1> QED
    BY <1>5 DEF a

(* What the end of a stage has to keep: the board may have one extraction  *)
(* more to claim, and no plan is decided but by an evaluation.             *)
LEMMA EndOfStage ==
    ASSUME LoopInv, thread.pc = "store", UNCHANGED <<plan, sources, evidence, manual, losses>>,
           Board(board'), DOMAIN board \subseteq DOMAIN board',
           Alone => /\ \A k \in DOMAIN board' : k[2] \in DOMAIN tasks'
                    /\ \A k, l \in Unread(board') : k = l
                    /\ plan.status # "needs_collection" => Unread(board') = {},
           run' = [run EXCEPT !.actions = @ + 1, !.sources = RL!Cardinality(sources)],
           thread' = [RL!Idle EXCEPT !.pc = "decide"]
    PROVE  LoopInv'
  <1>1. LoopRun(run') /\ run'.status = run.status
    <2>1. LoopRun(run)
      BY DEF LoopInv, LoopTypes
    <2>2. run' = [status |-> run.status, reason |-> run.reason, stage |-> run.stage,
                  actions |-> run.actions + 1, sources |-> RL!Cardinality(sources)]
      BY <2>1 DEF LoopRun
    <2>3. run.status \in {"none"} \cup Active \cup RL!Ended /\ run.actions + 1 \in Nat
      BY <2>1 DEF LoopRun
    <2>4. /\ run'.status = run.status /\ run'.actions = run.actions + 1
          /\ run' = [status |-> run'.status, reason |-> run'.reason, stage |-> run'.stage,
                     actions |-> run'.actions, sources |-> run'.sources]
      BY <2>2
    <2> QED
      BY <2>3, <2>4 DEF LoopRun
  <1>2. /\ thread'.pc = "decide"
        /\ thread' = [pc |-> thread'.pc, kind |-> thread'.kind, id |-> thread'.id,
                      tasks |-> thread'.tasks, limit |-> thread'.limit, got |-> thread'.got]
    BY DEF RL!Idle
  <1>3. Board(board)' /\ Unread(board)' = Unread(board')
    BY DEF Board, Unread, RL!Ready
  <1>4. LoopTypes'
    BY <1>1, <1>2, <1>3 DEF LoopInv, LoopTypes, LoopRun
  <1>5. CoveredInv' /\ BudgetInv'
    BY <1>1, <1>2 DEF LoopInv, CoveredInv, BudgetInv, Covered
  <1>6. ASSUME Alone' PROVE AloneInv'
    <2>1. AloneInv /\ Alone
      BY <1>6 DEF Alone, LoopInv
    <2>2. run.status \in Active
      BY <2>1 DEF AloneInv
    <2> QED
      BY <1>1, <1>2, <1>3, <2>1, <2>2 DEF AloneInv, Active, RL!Ended
  <1> QED
    BY <1>4, <1>5, <1>6 DEF LoopInv, Alone

LEMMA StoreKeeps == ASSUME LoopInv, RL!Store PROVE LoopInv'
  <1>1. /\ thread.pc = "store" /\ UNCHANGED <<plan, sources, evidence, manual, losses>>
        /\ run' = [run EXCEPT !.actions = @ + 1, !.sources = RL!Cardinality(sources)]
        /\ thread' = [RL!Idle EXCEPT !.pc = "decide"]
        /\ Board(board) /\ <<thread.kind, thread.id>> \in DOMAIN board
        /\ thread.kind \in RL!Kinds
    BY DEF RL!Store, LoopInv, LoopTypes
  <1>2. ASSUME Alone
        PROVE  /\ AloneInv /\ Unread(board) = {}
               /\ thread.kind # "evaluate" => DOMAIN thread.tasks = DOMAIN tasks
               /\ thread.kind # "evaluate" => plan.status = "needs_collection"
    BY <1>1, <1>2 DEF LoopInv, AloneInv, Alone
  <1>3. CASE thread.kind = "collect"
    <2>1. /\ tasks' = [thread.tasks EXCEPT ![thread.id] = RL!Collected(thread.got)]
          /\ board' = RL!AfterCollection(board, thread.id, thread.got)
      BY <1>3 DEF RL!Store
    <2>2. /\ Board(board') /\ DOMAIN board \subseteq DOMAIN board'
          /\ DOMAIN board' \subseteq DOMAIN board \cup {<<"extract", thread.id>>}
          /\ \A k \in Unread(board') : k \in Unread(board) \/ k = <<"extract", thread.id>>
      <3>1. thread.got \in SUBSET Pages
        BY <1>1, <1>3 DEF LoopInv, LoopTypes
      <3> QED
        BY <1>1, <1>3, <2>1, <3>1, CollectionLeaves
    <2>3. ASSUME Alone
          PROVE  /\ \A k \in DOMAIN board' : k[2] \in DOMAIN tasks'
                 /\ \A k, l \in Unread(board') : k = l
                 /\ plan.status # "needs_collection" => Unread(board') = {}
      <3>1. DOMAIN tasks' = DOMAIN tasks
        BY <1>2, <1>3, <2>1, <2>3
      <3>2. thread.id \in DOMAIN tasks
        BY <1>1, <1>2, <2>3 DEF AloneInv
      <3> QED
        BY <1>2, <1>3, <2>2, <2>3, <3>1, <3>2 DEF AloneInv
    <2> QED
      BY <1>1, <2>2, <2>3, EndOfStage
  <1>4. CASE thread.kind = "extract"
    <2>1. /\ Board(board') /\ DOMAIN board \subseteq DOMAIN board'
          /\ DOMAIN board' \subseteq DOMAIN board \cup {<<"evaluate", thread.id>>}
          /\ Unread(board') \subseteq Unread(board)
          /\ tasks' = tasks \/ DOMAIN tasks' = DOMAIN thread.tasks
      <3>1. CASE thread.got = {}
        <4>1. board' = RL!Moved(board, "extract", thread.id, "failed") /\ tasks' = tasks
          BY <1>4, <3>1 DEF RL!Store
        <4>2. /\ Board(board') /\ DOMAIN board' = DOMAIN board
              /\ Unread(board') \subseteq Unread(board)
          BY <1>1, <1>4, <4>1, ServedBoard, MovesAre
        <4> QED
          BY <4>1, <4>2
      <3>2. CASE thread.got # {}
        <4>1. /\ board' = RL!AfterExtraction(board, thread.id)
              /\ tasks' = [thread.tasks EXCEPT ![thread.id] = "evidence_extracted"]
          BY <1>4, <3>2 DEF RL!Store
        <4> QED
          BY <1>1, <1>4, <4>1, ExtractionLeaves
      <3> QED
        BY <3>1, <3>2
    <2>2. ASSUME Alone
          PROVE  /\ \A k \in DOMAIN board' : k[2] \in DOMAIN tasks'
                 /\ \A k, l \in Unread(board') : k = l
                 /\ plan.status # "needs_collection" => Unread(board') = {}
      <3>1. DOMAIN tasks' = DOMAIN tasks
        BY <1>2, <1>4, <2>1, <2>2
      <3>2. thread.id \in DOMAIN tasks
        BY <1>1, <1>2, <2>2 DEF AloneInv
      <3> QED
        BY <1>2, <2>1, <2>2, <3>1, <3>2 DEF AloneInv
    <2> QED
      BY <1>1, <2>1, <2>2, EndOfStage
  <1>5. CASE thread.kind = "evaluate"
    <2>1. board' = RL!Moved(board, "evaluate", thread.id, "completed") /\ tasks' = tasks
      BY <1>5 DEF RL!Store
    <2>2. /\ Board(board') /\ DOMAIN board' = DOMAIN board
          /\ Unread(board') \subseteq Unread(board)
      BY <1>1, <1>5, <2>1, ServedBoard, MovesAre
    <2>3. ASSUME Alone
          PROVE  /\ \A k \in DOMAIN board' : k[2] \in DOMAIN tasks'
                 /\ \A k, l \in Unread(board') : k = l
                 /\ plan.status # "needs_collection" => Unread(board') = {}
      BY <1>2, <2>1, <2>2, <2>3 DEF AloneInv
    <2> QED
      BY <1>1, <2>2, <2>3, EndOfStage
  <1> QED
    BY <1>1, <1>3, <1>4, <1>5 DEF RL!Kinds

LEMMA CrashKeeps == ASSUME LoopInv, RL!Crash PROVE LoopInv'
  <1>1. /\ UNCHANGED <<plan, tasks, board, sources, coverage, run, manual>>
        /\ evidence' = evidence /\ thread' = RL!Idle
        /\ losses \in Nat /\ losses' = losses + 1 /\ Board(board) /\ LoopRun(run)
    BY DEF RL!Crash, RL!Records, LoopInv, LoopTypes
  <1>2. LoopTypes'
    BY <1>1, TypesStay DEF LoopInv
  <1>3. thread'.pc = "idle"
    BY <1>1 DEF RL!Idle
  <1>4. CoveredInv' /\ BudgetInv'
    BY <1>1, <1>3 DEF LoopInv, CoveredInv, BudgetInv, Covered
  <1>5. losses' # 0
    BY <1>1
  <1> QED
    BY <1>2, <1>4, <1>5 DEF LoopInv

LEMMA ReconcileKeeps == ASSUME LoopInv, RL!ReconcileInterrupted PROVE LoopInv'
  <1>1. /\ UNCHANGED <<plan, tasks, board, sources, coverage, thread, manual, losses>>
        /\ evidence' = evidence /\ Board(board)
        /\ thread.pc = "idle" /\ run.status \in Active
        /\ run' = [run EXCEPT !.status = "failed", !.reason = "failed"]
    BY DEF RL!ReconcileInterrupted, RL!Records, LoopInv, LoopTypes, Active
  <1>2. LoopRun(run') /\ run'.status = "failed"
    BY <1>1 DEF LoopInv, LoopTypes, LoopRun, RL!Ended
  <1>3. LoopTypes'
    BY <1>1, <1>2 DEF LoopInv, LoopTypes, Board
  <1>4. CoveredInv' /\ BudgetInv'
    BY <1>1, <1>2 DEF LoopInv, CoveredInv, BudgetInv, Covered
  <1>5. ~ Alone /\ ~ Alone'
    BY <1>1 DEF LoopInv, AloneInv, Alone
  <1> QED
    BY <1>3, <1>4, <1>5 DEF LoopInv, Alone

-----------------------------------------------------------------------------
(* The steps by hand: after one the loop is not alone any more. *)

LEMMA HandKeeps ==
    ASSUME LoopInv, NEW kind, RL!Hand(kind), run' = run, thread' = thread, losses' = losses,
           plan'.status \in {"needs_collection", "ready_for_analysis", "blocked"},
           plan'.status = "blocked" => plan'.exhausted # {},
           plan' = plan \/ (plan'.status = "ready_for_analysis" => Covered'),
           Board(board'), DOMAIN board \subseteq DOMAIN board',
           sources' \subseteq Pages, IsFiniteSet(evidence'), evidence \subseteq evidence'
    PROVE  LoopInv'
  <1>1. manual \in Nat /\ manual' = manual + 1 /\ LoopRun(run)
    BY DEF RL!Hand, LoopInv, LoopTypes
  <1>2. manual' \in Nat /\ manual' # 0
    BY <1>1
  <1>3. Board(board)'
    BY DEF Board
  <1>4. LoopTypes'
    BY <1>1, <1>2, <1>3 DEF LoopInv, LoopTypes, LoopRun
  <1>5. CoveredInv'
    BY CoveredStays DEF LoopInv, CoveredInv
  <1> QED
    BY <1>2, <1>4, <1>5 DEF LoopInv, BudgetInv

LEMMA CollectByHandKeeps == ASSUME LoopInv, RL!CollectByHand PROVE LoopInv'
  <1>1. /\ RL!Hand("collect") /\ run' = run /\ thread' = thread /\ losses' = losses
        /\ plan' = plan /\ evidence' = evidence /\ Board(board)
    BY DEF RL!CollectByHand, LoopInv, LoopTypes
  <1>2. PICK id \in RL!Claimable("collect", board, tasks), got \in RL!TriedUrls(MaxPerTask) :
           sources' = sources \cup got /\ board' = RL!AfterCollection(board, id, got)
    BY DEF RL!CollectByHand
  <1>3. got \in SUBSET Pages /\ <<"collect", id>> \in DOMAIN board
    BY DEF RL!TriedUrls, RL!Claimable, RL!Ready
  <1>4. Board(board') /\ DOMAIN board \subseteq DOMAIN board'
    BY <1>1, <1>2, <1>3, CollectionLeaves
  <1> QED
    BY <1>1, <1>2, <1>3, <1>4, HandKeeps DEF LoopInv, LoopTypes

LEMMA ExtractByHandKeeps == ASSUME LoopInv, RL!ExtractByHand PROVE LoopInv'
  <1>1. /\ RL!Hand("extract") /\ run' = run /\ thread' = thread /\ losses' = losses
        /\ plan' = plan /\ sources' = sources /\ Board(board)
    BY DEF RL!ExtractByHand, LoopInv, LoopTypes
  <1>2. PICK id \in RL!Claimable("extract", board, tasks) :
           /\ evidence' = evidence \cup RL!Extracted(board, id)
           /\ \/ board' = RL!Moved(board, "extract", id, "failed")
              \/ board' = RL!AfterExtraction(board, id)
    BY DEF RL!ExtractByHand
  <1>3. <<"extract", id>> \in DOMAIN board
    BY DEF RL!Claimable, RL!Ready
  <1>4. IsFiniteSet(evidence') /\ evidence \subseteq evidence'
    BY <1>1, <1>2, <1>3, ExtractedIsFinite, LoopCounts, FS_Union DEF LoopInv, LoopTypes
  <1>5. Board(board') /\ DOMAIN board \subseteq DOMAIN board'
    <2>1. CASE board' = RL!Moved(board, "extract", id, "failed")
      BY <1>1, <1>3, <2>1, MovedBoard, MovedUnread, MovesAre
    <2>2. CASE board' = RL!AfterExtraction(board, id)
      BY <1>1, <1>3, <2>2, ExtractionLeaves
    <2> QED
      BY <1>2, <2>1, <2>2
  <1> QED
    BY <1>1, <1>4, <1>5, HandKeeps DEF LoopInv, LoopTypes

LEMMA EvaluateByHandKeeps == ASSUME LoopInv, RL!EvaluateByHand PROVE LoopInv'
  <1>1. /\ RL!Hand("evaluate") /\ run' = run /\ thread' = thread /\ losses' = losses
        /\ sources' = sources /\ evidence' = evidence /\ Board(board)
    BY DEF RL!EvaluateByHand, LoopInv, LoopTypes
  <1>2. PICK id \in RL!Claimable("evaluate", board, tasks) :
           RL!Refresh(RL!Moved(board, "evaluate", id, "completed"))
    BY DEF RL!EvaluateByHand
  <1>3. <<"evaluate", id>> \in DOMAIN board
    BY DEF RL!Claimable, RL!Ready
  <1>4. PICK b : b = RL!Moved(board, "evaluate", id, "completed")
    OBVIOUS
  <1>5. Board(b) /\ DOMAIN b = DOMAIN board
    BY <1>1, <1>3, <1>4, MovedBoard, MovedUnread, MovesAre
  <1>6. /\ Board(board') /\ DOMAIN b \subseteq DOMAIN board'
        /\ plan'.status \in {"needs_collection", "ready_for_analysis", "blocked"}
        /\ plan'.status = "blocked" => plan'.exhausted # {}
        /\ plan'.status = "ready_for_analysis" => Covered'
    BY <1>1, <1>2, <1>4, <1>5, RefreshLeaves
  <1> QED
    BY <1>1, <1>5, <1>6, HandKeeps DEF LoopInv, LoopTypes

-----------------------------------------------------------------------------
-----------------------------------------------------------------------------
LEMMA LoopStepKeeps == ASSUME LoopInv, RL!Next \/ UNCHANGED loop PROVE LoopInv'
  <1>1. CASE UNCHANGED loop
    BY <1>1 DEF loop, LoopInv, LoopTypes, Board, LoopRun, CoveredInv, Covered, BudgetInv,
                AloneInv, Unread, RL!Ready
  <1>2. CASE RL!Next
    BY <1>1, <1>2, SubmitKeeps, LoopStartKeeps, DecideKeeps, ClaimKeeps, WorkCollectKeeps,
       WorkExtractKeeps, WorkEvaluateKeeps, StoreKeeps, CrashKeeps, ReconcileKeeps,
       CollectByHandKeeps, ExtractByHandKeeps, EvaluateByHandKeeps
       DEF RL!Next, RL!ThreadStep, RL!Work, RL!Done, RL!vars, loop
  <1> QED
    BY <1>1, <1>2

LEMMA LoopInvIsHonest == ASSUME LoopInv PROVE LoopIsHonest
  <1>1. RL!CompletedIsCovered
    BY DEF LoopInv, CoveredInv, Covered, RL!CompletedIsCovered
  <1>2. RL!SourceBudgetKept
    <2>1. RL!Cardinality(sources) \in Nat /\ MaxTotal \in Nat /\ manual \in Nat
      BY SourcesAreFinite, LoopConstants DEF LoopInv, LoopTypes
    <2> QED
      BY <2>1 DEF LoopInv, BudgetInv, RL!SourceBudgetKept
  <1>3. RL!PaidSourcesAreRead
    BY DEF LoopInv, AloneInv, RL!PaidSourcesAreRead, Unread
  <1> QED
    BY <1>1, <1>2, <1>3 DEF LoopIsHonest, RL!LoopIsHonest

-----------------------------------------------------------------------------
(* The analysis: its inductive invariant. *)

Gap ==
    {PA!CoverageGap(t) : t \in Tasks} \cup {PA!ResearchGap(t) : t \in Tasks}
       \cup {PA!AssessedGap(es) : es \in SUBSET Tasks}

RunRecord ==
    [id : Pipelines \cup {"none"}, attempt : 1..2, shard : 1..Shards, calls : Nat, others : Nat,
     reused : BOOLEAN, evidence : SUBSET Tasks, coverage : SUBSET Tasks, gaps : SUBSET Gap,
     coverage0 : SUBSET Tasks, gaps0 : SUBSET Gap, beside : BOOLEAN]

(* Before and after the portfolio is saved. *)
Before == {"loading", "brief", "binding", "assess", "assessed", "claims", "assembling", "saving"}
After  == {"savingClaims", "savingGaps", "checking", "citing"}

AnalysisTypes ==
    /\ verified \subseteq Tasks /\ ended \subseteq Tasks /\ projected \subseteq Tasks
    /\ gaps \subseteq Gap
    /\ assessed \subseteq Pipelines \X SUBSET Tasks
    /\ portfolio \in BOOLEAN /\ claims \in BOOLEAN /\ cited \in BOOLEAN
    /\ pc \in {"idle"} \cup Before \cup After
    /\ w \in RunRecord
    /\ pc = "idle" => w = PA!NoRun
    /\ pc # "idle" => w.id \in Pipelines

(* The calls that the stages up to here have paid for. *)
CallsInv ==
    /\ pc = "loading" => w.calls = 0 /\ w.attempt = 1
    /\ pc = "brief" => w.calls = w.attempt - 1
    /\ pc = "binding" => w.calls \in 1..2 /\ w.attempt = 1
    /\ pc \in {"loading", "brief", "binding"} => w.shard = 1
    /\ pc \in {"loading", "brief", "binding", "assess", "assessed"} => ~w.reused
    /\ pc = "assess" =>
          w.shard + w.attempt - 1 <= w.calls /\ w.calls <= 2 * w.shard + w.attempt - 1
    /\ pc = "assessed" =>
          w.attempt = 1 /\ PA!ExpectedCalls <= w.calls + 1 /\ w.calls + 2 <= 2 * PA!ExpectedCalls
    /\ pc = "claims" =>
          /\ PA!ExpectedCalls + w.attempt - 1 <= w.calls + 1
          /\ w.calls + 2 <= 2 * PA!ExpectedCalls + w.attempt - 1
    /\ pc \in {"assembling", "saving"} \cup After =>
          PA!ExpectedCalls <= w.calls /\ w.calls <= 2 * PA!ExpectedCalls

(* What the run compares with when it checks changes only beside it. *)
BesideInv ==
    pc # "idle" /\ ~w.beside =>
       /\ w.others = 0 /\ projected = w.coverage0 /\ w.gaps0 \subseteq gaps
       /\ pc # "loading" => w.gaps0 \subseteq w.gaps

(* What the tasks left open is in what is saved, and in what the run has   *)
(* loaded to save.                                                         *)
GapsInv ==
    pc # "idle" =>
       \A t \in Tasks : PA!ResearchGap(t) \in w.gaps0 =>
          PA!ResearchGap(t) \in gaps /\ (pc # "loading" => PA!ResearchGap(t) \in w.gaps)

FinalInv == pc \in Before => ~portfolio

AnalysisInv ==
    /\ AnalysisTypes /\ CallsInv /\ BesideInv /\ GapsInv
    /\ PA!AssessmentIsPaidOnce /\ FinalInv

-----------------------------------------------------------------------------
(* What the invariant says of the properties. *)

LEMMA NoRunIsRun == PA!AnalystAssumption => PA!NoRun \in RunRecord
  <1> SUFFICES ASSUME PA!AnalystAssumption PROVE PA!NoRun \in RunRecord  OBVIOUS
  <1>1. 1 \in 1..Shards /\ 1 \in 1..2  BY DEF PA!AnalystAssumption
  <1> QED  BY <1>1 DEF PA!NoRun, RunRecord

LEMMA InvPaidOnce ==
    PA!AnalystAssumption /\ AnalysisInv => PA!NothingIsLostOrPaidTwice
  <1> SUFFICES ASSUME PA!AnalystAssumption, AnalysisInv PROVE PA!NothingIsLostOrPaidTwice  OBVIOUS
  <1>1. w.calls <= 2 * (2 + Shards)
    <2>1. Shards \in Nat /\ Shards >= 1  BY DEF PA!AnalystAssumption
    <2>2. w.attempt \in 1..2 /\ w.shard \in 1..Shards /\ w.calls \in Nat
        BY DEF AnalysisInv, AnalysisTypes, RunRecord
    <2>3. PA!ExpectedCalls \in 2..(2 + Shards)  BY <2>1 DEF PA!ExpectedCalls
    <2>4. CASE pc = "idle"  BY <2>1, <2>4 DEF AnalysisInv, AnalysisTypes, PA!NoRun
    <2>5. CASE pc \in {"loading", "brief", "binding"}
        BY <2>1, <2>2, <2>5 DEF AnalysisInv, CallsInv
    <2>6. CASE pc = "assess"  BY <2>1, <2>2, <2>6 DEF AnalysisInv, CallsInv
    <2>7. CASE pc \in {"assessed", "claims"}  BY <2>1, <2>2, <2>3, <2>7 DEF AnalysisInv, CallsInv
    <2>8. CASE pc \in {"assembling", "saving"} \cup After
        BY <2>1, <2>2, <2>3, <2>8 DEF AnalysisInv, CallsInv
    <2> QED  BY <2>4, <2>5, <2>6, <2>7, <2>8 DEF AnalysisInv, AnalysisTypes, Before
  <1>2. PA!TypeOK
    BY <1>1 DEF AnalysisInv, AnalysisTypes, RunRecord, PA!TypeOK
  <1>3. PA!KnownGapsAreKept  BY DEF AnalysisInv, GapsInv, PA!KnownGapsAreKept
  <1> QED  BY <1>2, <1>3 DEF AnalysisInv, PA!NothingIsLostOrPaidTwice

-----------------------------------------------------------------------------
(* The steps. *)

(* A run that is over leaves nothing behind but what it has saved. *)
LEMMA RaisesKeeps ==
    ASSUME PA!AnalystAssumption, AnalysisInv, PA!Raises,
           UNCHANGED <<PA!research, gaps, assessed, portfolio, claims>>, cited' \in BOOLEAN
    PROVE  AnalysisInv'
  <1>1. PA!NoRun \in RunRecord  BY NoRunIsRun
  <1>2. pc' = "idle" /\ w' = PA!NoRun  BY DEF PA!Raises
  <1>3. AnalysisTypes'  BY <1>1, <1>2 DEF AnalysisInv, AnalysisTypes, PA!research
  <1>4. CallsInv' /\ BesideInv' /\ GapsInv' /\ PA!AssessmentIsPaidOnce' /\ FinalInv'
    BY <1>2 DEF CallsInv, BesideInv, GapsInv, PA!AssessmentIsPaidOnce, FinalInv, Before, After
  <1> QED  BY <1>3, <1>4 DEF AnalysisInv

(* Research beside the run is remembered; it keeps the gaps of the tasks.  *)
LEMMA ResearchKeeps ==
    ASSUME PA!AnalystAssumption, AnalysisInv, PA!ResearchStep
    PROVE  AnalysisInv'
  <1>1. PA!Beside
    BY DEF PA!ResearchStep, PA!TaskEnds, PA!TaskFails, PA!Refresh
  <1> DEFINE Kept == /\ verified' \subseteq Tasks /\ ended' \subseteq Tasks
                     /\ projected' \subseteq Tasks /\ gaps' \subseteq Gap
                     /\ \A t \in Tasks : PA!ResearchGap(t) \in gaps => PA!ResearchGap(t) \in gaps'
  <1>2. Kept
    <2>1. ASSUME NEW t \in Tasks, PA!TaskEnds(t) \/ PA!TaskFails(t) PROVE Kept
        BY <2>1 DEF PA!TaskEnds, PA!TaskFails, AnalysisInv, AnalysisTypes
    <2>2. ASSUME PA!Refresh PROVE Kept
      <3>1. \A t \in Tasks : PA!ResearchGap(t)[1] # "coverage"  BY DEF PA!ResearchGap
      <3> QED  BY <2>2, <3>1 DEF PA!Refresh, PA!NotOfCoverage, AnalysisInv, AnalysisTypes, Gap
    <2> QED  BY <2>1, <2>2 DEF PA!ResearchStep
  <1>3. UNCHANGED <<assessed, portfolio, claims, cited, pc>>
    BY <1>1 DEF PA!Beside, PA!results
  <1>4. CASE pc = "idle"
    <2>1. UNCHANGED w  BY <1>1, <1>4 DEF PA!Beside
    <2>2. AnalysisTypes'  BY <1>2, <1>3, <2>1 DEF AnalysisInv, AnalysisTypes
    <2>3. CallsInv' /\ BesideInv' /\ GapsInv' /\ PA!AssessmentIsPaidOnce' /\ FinalInv'
        BY <1>3, <1>4 DEF CallsInv, BesideInv, GapsInv, PA!AssessmentIsPaidOnce, FinalInv,
                          Before, After
    <2> QED  BY <2>2, <2>3 DEF AnalysisInv
  <1>5. CASE pc # "idle"
    <2>1. PICK n \in {0, 1} : w' = [w EXCEPT !.beside = TRUE, !.others = @ + n]
        BY <1>1, <1>5 DEF PA!Beside
    <2>2. /\ w' \in RunRecord /\ w'.beside
          /\ w'.id = w.id /\ w'.attempt = w.attempt /\ w'.shard = w.shard /\ w'.calls = w.calls
          /\ w'.reused = w.reused /\ w'.evidence = w.evidence /\ w'.gaps = w.gaps
          /\ w'.gaps0 = w.gaps0
      <3>1. PICK k \in Nat : w' = [w EXCEPT !.beside = TRUE, !.others = k]
        <4>1. w.others \in Nat  BY DEF AnalysisInv, AnalysisTypes, RunRecord
        <4>2. w.others + n \in Nat  BY <4>1
        <4> QED  BY <2>1, <4>2
      <3>2. w \in RunRecord /\ TRUE \in BOOLEAN  BY DEF AnalysisInv, AnalysisTypes
      <3> QED  BY <3>1, <3>2 DEF RunRecord
    <2>3. AnalysisTypes'  BY <1>2, <1>3, <1>5, <2>2 DEF AnalysisInv, AnalysisTypes
    <2>4. CallsInv'  BY <1>3, <2>2 DEF AnalysisInv, CallsInv, PA!ExpectedCalls
    <2>5. BesideInv'  BY <2>2 DEF BesideInv
    <2>6. GapsInv'  BY <1>2, <1>3, <2>2 DEF AnalysisInv, GapsInv
    <2>7. PA!AssessmentIsPaidOnce' /\ FinalInv'
        BY <1>3, <2>2 DEF AnalysisInv, PA!AssessmentIsPaidOnce, FinalInv, PA!Key
    <2> QED  BY <2>3, <2>4, <2>5, <2>6, <2>7 DEF AnalysisInv
  <1> QED  BY <1>4, <1>5

LEMMA AnalysisStartKeeps ==
    ASSUME PA!AnalystAssumption, AnalysisInv, NEW id \in Pipelines, PA!Start(id)
    PROVE  AnalysisInv'
  <1>1. /\ gaps' = PA!Bridged /\ pc' = "loading" /\ ~portfolio
        /\ UNCHANGED <<verified, ended, projected, assessed, portfolio, claims, cited>>
    BY DEF PA!Start, PA!CanAnalyze, PA!research, PA!results
  <1>2. gaps' \subseteq Gap  BY <1>1 DEF PA!Bridged, AnalysisInv, AnalysisTypes, Gap
  <1>3. PA!NoRun \in RunRecord /\ PA!NoRun = PA!NoRun  BY NoRunIsRun
  <1>4. w' = [PA!NoRun EXCEPT !.id = id, !.coverage0 = projected, !.gaps0 = gaps',
                           !.evidence = verified]
    BY <1>1 DEF PA!Start
  <1>5. /\ w' \in RunRecord
        /\ w'.id = id /\ w'.coverage0 = projected /\ w'.gaps0 = gaps'
        /\ w'.calls = PA!NoRun.calls /\ w'.attempt = PA!NoRun.attempt /\ w'.shard = PA!NoRun.shard
        /\ w'.reused = PA!NoRun.reused /\ w'.others = PA!NoRun.others
    BY <1>2, <1>3, <1>4 DEF AnalysisInv, AnalysisTypes, RunRecord
  <1>6. PA!NoRun.calls = 0 /\ PA!NoRun.attempt = 1 /\ PA!NoRun.shard = 1 /\ PA!NoRun.reused = FALSE
        /\ PA!NoRun.others = 0
    BY DEF PA!NoRun
  <1>7. AnalysisTypes'  BY <1>1, <1>2, <1>5 DEF AnalysisInv, AnalysisTypes, Before
  <1>8. CallsInv'  BY <1>1, <1>5, <1>6 DEF CallsInv, After
  <1>9. BesideInv' /\ GapsInv' /\ PA!AssessmentIsPaidOnce' /\ FinalInv'
    BY <1>1, <1>5, <1>6 DEF BesideInv, GapsInv, PA!AssessmentIsPaidOnce, FinalInv
  <1> QED  BY <1>7, <1>8, <1>9 DEF AnalysisInv

-----------------------------------------------------------------------------
(* What a call of the client changes in the run. *)
SameRun ==
    /\ w'.id = w.id /\ w'.others = w.others /\ w'.reused = w.reused /\ w'.evidence = w.evidence
    /\ w'.coverage = w.coverage /\ w'.gaps = w.gaps /\ w'.coverage0 = w.coverage0
    /\ w'.gaps0 = w.gaps0 /\ w'.beside = w.beside

LEMMA CallFacts ==
    ASSUME w \in RunRecord, NEW n \in 1..2, w' = [PA!Called EXCEPT !.attempt = n]
    PROVE  /\ w' \in RunRecord /\ SameRun
           /\ w'.calls = w.calls + 1 /\ w'.attempt = n /\ w'.shard = w.shard
  <1>1. w.calls \in Nat  BY DEF RunRecord
  <1>2. PICK c \in Nat : c = w.calls + 1  BY <1>1
  <1>3. PA!Called = [w EXCEPT !.calls = c]  BY <1>2 DEF PA!Called
  <1>4. w' = [w EXCEPT !.calls = c, !.attempt = n]  BY <1>3 DEF RunRecord
  <1> QED  BY <1>2, <1>4 DEF RunRecord, SameRun

(* A step from one stage to another. *)
LEMMA StageKeeps ==
    ASSUME AnalysisInv, w' \in RunRecord, SameRun,
           pc \in Before \ {"loading"}, pc' \in Before \ {"loading"},
           UNCHANGED <<PA!research, gaps, PA!results>>,
           assessed' = assessed \/ assessed' = assessed \cup {PA!Key},
           pc' \in {"assess", "assessed"} => pc \in {"assess", "assessed"} /\ assessed' = assessed,
           CallsInv'
    PROVE  AnalysisInv'
  <1>1. AnalysisTypes'
    <2>1. w.id \in Pipelines /\ w.evidence \subseteq Tasks
        BY DEF AnalysisInv, AnalysisTypes, RunRecord, Before
    <2>2. assessed' \subseteq Pipelines \X SUBSET Tasks
        BY <2>1 DEF AnalysisInv, AnalysisTypes, PA!Key
    <2> QED  BY <2>1, <2>2 DEF AnalysisInv, AnalysisTypes, PA!research, PA!results, SameRun, Before
  <1>2. BesideInv' /\ GapsInv'
    BY DEF AnalysisInv, BesideInv, GapsInv, PA!research, SameRun, Before
  <1>3. PA!AssessmentIsPaidOnce'
    BY DEF AnalysisInv, PA!AssessmentIsPaidOnce, PA!Key, SameRun
  <1>4. FinalInv'  BY DEF AnalysisInv, FinalInv, PA!results
  <1> QED  BY <1>1, <1>2, <1>3, <1>4 DEF AnalysisInv

LEMMA LoadKeeps ==
    ASSUME PA!AnalystAssumption, AnalysisInv, PA!Load
    PROVE  AnalysisInv'
  <1>1. pc = "loading" /\ UNCHANGED <<PA!research, gaps, assessed, PA!results>>
    BY DEF PA!Load
  <1>2. CASE verified \cap w.evidence = {}
    BY <1>1, <1>2, RaisesKeeps DEF PA!Load, PA!results, AnalysisInv, AnalysisTypes
  <1>3. CASE verified \cap w.evidence # {}
    <2>1. /\ w' = [w EXCEPT !.evidence = @ \cap verified, !.coverage = projected, !.gaps = gaps]
          /\ pc' = "brief"
        BY <1>3 DEF PA!Load
    <2>2. w \in RunRecord /\ projected \subseteq Tasks /\ gaps \subseteq Gap
        BY DEF AnalysisInv, AnalysisTypes
    <2>3. PICK e \in SUBSET Tasks :
             w' = [w EXCEPT !.evidence = e, !.coverage = projected, !.gaps = gaps]
        BY <2>1, <2>2 DEF RunRecord
    <2>4. /\ w' \in RunRecord /\ w'.id = w.id /\ w'.attempt = w.attempt /\ w'.shard = w.shard
          /\ w'.calls = w.calls /\ w'.others = w.others /\ w'.reused = w.reused
          /\ w'.gaps = gaps /\ w'.coverage0 = w.coverage0 /\ w'.gaps0 = w.gaps0
          /\ w'.beside = w.beside
        BY <2>2, <2>3 DEF RunRecord
    <2>5. AnalysisTypes'
        BY <1>1, <2>1, <2>4 DEF AnalysisInv, AnalysisTypes, PA!research, PA!results, Before
    <2>6. CallsInv'  BY <1>1, <2>1, <2>4 DEF AnalysisInv, CallsInv, After
    <2>7. BesideInv' /\ GapsInv'
        BY <1>1, <2>1, <2>4 DEF AnalysisInv, BesideInv, GapsInv, PA!research
    <2>8. PA!AssessmentIsPaidOnce' /\ FinalInv'
        BY <1>1, <2>1 DEF AnalysisInv, PA!AssessmentIsPaidOnce, FinalInv, Before, PA!results
    <2> QED  BY <2>5, <2>6, <2>7, <2>8 DEF AnalysisInv
  <1> QED  BY <1>2, <1>3

(* What the number of calls is made of. *)
LEMMA Expected ==
    ASSUME PA!AnalystAssumption, AnalysisInv
    PROVE  /\ Shards \in Nat /\ Shards >= 1
           /\ w \in RunRecord /\ w.attempt \in 1..2 /\ w.shard \in 1..Shards /\ w.calls \in Nat
           /\ w.reused \in BOOLEAN
           /\ w.reused => PA!ExpectedCalls = 2
           /\ ~w.reused => PA!ExpectedCalls = 2 + Shards
           /\ SameRun => PA!ExpectedCalls' = PA!ExpectedCalls
  BY DEF PA!AnalystAssumption, AnalysisInv, AnalysisTypes, RunRecord, PA!ExpectedCalls, SameRun

LEMMA BriefKeeps ==
    ASSUME PA!AnalystAssumption, AnalysisInv, PA!Brief
    PROVE  AnalysisInv'
  <1>1. pc = "brief" /\ UNCHANGED <<PA!research, gaps, assessed, PA!results>>
    BY DEF PA!Brief, PA!Stage
  <1>2. CASE PA!Raises
    BY <1>1, <1>2, RaisesKeeps DEF PA!results, AnalysisInv, AnalysisTypes
  <1>3. ASSUME NEW n \in 1..2, w' = [PA!Called EXCEPT !.attempt = n],
               (n = 1 /\ pc' = "binding") \/ (n = 2 /\ w.attempt # 2 /\ pc' = pc)
        PROVE  AnalysisInv'
    <2>1. /\ w' \in RunRecord /\ SameRun
          /\ w'.calls = w.calls + 1 /\ w'.attempt = n /\ w'.shard = w.shard
        BY <1>3, CallFacts DEF AnalysisInv, AnalysisTypes
    <2>2. w.calls = w.attempt - 1 /\ w.shard = 1 /\ w.reused = FALSE /\ w.attempt \in 1..2
        BY <1>1 DEF AnalysisInv, CallsInv, AnalysisTypes, RunRecord
    <2>3. CASE n = 1
      <3>1. pc' = "binding" /\ w'.calls \in 1..2 /\ w'.attempt = 1 /\ w'.shard = 1 /\ ~w'.reused
          BY <1>3, <2>1, <2>2, <2>3 DEF SameRun
      <3>2. CallsInv'  BY <3>1 DEF CallsInv, After
      <3> QED  BY <1>1, <2>1, <3>1, <3>2, StageKeeps DEF Before
    <2>4. CASE n = 2
      <3>1. pc' = "brief" /\ w'.calls = 1 /\ w'.attempt = 2 /\ w'.shard = 1 /\ ~w'.reused
          BY <1>1, <1>3, <2>1, <2>2, <2>4 DEF SameRun
      <3>2. CallsInv'  BY <3>1 DEF CallsInv, After
      <3> QED  BY <1>1, <2>1, <3>1, <3>2, StageKeeps DEF Before
    <2> QED  BY <2>3, <2>4
  <1>4. CASE PA!Truncated
    BY <1>2, <1>3, <1>4 DEF PA!Truncated
  <1> QED  BY <1>2, <1>3, <1>4 DEF PA!Brief, PA!Stage

LEMMA BindKeeps ==
    ASSUME PA!AnalystAssumption, AnalysisInv, PA!Bind
    PROVE  AnalysisInv'
  <1>1. pc = "binding" /\ UNCHANGED <<PA!research, gaps, assessed, PA!results>>
    BY DEF PA!Bind
  <1>2. CASE PA!Raises
    BY <1>1, <1>2, RaisesKeeps DEF PA!results, AnalysisInv, AnalysisTypes
  <1>3. ASSUME NEW b \in BOOLEAN, w' = [w EXCEPT !.reused = b],
               \/ b = TRUE /\ pc' = "claims"
               \/ b = FALSE /\ pc' = "assess" /\ PA!Key \notin assessed
        PROVE  AnalysisInv'
    <2>1. w.calls \in 1..2 /\ w.attempt = 1 /\ w.shard = 1 /\ w \in RunRecord
        BY <1>1 DEF AnalysisInv, CallsInv, AnalysisTypes
    <2>2. /\ w' \in RunRecord /\ w'.id = w.id /\ w'.attempt = w.attempt /\ w'.shard = w.shard
          /\ w'.calls = w.calls /\ w'.others = w.others /\ w'.reused = b
          /\ w'.evidence = w.evidence /\ w'.gaps = w.gaps /\ w'.coverage0 = w.coverage0
          /\ w'.gaps0 = w.gaps0 /\ w'.beside = w.beside
        BY <1>3, <2>1 DEF RunRecord
    <2>3. pc' \in {"assess", "claims"}  BY <1>3
    <2>4. AnalysisTypes'
        BY <1>1, <2>2, <2>3 DEF AnalysisInv, AnalysisTypes, PA!research, PA!results, Before
    <2>5. CallsInv'
      <3>1. CASE b = TRUE
        <4>1. pc' = "claims" /\ PA!ExpectedCalls' = 2  BY <1>3, <2>2, <3>1 DEF PA!ExpectedCalls
        <4> QED  BY <2>1, <2>2, <4>1 DEF CallsInv, After
      <3>2. CASE b = FALSE
        <4>1. pc' = "assess" /\ ~w'.reused  BY <1>3, <2>2, <3>2
        <4> QED  BY <2>1, <2>2, <4>1 DEF CallsInv, After
      <3> QED  BY <3>1, <3>2
    <2>6. BesideInv' /\ GapsInv'
        BY <1>1, <2>2, <2>3 DEF AnalysisInv, BesideInv, GapsInv, PA!research
    <2>7. PA!AssessmentIsPaidOnce' /\ FinalInv'
        BY <1>1, <1>3, <2>2 DEF AnalysisInv, PA!AssessmentIsPaidOnce, FinalInv, Before,
           PA!results, PA!Key
    <2> QED  BY <2>4, <2>5, <2>6, <2>7 DEF AnalysisInv
  <1>4. ASSUME w' = [w EXCEPT !.reused = PA!Reusable],
               pc' = IF PA!Reusable THEN "claims" ELSE "assess"
        PROVE  AnalysisInv'
    <2>1. CASE PA!Reusable
      <3>1. w' = [w EXCEPT !.reused = TRUE]  BY <1>4, <2>1 DEF PA!Reusable
      <3> QED  BY <1>3, <1>4, <2>1, <3>1
    <2>2. CASE ~PA!Reusable
      <3>1. PA!Reusable = FALSE  BY <2>2 DEF PA!Reusable
      <3>2. w' = [w EXCEPT !.reused = FALSE]  BY <1>4, <3>1
      <3> QED  BY <1>3, <1>4, <2>2, <3>2 DEF PA!Reusable
    <2> QED  BY <2>1, <2>2
  <1> QED  BY <1>2, <1>4 DEF PA!Bind

LEMMA AssessKeeps ==
    ASSUME PA!AnalystAssumption, AnalysisInv, PA!Assess
    PROVE  AnalysisInv'
  <1>1. pc = "assess" /\ UNCHANGED <<PA!research, gaps, assessed, PA!results>>
    BY DEF PA!Assess
  <1>2. CASE PA!Raises
    BY <1>1, <1>2, RaisesKeeps DEF PA!results, AnalysisInv, AnalysisTypes
  <1>3. /\ w \in RunRecord /\ w.attempt \in 1..2 /\ w.shard \in 1..Shards /\ w.calls \in Nat
        /\ Shards \in Nat /\ w.reused = FALSE
        /\ w.shard + w.attempt - 1 <= w.calls /\ w.calls <= 2 * w.shard + w.attempt - 1
    BY <1>1, Expected DEF AnalysisInv, CallsInv
  <1>4. ASSUME w.shard < Shards, pc' = pc,
               w' = [PA!Called EXCEPT !.attempt = 1, !.shard = @ + 1]
        PROVE  AnalysisInv'
    <2>1. PICK c \in Nat : c = w.calls + 1  BY <1>3
    <2>2. PICK k \in 1..Shards : k = w.shard + 1  BY <1>3, <1>4
    <2>3. w' = [w EXCEPT !.calls = c, !.attempt = 1, !.shard = k]
        BY <1>3, <1>4, <2>1, <2>2 DEF PA!Called, RunRecord
    <2>4. /\ w' \in RunRecord /\ SameRun
          /\ w'.calls = c /\ w'.attempt = 1 /\ w'.shard = k
      <3>1. w \in RunRecord /\ c \in Nat /\ 1 \in 1..2 /\ k \in 1..Shards
          BY <1>3, <2>1, <2>2
      <3>2. w' \in RunRecord /\ w'.calls = c /\ w'.attempt = 1 /\ w'.shard = k
          BY ONLY <2>3, <3>1 DEF RunRecord
      <3>3. SameRun  BY ONLY <2>3, <3>1 DEF RunRecord, SameRun
      <3> QED  BY <3>2, <3>3
    <2>5. w'.shard + w'.attempt - 1 <= w'.calls /\ w'.calls <= 2 * w'.shard + w'.attempt - 1
        BY <1>3, <2>1, <2>2, <2>4
    <2>6. CallsInv'  BY <1>1, <1>3, <1>4, <2>4, <2>5 DEF CallsInv, SameRun, After
    <2> QED  BY <1>1, <1>4, <2>4, <2>6, StageKeeps DEF Before
  <1>5. ASSUME ~(w.shard < Shards), pc' = "assessed", w' = [PA!Called EXCEPT !.attempt = 1]
        PROVE  AnalysisInv'
    <2>1. /\ w' \in RunRecord /\ SameRun
          /\ w'.calls = w.calls + 1 /\ w'.attempt = 1 /\ w'.shard = w.shard
        BY <1>3, <1>5, CallFacts
    <2>2. PA!ExpectedCalls' = 2 + Shards  BY <1>3, <2>1 DEF PA!ExpectedCalls, SameRun
    <2>3. PA!ExpectedCalls' <= w'.calls + 1 /\ w'.calls + 2 <= 2 * PA!ExpectedCalls'
        BY <1>3, <1>5, <2>1, <2>2
    <2>4. CallsInv'  BY <1>3, <1>5, <2>1, <2>3 DEF CallsInv, SameRun, After
    <2> QED  BY <1>1, <1>5, <2>1, <2>4, StageKeeps DEF Before
  <1>6. ASSUME w.attempt # 2, pc' = pc, w' = [PA!Called EXCEPT !.attempt = 2]
        PROVE  AnalysisInv'
    <2>1. /\ w' \in RunRecord /\ SameRun
          /\ w'.calls = w.calls + 1 /\ w'.attempt = 2 /\ w'.shard = w.shard
        BY <1>3, <1>6, CallFacts
    <2>2. w'.shard + w'.attempt - 1 <= w'.calls /\ w'.calls <= 2 * w'.shard + w'.attempt - 1
        BY <1>3, <1>6, <2>1
    <2>3. CallsInv'  BY <1>1, <1>3, <1>6, <2>1, <2>2 DEF CallsInv, SameRun, After
    <2> QED  BY <1>1, <1>6, <2>1, <2>3, StageKeeps DEF Before
  <1>7. CASE PA!Truncated
    BY <1>2, <1>6, <1>7 DEF PA!Truncated
  <1>8. CASE IF w.shard < Shards
             THEN w' = [PA!Called EXCEPT !.attempt = 1, !.shard = @ + 1] /\ UNCHANGED pc
             ELSE w' = [PA!Called EXCEPT !.attempt = 1] /\ pc' = "assessed"
    BY <1>4, <1>5, <1>8
  <1> QED  BY <1>2, <1>7, <1>8 DEF PA!Assess

LEMMA SaveAssessmentKeeps ==
    ASSUME PA!AnalystAssumption, AnalysisInv, PA!SaveAssessment
    PROVE  AnalysisInv'
  <1>1. /\ pc = "assessed" /\ pc' = "claims" /\ assessed' = assessed \cup {PA!Key}
        /\ UNCHANGED <<PA!research, gaps, PA!results, w>>
    BY DEF PA!SaveAssessment
  <1>2. w' \in RunRecord /\ SameRun  BY <1>1 DEF AnalysisInv, AnalysisTypes, SameRun
  <1>3. CallsInv'
    BY <1>1, <1>2, Expected DEF AnalysisInv, CallsInv, After
  <1> QED  BY <1>1, <1>2, <1>3, StageKeeps DEF Before

LEMMA ClaimsKeeps ==
    ASSUME PA!AnalystAssumption, AnalysisInv, PA!Claims
    PROVE  AnalysisInv'
  <1>1. pc = "claims" /\ UNCHANGED <<PA!research, gaps, assessed, PA!results>>
    BY DEF PA!Claims, PA!Stage
  <1>2. CASE PA!Raises
    BY <1>1, <1>2, RaisesKeeps DEF PA!results, AnalysisInv, AnalysisTypes
  <1>3. /\ w \in RunRecord /\ w.attempt \in 1..2 /\ w.calls \in Nat
        /\ PA!ExpectedCalls \in Nat
        /\ PA!ExpectedCalls + w.attempt - 1 <= w.calls + 1
        /\ w.calls + 2 <= 2 * PA!ExpectedCalls + w.attempt - 1
    BY <1>1, Expected DEF AnalysisInv, CallsInv
  <1>4. ASSUME NEW n \in 1..2, w' = [PA!Called EXCEPT !.attempt = n]
        PROVE  /\ w' \in RunRecord /\ SameRun /\ PA!ExpectedCalls' = PA!ExpectedCalls
               /\ w'.calls = w.calls + 1 /\ w'.attempt = n
    BY <1>3, <1>4, CallFacts, Expected
  <1>5. ASSUME pc' = "assembling", w' = [PA!Called EXCEPT !.attempt = 1]
        PROVE  AnalysisInv'
    <2>1. /\ w' \in RunRecord /\ SameRun /\ PA!ExpectedCalls' = PA!ExpectedCalls
          /\ w'.calls = w.calls + 1
        BY <1>4, <1>5
    <2>2. PA!ExpectedCalls' <= w'.calls /\ w'.calls <= 2 * PA!ExpectedCalls'
        BY <1>3, <2>1
    <2>3. CallsInv'  BY <1>5, <2>2 DEF CallsInv, After
    <2> QED  BY <1>1, <1>5, <2>1, <2>3, StageKeeps DEF Before
  <1>6. ASSUME w.attempt # 2, pc' = pc, w' = [PA!Called EXCEPT !.attempt = 2]
        PROVE  AnalysisInv'
    <2>1. /\ w' \in RunRecord /\ SameRun /\ PA!ExpectedCalls' = PA!ExpectedCalls
          /\ w'.calls = w.calls + 1 /\ w'.attempt = 2
        BY <1>4, <1>6
    <2>2. /\ PA!ExpectedCalls' + w'.attempt - 1 <= w'.calls + 1
          /\ w'.calls + 2 <= 2 * PA!ExpectedCalls' + w'.attempt - 1
        BY <1>3, <1>6, <2>1
    <2>3. CallsInv'  BY <1>1, <1>6, <2>2 DEF CallsInv, After
    <2> QED  BY <1>1, <1>6, <2>1, <2>3, StageKeeps DEF Before
  <1>7. CASE PA!Truncated
    BY <1>2, <1>6, <1>7 DEF PA!Truncated
  <1> QED  BY <1>2, <1>5, <1>7 DEF PA!Claims, PA!Stage

LEMMA AssembleKeeps ==
    ASSUME PA!AnalystAssumption, AnalysisInv, PA!Assemble
    PROVE  AnalysisInv'
  <1>1. pc = "assembling" /\ UNCHANGED <<PA!research, gaps, assessed, PA!results>>
    BY DEF PA!Assemble
  <1>2. CASE PA!Raises
    BY <1>1, <1>2, RaisesKeeps DEF PA!results, AnalysisInv, AnalysisTypes
  <1>3. CASE pc' = "saving" /\ UNCHANGED w
    <2>1. w' \in RunRecord /\ SameRun  BY <1>3 DEF AnalysisInv, AnalysisTypes, SameRun
    <2>2. CallsInv'
        BY <1>1, <1>3 DEF AnalysisInv, CallsInv, PA!ExpectedCalls, After
    <2> QED  BY <1>1, <1>3, <2>1, <2>2, StageKeeps DEF Before
  <1> QED  BY <1>2, <1>3 DEF PA!Assemble

-----------------------------------------------------------------------------
(* The saves and the checks. *)

(* From the portfolio on the run keeps what it compares with, and the      *)
(* gaps it has loaded are among those it saves.                            *)
LEMMA SavesKeep ==
    ASSUME PA!AnalystAssumption, AnalysisInv,
           PA!SavePortfolio \/ PA!SaveClaims \/ PA!SaveGaps \/ (PA!Check /\ pc' = "citing")
    PROVE  AnalysisInv'
  <1>1. /\ UNCHANGED <<PA!research, assessed, w>> /\ pc \in {"saving"} \cup After /\ pc' \in After
        /\ pc # "loading" /\ pc # "idle"
        /\ portfolio' \in BOOLEAN /\ claims' \in BOOLEAN /\ cited' \in BOOLEAN
    BY DEF PA!SavePortfolio, PA!SaveClaims, PA!SaveGaps, PA!Check, PA!Raises, PA!results,
       AnalysisInv, AnalysisTypes, After
  <1>2. w.evidence \subseteq Tasks /\ w.gaps \subseteq Gap
    BY DEF AnalysisInv, AnalysisTypes, RunRecord
  <1>3. gaps' = gaps \/ gaps' = PA!MergedGaps
    BY DEF PA!SavePortfolio, PA!SaveClaims, PA!SaveGaps, PA!Check
  <1>4. gaps' \subseteq Gap
    BY <1>2, <1>3 DEF PA!MergedGaps, Gap, AnalysisInv, AnalysisTypes
  <1>5. AnalysisTypes'  BY <1>1, <1>4 DEF AnalysisInv, AnalysisTypes, PA!research, Before, After
  <1>6. CallsInv'  BY <1>1 DEF AnalysisInv, CallsInv, PA!ExpectedCalls, After
  <1>7. BesideInv'
    BY <1>1, <1>3 DEF AnalysisInv, BesideInv, PA!MergedGaps, PA!research
  <1>8. GapsInv'
    BY <1>1, <1>3 DEF AnalysisInv, GapsInv, PA!MergedGaps
  <1>9. PA!AssessmentIsPaidOnce' /\ FinalInv'
    BY <1>1 DEF PA!AssessmentIsPaidOnce, FinalInv, Before, After
  <1> QED  BY <1>5, <1>6, <1>7, <1>8, <1>9 DEF AnalysisInv

LEMMA EndsKeep ==
    ASSUME PA!AnalystAssumption, AnalysisInv, (PA!Check /\ pc' # "citing") \/ PA!Cite \/ PA!Crash
    PROVE  AnalysisInv'
  <1>1. /\ PA!Raises /\ UNCHANGED <<PA!research, gaps, assessed, portfolio, claims>>
        /\ cited' \in BOOLEAN
    BY DEF PA!Check, PA!Cite, PA!Crash, PA!results, AnalysisInv, AnalysisTypes
  <1> QED  BY <1>1, RaisesKeeps

-----------------------------------------------------------------------------
(* The invariant is inductive. *)

LEMMA AnalysisInvInit == PA!AnalystAssumption /\ PA!Init => AnalysisInv
  <1> SUFFICES ASSUME PA!AnalystAssumption, PA!Init PROVE AnalysisInv  OBVIOUS
  <1>1. AnalysisTypes  BY NoRunIsRun DEF PA!Init, AnalysisTypes
  <1>2. CallsInv /\ BesideInv /\ GapsInv /\ PA!AssessmentIsPaidOnce /\ FinalInv
    BY DEF PA!Init, CallsInv, BesideInv, GapsInv, PA!AssessmentIsPaidOnce, FinalInv, Before, After
  <1> QED  BY <1>1, <1>2 DEF AnalysisInv

LEMMA AnalysisStepKeeps ==
    ASSUME PA!AnalystAssumption, AnalysisInv, PA!Next \/ UNCHANGED analysis
    PROVE  AnalysisInv'
  <1>1. ASSUME NEW id \in Pipelines, PA!Start(id) PROVE AnalysisInv'
    BY <1>1, AnalysisStartKeeps
  <1>2. CASE PA!RunStep
    <2>1. CASE PA!Load \/ PA!Brief \/ PA!Bind \/ PA!Assess
        BY <2>1, LoadKeeps, BriefKeeps, BindKeeps, AssessKeeps
    <2>2. CASE PA!SaveAssessment \/ PA!Claims \/ PA!Assemble
        BY <2>2, SaveAssessmentKeeps, ClaimsKeeps, AssembleKeeps
    <2>3. CASE PA!SavePortfolio \/ PA!SaveClaims \/ PA!SaveGaps  BY <2>3, SavesKeep
    <2>4. CASE PA!Check  BY <2>4, SavesKeep, EndsKeep
    <2>5. CASE PA!Cite  BY <2>5, EndsKeep
    <2> QED  BY <1>2, <2>1, <2>2, <2>3, <2>4, <2>5 DEF PA!RunStep
  <1>3. CASE PA!ResearchStep  BY <1>3, ResearchKeeps
  <1>4. CASE PA!Crash  BY <1>4, EndsKeep
  <1>5. CASE UNCHANGED analysis
    <2>1. AnalysisTypes'  BY <1>5 DEF analysis, AnalysisInv, AnalysisTypes
    <2>2. CallsInv'  BY <1>5 DEF analysis, AnalysisInv, CallsInv, PA!ExpectedCalls
    <2>3. BesideInv' /\ GapsInv' /\ PA!AssessmentIsPaidOnce' /\ FinalInv'
        BY <1>5 DEF analysis, AnalysisInv, BesideInv, GapsInv, PA!AssessmentIsPaidOnce,
                    FinalInv, PA!Key
    <2> QED  BY <2>1, <2>2, <2>3 DEF AnalysisInv
  <1> QED  BY <1>1, <1>2, <1>3, <1>4, <1>5 DEF PA!Next

LEMMA KillsAreCounted ==
    ASSUME kills \in Nat, PA!Next \/ UNCHANGED analysis
    PROVE  kills' \in Nat
  <1>1. CASE PA!RunStep
    BY <1>1 DEF PA!RunStep, PA!Load, PA!Brief, PA!Bind, PA!Assess, PA!SaveAssessment, PA!Claims,
                PA!Assemble, PA!SavePortfolio, PA!SaveClaims, PA!SaveGaps, PA!Check, PA!Cite,
                PA!Stage
  <1>2. CASE \E id \in Pipelines : PA!Start(id)  BY <1>2 DEF PA!Start
  <1>3. CASE PA!ResearchStep
    BY <1>3 DEF PA!ResearchStep, PA!TaskEnds, PA!TaskFails, PA!Refresh, PA!Beside
  <1>4. CASE PA!Crash  BY <1>4 DEF PA!Crash
  <1>5. CASE UNCHANGED analysis  BY <1>5 DEF analysis
  <1> QED  BY <1>1, <1>2, <1>3, <1>4, <1>5 DEF PA!Next

(* Once the portfolio is saved no run gets to the brief or to a new        *)
(* assessment.                                                             *)
LEMMA PortfolioStays ==
    ASSUME AnalysisInv, PA!Next, portfolio
    PROVE  UNCHANGED <<portfolio, assessed>> /\ pc' # "brief"
  <1>1. pc \in {"idle"} \cup After /\ pc \notin Before /\ portfolio = TRUE
    BY DEF AnalysisInv, AnalysisTypes, FinalInv
  <1>2. ASSUME NEW id \in Pipelines, PA!Start(id) PROVE FALSE
    BY <1>2 DEF PA!Start, PA!CanAnalyze
  <1>3. CASE PA!RunStep
    <2>1. PA!SaveClaims \/ PA!SaveGaps \/ PA!Check \/ PA!Cite
      BY <1>1, <1>3 DEF PA!RunStep, PA!Load, PA!Brief, PA!Bind, PA!Assess, PA!SaveAssessment,
                        PA!Claims, PA!Assemble, PA!SavePortfolio, PA!Stage, Before
    <2> QED
      BY <2>1 DEF PA!SaveClaims, PA!SaveGaps, PA!Check, PA!Cite, PA!Raises, PA!results
  <1>4. CASE PA!ResearchStep
    BY <1>1, <1>4 DEF PA!ResearchStep, PA!TaskEnds, PA!TaskFails, PA!Refresh, PA!Beside,
                      PA!results, After
  <1>5. CASE PA!Crash  BY <1>5 DEF PA!Crash, PA!Raises, PA!results
  <1> QED  BY <1>2, <1>3, <1>4, <1>5 DEF PA!Next

(* The checks after the analysis only raise when research went on beside   *)
(* it.                                                                     *)
LEMMA ChecksHold ==
    ASSUME PA!AnalystAssumption, AnalysisInv, kills \in Nat, PA!Next,
           pc = "checking", pc' = "idle", kills' = kills
    PROVE  w.beside
  <1> SUFFICES ASSUME ~w.beside PROVE FALSE  OBVIOUS
  <1>1. /\ w.others = 0 /\ projected = w.coverage0 /\ w.gaps0 \subseteq gaps
        /\ w.calls \in Nat /\ PA!ExpectedCalls <= w.calls /\ w.calls <= 2 * PA!ExpectedCalls
    BY DEF AnalysisInv, AnalysisTypes, RunRecord, BesideInv, CallsInv, After
  <1>2. PA!ExpectedCalls \in Nat  BY Expected
  <1>3. w.calls + w.others \in PA!ExpectedCalls..(2 * PA!ExpectedCalls)  BY <1>1, <1>2
  <1>4. CASE PA!Check  BY <1>1, <1>3, <1>4 DEF PA!Check
  <1>5. CASE PA!RunStep
    BY <1>4, <1>5 DEF PA!RunStep, PA!Load, PA!Brief, PA!Bind, PA!Assess, PA!SaveAssessment,
                      PA!Claims, PA!Assemble, PA!SavePortfolio, PA!SaveClaims, PA!SaveGaps,
                      PA!Cite, PA!Stage
  <1>6. CASE PA!Crash
    <2>1. kills' # kills  BY <1>6 DEF PA!Crash
    <2> QED  BY <2>1
  <1>7. CASE \E id \in Pipelines : PA!Start(id)  BY <1>7 DEF PA!Start
  <1>8. CASE PA!ResearchStep
    BY <1>8 DEF PA!ResearchStep, PA!TaskEnds, PA!TaskFails, PA!Refresh, PA!Beside
  <1> QED  BY <1>5, <1>6, <1>7, <1>8 DEF PA!Next

-----------------------------------------------------------------------------
(* The workers run each on their own: a step of one leaves the others.     *)

WorkersInv == LoopInv /\ AnalysisInv /\ kills \in Nat

LEMMA AnalystConstants == PA!AnalystAssumption
  BY WorkersAssumption

LEMMA EachOnItsOwn ==
    ASSUME [WorkersNext]_workers
    PROVE  /\ RL!Next \/ UNCHANGED loop
           /\ PA!Next \/ UNCHANGED analysis
  BY DEF WorkersNext, OnlyLoop, OnlyAnalysis, OnlyClient, OnlyStream, workers

LEMMA WorkersStart == WorkersInit => WorkersInv
  <1> SUFFICES ASSUME WorkersInit PROVE WorkersInv  OBVIOUS
  <1>1. RL!Init /\ PA!Init  BY DEF WorkersInit
  <1>2. LoopInv  BY <1>1, LoopInvInit
  <1>3. AnalysisInv  BY <1>1, AnalystConstants, AnalysisInvInit
  <1>4. kills \in Nat  BY <1>1 DEF PA!Init
  <1> QED  BY <1>2, <1>3, <1>4 DEF WorkersInv

LEMMA WorkersGoOn == WorkersInv /\ [WorkersNext]_workers => WorkersInv'
  <1> SUFFICES ASSUME WorkersInv, [WorkersNext]_workers PROVE WorkersInv'  OBVIOUS
  <1>1. (RL!Next \/ UNCHANGED loop) /\ (PA!Next \/ UNCHANGED analysis)  BY EachOnItsOwn
  <1>2. LoopInv'  BY <1>1, LoopStepKeeps DEF WorkersInv
  <1>3. AnalysisInv'  BY <1>1, AnalystConstants, AnalysisStepKeeps DEF WorkersInv
  <1>4. kills' \in Nat  BY <1>1, KillsAreCounted DEF WorkersInv
  <1> QED  BY <1>2, <1>3, <1>4 DEF WorkersInv

LEMMA WorkersInvAlways == WorkersSpec => []WorkersInv
  BY WorkersStart, WorkersGoOn, PTL DEF WorkersSpec

-----------------------------------------------------------------------------
(* The theorems. *)

(* A research loop that reports its plan as covered has covered it, its    *)
(* own collections stay within the budget of sources, and what it paid for *)
(* is read: for all dimensions, pages and budgets, with any number of      *)
(* calls by hand and of deaths of the process (research_loop.py).          *)
THEOREM LoopStaysHonest == WorkersSpec => []LoopIsHonest
  <1>1. WorkersInv => LoopIsHonest  BY LoopInvIsHonest DEF WorkersInv
  <1> QED  BY <1>1, WorkersInvAlways, PTL

(* No assessment is paid for a batch of evidence that has one, and what    *)
(* the tasks of the research left open outlives the merge of the gaps, for *)
(* every number of shards and whatever research does beside the run        *)
(* (reuse in run_professional_analyst, merge_research_gaps).               *)
THEOREM NothingIsLost == WorkersSpec => []NothingIsLostOrPaidTwice
  <1>1. WorkersInv => NothingIsLostOrPaidTwice
    BY AnalystConstants, InvPaidOnce DEF WorkersInv, NothingIsLostOrPaidTwice
  <1> QED  BY <1>1, WorkersInvAlways, PTL

(* Once the portfolio is saved no run gets to the brief or to a new        *)
(* assessment (the get_payload at the head of run_once).                   *)
THEOREM AnalysisIsFinal == WorkersSpec => PA!PortfolioIsFinal
  <1>1. WorkersInv /\ [WorkersNext]_workers
           => [portfolio => UNCHANGED <<portfolio, assessed>> /\ pc' # "brief"]_(PA!vars)
    <2> SUFFICES ASSUME WorkersInv, [WorkersNext]_workers, ~ UNCHANGED PA!vars, portfolio
                 PROVE  UNCHANGED <<portfolio, assessed>> /\ pc' # "brief"
        OBVIOUS
    <2>1. UNCHANGED analysis => UNCHANGED PA!vars
        BY DEF analysis, PA!vars, PA!research, PA!results
    <2> QED  BY <2>1, EachOnItsOwn, PortfolioStays DEF WorkersInv
  <1> QED  BY <1>1, WorkersInvAlways, PTL DEF WorkersSpec, PA!PortfolioIsFinal

(* The checks after the analysis only raise when research went on beside   *)
(* it: the calls expected are right for every number of shards, with       *)
(* retries and with an assessment that was used again (_run_llm_analysis). *)
THEOREM ChecksAreFair == WorkersSpec => PA!ChecksBlameOthers
  <1>1. WorkersInv /\ [WorkersNext]_workers
           => [pc = "checking" /\ pc' = "idle" /\ kills' = kills => w.beside]_(PA!vars)
    <2> SUFFICES ASSUME WorkersInv, [WorkersNext]_workers, ~ UNCHANGED PA!vars,
                        pc = "checking", pc' = "idle", kills' = kills
                 PROVE  w.beside
        OBVIOUS
    <2>1. UNCHANGED analysis => UNCHANGED PA!vars
        BY DEF analysis, PA!vars, PA!research, PA!results
    <2> QED  BY <2>1, EachOnItsOwn, AnalystConstants, ChecksHold DEF WorkersInv
  <1> QED  BY <1>1, WorkersInvAlways, PTL DEF WorkersSpec, PA!ChecksBlameOthers
=============================================================================
