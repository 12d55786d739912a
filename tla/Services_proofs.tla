--------------------------- MODULE Services_proofs ---------------------------
(***************************************************************************)
(* Theorems about two of the services of MCServices, for every value of    *)
(* their constants.  Of the intake: a draft gives one whole task           *)
(* (ConfirmedOnce), and the plan, the research tasks and the board of a    *)
(* task are one (PlanIsWhole).  Of the artifact store: the log keeps what  *)
(* an append returned, and has nothing else (AppendedIsKept).              *)
(***************************************************************************)
EXTENDS MCServices, FiniteSetTheorems, SequenceTheorems, TLAPS

-----------------------------------------------------------------------------
(* Normalisation. *)

(* Every number up to the size of a finite set of numbers is the rank of   *)
(* one of its elements, and of one only.                                   *)
LEMMA Ranks ==
    ASSUME NEW S \in SUBSET Nat, IsFiniteSet(S), \A i \in S : i > 0
    PROVE  /\ Cardinality(S) \in Nat
           /\ \A n \in 1..Cardinality(S) : \E i \in S : Cardinality(S \cap 1..i) = n
           /\ \A i, j \in S : Cardinality(S \cap 1..i) = Cardinality(S \cap 1..j) => i = j
  <1> DEFINE Up(i) == S \cap 1..i
             rank == [i \in S |-> Cardinality(Up(i))]
  <1>1. Cardinality(S) \in Nat  BY FS_CardinalityType
  <1>2. ASSUME NEW i \in S
        PROVE  /\ IsFiniteSet(Up(i)) /\ i \in Up(i)
               /\ Cardinality(Up(i)) \in 1..Cardinality(S)
    <2>1. i \in Up(i)  OBVIOUS
    <2>2. IsFiniteSet(Up(i)) /\ Cardinality(Up(i)) <= Cardinality(S)
        BY FS_Subset
    <2>3. Cardinality(Up(i)) \in Nat /\ Cardinality(Up(i)) # 0
        BY <2>1, <2>2, FS_CardinalityType, FS_EmptySet
    <2> QED  BY <1>1, <2>1, <2>2, <2>3
  <1>3. ASSUME NEW i \in S, NEW j \in S, i < j
        PROVE  Cardinality(Up(i)) < Cardinality(Up(j))
    <2>1. Up(i) \subseteq Up(j) /\ j \notin Up(i) /\ j \in Up(j)
        BY <1>3
    <2>2. Cardinality(Up(i)) <= Cardinality(Up(j)) /\ Cardinality(Up(i)) # Cardinality(Up(j))
        BY <1>2, <2>1, FS_Subset
    <2> QED  BY <1>1, <1>2, <2>2
  <1>4. \A i, j \in S : Cardinality(Up(i)) = Cardinality(Up(j)) => i = j
    <2> SUFFICES ASSUME NEW i \in S, NEW j \in S, i # j
                 PROVE  Cardinality(Up(i)) # Cardinality(Up(j))
        OBVIOUS
    <2>1. Cardinality(Up(i)) \in Nat /\ Cardinality(Up(j)) \in Nat  BY <1>1, <1>2
    <2>2. CASE i < j  BY <1>3, <2>1, <2>2
    <2>3. CASE j < i  BY <1>3, <2>1, <2>3
    <2> QED  BY <2>2, <2>3
  <1>5. rank \in Injection(S, 1..Cardinality(S))
    <2>1. rank \in [S -> 1..Cardinality(S)]  BY <1>2
    <2>2. \A i, j \in S : rank[i] = rank[j] => i = j  BY <1>4
    <2> HIDE DEF rank
    <2> QED  BY <2>1, <2>2 DEF Injection, IsInjective
  <1>6. IsFiniteSet(1..Cardinality(S)) /\ Cardinality(1..Cardinality(S)) = Cardinality(S)
    BY <1>1, FS_Interval
  <1>7. rank \in Surjection(S, 1..Cardinality(S))
    <2> HIDE DEF rank
    <2> QED  BY <1>5, <1>6, FS_Injection
  <1>8. \A n \in 1..Cardinality(S) : \E i \in S : rank[i] = n
    <2> HIDE DEF rank
    <2> QED  BY <1>7 DEF Surjection
  <1> QED  BY <1>1, <1>4, <1>8

(* What clean_list keeps: no two names that differ by case only, and the   *)
(* first, if it is a name.                                                 *)
LEMMA CleanKeeps ==
    ASSUME NEW N, NEW list \in Seq(N)
    PROVE  /\ Len(Clean(list)) \in Nat /\ DOMAIN Clean(list) = 1..Len(Clean(list))
           /\ Clean(list) # <<>> => Len(Clean(list)) > 0
           /\ \A i, j \in 1..Len(Clean(list)) :
                 Fold(Clean(list)[i]) = Fold(Clean(list)[j]) => i = j
           /\ Len(list) > 0 /\ list[1] # "" => Len(Clean(list)) > 0 /\ Clean(list)[1] = list[1]
  <1> DEFINE K == FirstOnes(list)
             At(n) == CHOOSE i \in K : Cardinality(K \cap 1..i) = n
  <1>1. K \subseteq 1..Len(list) /\ Len(list) \in Nat
    <2>1. DOMAIN list = 1..Len(list) /\ Len(list) \in Nat  OBVIOUS
    <2>2. K \subseteq DOMAIN list  BY DEF FirstOnes
    <2> QED  BY <2>1, <2>2
  <1>2. IsFiniteSet(K) /\ K \in SUBSET Nat /\ \A i \in K : i > 0
    <2> HIDE DEF K
    <2>1. IsFiniteSet(1..Len(list))  BY <1>1, FS_Interval
    <2>2. IsFiniteSet(K)  BY <1>1, <2>1, FS_Subset
    <2>3. \A i \in 1..Len(list) : i \in Nat /\ i > 0  BY <1>1
    <2> QED  BY <1>1, <2>2, <2>3
  <1>3. Cardinality(K) \in Nat  BY <1>2, Ranks
  <1>4. \A n \in 1..Cardinality(K) : At(n) \in K /\ Cardinality(K \cap 1..At(n)) = n
    <2> HIDE DEF K
    <2>1. \A n \in 1..Cardinality(K) : \E i \in K : Cardinality(K \cap 1..i) = n
        BY <1>2, Ranks
    <2> QED  BY <2>1
  <1>5. Clean(list) = [n \in 1..Cardinality(K) |-> list[At(n)]]  BY DEF Clean
  <1> HIDE DEF K, At
  <1>6. DOMAIN Clean(list) = 1..Cardinality(K) /\ Len(Clean(list)) = Cardinality(K)
    <2> DEFINE s == [n \in 1..Cardinality(K) |-> list[At(n)]]
    <2>1. DOMAIN s = 1..Cardinality(K)  OBVIOUS
    <2> HIDE DEF s
    <2> QED  BY <1>3, <1>5, <2>1 DEF s
  <1>7. ASSUME NEW i \in 1..Cardinality(K), NEW j \in 1..Cardinality(K),
               Fold(list[At(i)]) = Fold(list[At(j)])
        PROVE  i = j
    <2>1. At(i) \in K /\ At(j) \in K  BY <1>4
    <2>2. ~(At(i) < At(j)) /\ ~(At(j) < At(i))
      <3>1. \A k \in K : \A l \in 1..k - 1 : Fold(list[l]) # Fold(list[k])
          BY DEF K, FirstOnes
      <3>2. \A k, l \in K : l < k => l \in 1..k - 1  BY <1>2
      <3> QED  BY <1>7, <2>1, <3>1, <3>2
    <2>3. \A k, l \in K : k < l \/ l < k \/ k = l  BY <1>2
    <2>4. At(i) = At(j)  BY <2>1, <2>2, <2>3
    <2> QED  BY <1>4, <2>4
  <1>8. ASSUME Len(list) > 0, list[1] # ""
        PROVE  Cardinality(K) > 0 /\ list[At(1)] = list[1]
    <2>1. 1 \in K
      <3>1. 1 \in DOMAIN list
        <4>1. DOMAIN list = 1..Len(list)  BY LenProperties
        <4>2. Len(list) \in Nat  BY LenProperties
        <4>3. Len(list) > 0  BY <1>8
        <4>4. 1 \in 1..Len(list)  BY ONLY <4>2, <4>3
        <4> QED  BY <4>1, <4>4
      <3>2. \A j \in 1..1 - 1 : FALSE  OBVIOUS
      <3> QED  BY <1>8, <3>1, <3>2 DEF K, FirstOnes
    <2>2. K \cap 1..1 = {1}
      <3>1. \A i \in 1..1 : i = 1  OBVIOUS
      <3> QED  BY <2>1, <3>1
    <2>3. Cardinality(K \cap 1..1) = 1  BY <2>2, FS_Singleton
    <2>4. Cardinality(K) # 0  BY <1>2, <2>1, FS_EmptySet
    <2>5. 1 \in 1..Cardinality(K)  BY <1>3, <2>4
    <2>6. At(1) = 1
      <3>1. At(1) \in K /\ Cardinality(K \cap 1..At(1)) = 1  BY <1>4, <2>5
      <3>2. \A i, j \in K : Cardinality(K \cap 1..i) = Cardinality(K \cap 1..j) => i = j
          BY <1>2, Ranks
      <3> QED  BY <2>1, <2>3, <3>1, <3>2
    <2> QED  BY <1>3, <2>4, <2>6
  <1>9. \A n \in 1..Cardinality(K) : Clean(list)[n] = list[At(n)]  BY <1>5
  <1>10. Cardinality(K) > 0 => 1 \in 1..Cardinality(K)  BY <1>3
  <1>11. Clean(list) # <<>> => Cardinality(K) # 0
    <2>1. \A n \in 1..Cardinality(K) : list[At(n)] \in N
        BY <1>1, <1>4, ElementOfSeq
    <2>2. [n \in 1..Cardinality(K) |-> list[At(n)]] \in [1..Cardinality(K) -> N]
        BY <2>1
    <2>3. Clean(list) \in Seq(N)  BY <1>3, <1>5, <2>2, SeqDef
    <2> HIDE DEF K
    <2> QED  BY <1>6, <2>3, EmptySeq
  <1> DEFINE m == Cardinality(K)
             clean == Clean(list)
  <1>12. \A i, j \in 1..m : Fold(clean[i]) = Fold(clean[j]) => i = j
    BY <1>7, <1>9
  <1>13. Len(list) > 0 /\ list[1] # "" => m > 0 /\ clean[1] = list[1]
    BY <1>8, <1>9, <1>10
  <1>14. clean # <<>> => m > 0
    BY <1>3, <1>11
  <1>15. m \in Nat /\ Len(clean) = m /\ DOMAIN clean = 1..m  BY <1>3, <1>6
  <1> HIDE DEF m, clean
  <1> QED  BY <1>12, <1>13, <1>14, <1>15 DEF clean

-----------------------------------------------------------------------------
(* The inductive invariant. *)

ReadyContents == {Normalized(c) : c \in {x \in Contents : DraftStatus(x) = "ready"}}

Draft ==
    [status : {"ready", "needs_clarification", "confirmed"},
     content : {Normalized(c) : c \in Contents}, task : TaskIds \cup {0}]

AnalysisTask == {TaskOf(c, d) : c \in ReadyContents, d \in DraftIds}

(* The research tasks that a build of a task can write. *)
Builds(task) == {ResearchTasks(task, n) : n \in 1..MaxRequests}
Work == UNION UNION {Builds(task) : task \in AnalysisTask}

ConfirmPoints == {"confirm_draft", "confirm_task"}
BuildPoints == {"save_plan", "save_tasks", "load_tasks", "save_board"}

Confirming ==
    [at : ConfirmPoints, what : {"draft"} \X DraftIds, content : ReadyContents, task : TaskIds]
Building ==
    [at : BuildPoints, what : {"task"} \X TaskIds, content : SUBSET Work, task : TaskIds]

Types ==
    /\ drafts \in [DraftIds -> {None} \cup Draft]
    /\ tasks \in [TaskIds -> {None} \cup AnalysisTask]
    /\ plans \in [TaskIds -> {None} \cup [status : {"ready_for_analysis", "needs_collection"},
                                        tasks : SUBSET Work]]
    /\ research \in [TaskIds -> SUBSET Work]
    /\ boards \in [TaskIds -> SUBSET [of : Work, status : {"completed", "ready"}]]
    /\ DOMAIN req = Requests
    /\ \A r \in Requests :
          \/ req[r] = Idle
          \/ req[r].at \in ConfirmPoints /\ req[r] \in Confirming
          \/ req[r].at \in BuildPoints /\ req[r] \in Building /\ req[r].what[2] = req[r].task
    /\ nextTask \in Nat \ {0} /\ requests \in 0..MaxRequests /\ crashes \in Nat

Confirms(r, d) == req[r].at \in ConfirmPoints /\ req[r].what[2] = d
Plans(r, t) == req[r].at \in BuildPoints /\ req[r].task = t

(* A thread that is alone with what it works on is the only one. *)
AloneInv ==
    \A r, s \in Requests :
       req[r].at # "idle" /\ req[s].at # "idle" /\ req[r].what = req[s].what
          /\ Alone(req[r].what) => r = s

(* Task ids are given once, and a task is saved after its draft. *)
DraftInv ==
    /\ \A t \in TaskIds :
          tasks[t] # None => t < nextTask /\ drafts[tasks[t].draft].status = "confirmed"
    /\ \A r \in Requests : req[r].at \in ConfirmPoints =>
          /\ req[r].task < nextTask /\ tasks[req[r].task] = None
          /\ drafts[req[r].what[2]] # None
          /\ req[r].at = "confirm_task" => drafts[req[r].what[2]].status = "confirmed"
          /\ \A s \in Requests \ {r} : req[s].at \in ConfirmPoints => req[s].task # req[r].task

(* What a draft that one thread at a time confirmed has come to. *)
OnceInv ==
    \A d \in DraftIds : Alone(<<"draft", d>>) =>
       /\ \A t \in TasksOf(d) : t = drafts[d].task
       /\ \A r \in Requests : Confirms(r, d) =>
             /\ TasksOf(d) = {}
             /\ req[r].at = "confirm_draft" => drafts[d].status # "confirmed"
             /\ req[r].at = "confirm_task" => drafts[d].task = req[r].task
       /\ drafts[d].status = "confirmed" /\ crashes = 0 =>
             drafts[d].task \in TasksOf(d) \/ \E r \in Requests : Confirms(r, d)

(* What a task that one thread at a time planned has come to. *)
Planned(t) ==
    /\ plans[t] # None => plans[t].tasks \in Builds(tasks[t])
    /\ research[t] # {} => plans[t] # None /\ research[t] = plans[t].tasks
    /\ boards[t] \in {{}, BoardOf(research[t])}
    /\ \A r \in Requests : Plans(r, t) =>
          /\ boards[t] = {}
          /\ req[r].at = "save_plan" => plans[t] = None /\ req[r].content \in Builds(tasks[t])
          /\ req[r].at \in {"save_tasks", "save_board"} =>
                plans[t] # None /\ req[r].content = plans[t].tasks
          /\ req[r].at \in {"save_plan", "save_tasks"} => research[t] = {}
          /\ req[r].at \in {"load_tasks", "save_board"} =>
                plans[t] # None /\ research[t] = plans[t].tasks
    /\ plans[t] # None /\ crashes = 0 =>
          boards[t] = BoardOf(plans[t].tasks) \/ \E r \in Requests : Plans(r, t)

PlanInv ==
    \A t \in TaskIds :
       /\ plans[t] # None \/ (\E r \in Requests : Plans(r, t)) => tasks[t] # None
       /\ Alone(<<"task", t>>) => Planned(t)

IInv == Types /\ AloneInv /\ DraftInv /\ OnceInv /\ PlanInv

-----------------------------------------------------------------------------
(* What the invariant says of the properties. *)

(* A task names products, each once, and its own first. *)
LEMMA TaskFacts ==
    ASSUME NEW task \in AnalysisTask
    PROVE  /\ Len(task.competitors) \in Nat \ {0}
           /\ DOMAIN task.competitors = 1..Len(task.competitors)
           /\ task.competitors # <<>>
           /\ task.primary # "" => task.competitors[1] = task.primary
           /\ \A i, j \in 1..Len(task.competitors) :
                 Fold(task.competitors[i]) = Fold(task.competitors[j]) => i = j
  <1>1. PICK c \in Contents, d \in DraftIds :
           DraftStatus(c) = "ready" /\ task = TaskOf(Normalized(c), d)
    BY DEF AnalysisTask, ReadyContents
  <1> DEFINE list == (IF c.primary = "" THEN <<>> ELSE <<c.primary>>) \o c.others
  <1>2. c.others \in Seq(Names) /\ DOMAIN c = {"question", "primary", "others", "focus", "education", "discovery"}
    BY IntakeAssumption
  <1>3. task.competitors = Seeds(c) /\ task.primary = c.primary
    BY <1>1, <1>2 DEF TaskOf, Normalized
  <1>4. Seeds(c) = Clean(list)  BY DEF Seeds
  <1>5. Seeds(c) # <<>>  BY <1>1 DEF DraftStatus, Missing
  <1>6. \E N : list \in Seq(N) /\ (c.primary # "" => Len(list) > 0 /\ list[1] = c.primary)
    <2>1. CASE c.primary = ""
      <3>1. list = <<>> \o c.others  BY <2>1
      <3>2. <<>> \o c.others \in Seq(Names)  BY <1>2, ConcatEmptySeq
      <3> QED  BY <2>1, <3>1, <3>2
    <2>2. CASE c.primary # ""
      <3> DEFINE p == c.primary
      <3>1. list = <<p>> \o c.others  BY <2>2
      <3> HIDE DEF p
      <3>2. <<p>> \in Seq(Names \cup {p}) /\ c.others \in Seq(Names \cup {p})
        <4>1. p \in Names \cup {p} /\ Names \subseteq Names \cup {p}  OBVIOUS
        <4>2. \A S : p \in S => <<p>> \in Seq(S)  OBVIOUS
        <4> QED  BY <1>2, <4>1, <4>2, SeqMonotonic
      <3>3. <<p>> \o c.others \in Seq(Names \cup {p})
            /\ Len(<<p>> \o c.others) > 0 /\ (<<p>> \o c.others)[1] = p
        <4>1. PICK S : <<p>> \in Seq(S) /\ c.others \in Seq(S) /\ S = Names \cup {p}  BY <3>2
        <4>2. Len(<<p>>) = 1 /\ <<p>>[1] = p  OBVIOUS
        <4>3. Len(c.others) \in Nat  BY <4>1, LenProperties
        <4>4. 1 \in 1..1 + Len(c.others)  BY <4>3
        <4> QED  BY <4>1, <4>2, <4>3, <4>4, ConcatProperties
      <3> QED  BY <3>1, <3>3 DEF p
    <2> QED  BY <2>1, <2>2
  <1>7. PICK N : list \in Seq(N)  BY <1>6
  <1> HIDE DEF list
  <1>8. /\ Len(Clean(list)) \in Nat /\ DOMAIN Clean(list) = 1..Len(Clean(list))
        /\ Clean(list) # <<>> => Len(Clean(list)) > 0
        /\ \A i, j \in 1..Len(Clean(list)) :
              Fold(Clean(list)[i]) = Fold(Clean(list)[j]) => i = j
        /\ Len(list) > 0 /\ list[1] # "" => Len(Clean(list)) > 0 /\ Clean(list)[1] = list[1]
    BY <1>7, CleanKeeps
  <1> DEFINE clean == Clean(list)
  <1>9. task.competitors = clean /\ clean # <<>>  BY <1>3, <1>4, <1>5
  <1>10. Len(clean) \in Nat /\ Len(clean) > 0 /\ DOMAIN clean = 1..Len(clean)
    BY <1>8, <1>9
  <1>11. \A i, j \in 1..Len(clean) : Fold(clean[i]) = Fold(clean[j]) => i = j
    BY <1>8
  <1>12. task.primary # "" => clean[1] = task.primary
    BY <1>3, <1>6, <1>8
  <1> HIDE DEF clean
  <1>13. Len(task.competitors) \in Nat \ {0}  BY <1>9, <1>10
  <1>14. \A i, j \in 1..Len(task.competitors) :
            Fold(task.competitors[i]) = Fold(task.competitors[j]) => i = j
    BY <1>9, <1>11
  <1> QED  BY <1>9, <1>10, <1>12, <1>13, <1>14

(* The names of a task are matched or missing, and counted once. *)
LEMMA NamesAreCounted ==
    ASSUME NEW task \in AnalysisTask
    PROVE  /\ Cardinality(MatchedNames(task)) \in Nat /\ Cardinality(MissingNames(task)) \in Nat
           /\ Cardinality(MatchedNames(task)) + Cardinality(MissingNames(task)) = Len(task.competitors)
           /\ Cardinality(MatchedNames(task)) = Len(task.competitors) <=> MissingNames(task) = {}
  <1> DEFINE S == ToSet(task.competitors)
             M == MatchedNames(task)
             n == Len(task.competitors)
             f == [i \in 1..n |-> task.competitors[i]]
  <1>1. n \in Nat /\ DOMAIN task.competitors = 1..n  BY TaskFacts
  <1>2. S = {task.competitors[i] : i \in 1..n}  BY <1>1 DEF ToSet
  <1>3. f \in Bijection(1..n, S)
    <2>1. f \in [1..n -> S] /\ \A y \in S : \E i \in 1..n : f[i] = y
        BY <1>2
    <2>2. \A i, j \in 1..n : f[i] = f[j] => i = j  BY TaskFacts
    <2> HIDE DEF f, n, S
    <2> QED  BY <2>1, <2>2 DEF Bijection, Injection, Surjection, IsInjective
  <1>4. IsFiniteSet(S) /\ Cardinality(S) = n
    <2> HIDE DEF f, n, S
    <2>1. ExistsBijection(1..n, S)  BY <1>3 DEF ExistsBijection
    <2>2. IsFiniteSet(1..n)  BY <1>1, FS_Interval
    <2> QED  BY <1>1, <2>1, <2>2, FS_Bijection, FS_CountingElements
  <1>5. M \subseteq S /\ MissingNames(task) = S \ M /\ S \cap M = M
    BY DEF MatchedNames, MissingNames
  <1> HIDE DEF f, n, S, M
  <1>6. IsFiniteSet(M) /\ Cardinality(M) \in Nat /\ (Cardinality(M) = n <=> M = S)
    BY <1>4, <1>5, FS_Subset, FS_CardinalityType
  <1>7. Cardinality(S \ M) = n - Cardinality(M) /\ Cardinality(S \ M) \in Nat
    BY <1>4, <1>5, FS_Difference, FS_CardinalityType
  <1>8. Cardinality(M) + Cardinality(S \ M) = n  BY <1>1, <1>6, <1>7
  <1>9. S \ M = {} <=> M = S  BY <1>5
  <1> QED  BY <1>5, <1>6, <1>7, <1>8, <1>9 DEF M, n

(* The dataset gate. *)
LEMMA GateFacts ==
    ASSUME NEW task \in AnalysisTask
    PROVE  /\ Compatibility(task) = "compatible" <=> BlockingReasons(task) = {}
           /\ 2 * Cardinality(MissingNames(task)) > Len(task.competitors)
                 => Compatibility(task) = "incompatible"
  <1>1. task.competitors # <<>> /\ Len(task.competitors) \in Nat  BY TaskFacts
  <1>2. AllMatched(task) <=> MissingNames(task) = {}
    BY <1>1, NamesAreCounted DEF AllMatched
  <1>3. BlockingReasons(task) = {} <=>
           task.education /\ MissingNames(task) = {} /\ Unsupported(task) = {}
    BY DEF BlockingReasons
  <1>4. Compatibility(task) = "compatible" <=>
           task.education /\ AllMatched(task) /\ Unsupported(task) = {}
    BY DEF Compatibility
  <1>5. ASSUME 2 * Cardinality(MissingNames(task)) > Len(task.competitors)
        PROVE  ~AllMatched(task) /\ ~HalfMatched(task)
    BY <1>1, <1>5, NamesAreCounted DEF AllMatched, HalfMatched
  <1>6. ~AllMatched(task) /\ ~HalfMatched(task) => Compatibility(task) = "incompatible"
    BY DEF Compatibility
  <1> QED  BY <1>2, <1>3, <1>4, <1>5, <1>6

LEMMA ThreadFacts ==
    ASSUME Types, NEW r \in Requests
    PROVE  /\ req[r].at \in {"idle"} \cup ConfirmPoints \cup BuildPoints
           /\ req[r].at = "idle" <=> req[r] = Idle
           /\ req[r].at \in ConfirmPoints =>
                 /\ req[r] \in Confirming /\ req[r].what[2] \in DraftIds
                 /\ req[r].task \in TaskIds /\ req[r].content \in ReadyContents
                 /\ req[r].what = <<"draft", req[r].what[2]>>
           /\ req[r].at \in BuildPoints =>
                 /\ req[r] \in Building /\ req[r].task \in TaskIds
                 /\ req[r].content \subseteq Work /\ req[r].what = <<"task", req[r].task>>
  <1>1. CASE req[r] = Idle  BY <1>1 DEF Idle, ConfirmPoints, BuildPoints
  <1>2. CASE req[r].at \in ConfirmPoints /\ req[r] \in Confirming
    BY <1>2 DEF Idle, ConfirmPoints, BuildPoints, Confirming
  <1>3. CASE req[r].at \in BuildPoints /\ req[r] \in Building /\ req[r].what[2] = req[r].task
    BY <1>3 DEF Idle, ConfirmPoints, BuildPoints, Building
  <1> QED  BY <1>1, <1>2, <1>3 DEF Types

LEMMA HeldFacts ==
    ASSUME Types
    PROVE  /\ \A d \in DraftIds : Held(<<"draft", d>>) <=> \E r \in Requests : Confirms(r, d)
           /\ \A t \in TaskIds : Held(<<"task", t>>) <=> \E r \in Requests : Plans(r, t)
  <1>1. ASSUME NEW r \in Requests, NEW d \in DraftIds
        PROVE  req[r] # Idle /\ req[r].what = <<"draft", d>> <=> Confirms(r, d)
    <2>1. CASE req[r].at = "idle"
        BY <2>1, ThreadFacts DEF Confirms, ConfirmPoints
    <2>2. CASE req[r].at \in ConfirmPoints
        BY <2>2, ThreadFacts DEF Confirms, ConfirmPoints
    <2>3. CASE req[r].at \in BuildPoints
        BY <2>3, ThreadFacts DEF Confirms, ConfirmPoints, BuildPoints
    <2> QED  BY <2>1, <2>2, <2>3, ThreadFacts
  <1>2. ASSUME NEW r \in Requests, NEW t \in TaskIds
        PROVE  req[r] # Idle /\ req[r].what = <<"task", t>> <=> Plans(r, t)
    <2>1. CASE req[r].at = "idle"
        BY <2>1, ThreadFacts DEF Plans, BuildPoints
    <2>2. CASE req[r].at \in ConfirmPoints
        BY <2>2, ThreadFacts DEF Plans, ConfirmPoints, BuildPoints
    <2>3. CASE req[r].at \in BuildPoints
        BY <2>3, ThreadFacts DEF Plans, BuildPoints
    <2> QED  BY <2>1, <2>2, <2>3, ThreadFacts
  <1> QED  BY <1>1, <1>2 DEF Held

LEMMA InvOnce == IInv => ConfirmedOnce
  <1> SUFFICES ASSUME IInv, NEW d \in DraftIds
               PROVE  /\ \A t \in TasksOf(d) :
                            /\ drafts[d].status = "confirmed"
                            /\ tasks[t].competitors # <<>>
                            /\ tasks[t].primary # "" =>
                                  tasks[t].competitors[1] = tasks[t].primary
                            /\ \A i, j \in 1..Len(tasks[t].competitors) :
                                  Fold(tasks[t].competitors[i]) = Fold(tasks[t].competitors[j])
                                     => i = j
                      /\ Alone(<<"draft", d>>) /\ drafts[d].status = "confirmed" =>
                            /\ TasksOf(d) \subseteq {drafts[d].task}
                            /\ ~Held(<<"draft", d>>) /\ crashes = 0 =>
                                  TasksOf(d) = {drafts[d].task}
    BY DEF ConfirmedOnce
  <1>1. ASSUME NEW t \in TasksOf(d)
        PROVE  tasks[t] \in AnalysisTask /\ drafts[d].status = "confirmed"
    BY DEF IInv, Types, DraftInv, TasksOf
  <1>2. ASSUME Alone(<<"draft", d>>), drafts[d].status = "confirmed"
        PROVE  /\ TasksOf(d) \subseteq {drafts[d].task}
               /\ ~Held(<<"draft", d>>) /\ crashes = 0 => TasksOf(d) = {drafts[d].task}
    BY <1>2, HeldFacts DEF IInv, OnceInv
  <1>3. ASSUME NEW t \in TasksOf(d)
        PROVE  /\ tasks[t].competitors # <<>>
               /\ tasks[t].primary # "" => tasks[t].competitors[1] = tasks[t].primary
               /\ \A i, j \in 1..Len(tasks[t].competitors) :
                     Fold(tasks[t].competitors[i]) = Fold(tasks[t].competitors[j]) => i = j
    BY <1>1, TaskFacts
  <1> QED  BY <1>1, <1>2, <1>3

(* A plan's tasks all wait for the collector, one for each pair, and the   *)
(* board speaks of them.                                                   *)
LEMMA BuildFacts ==
    ASSUME NEW task \in AnalysisTask, NEW all \in Builds(task)
    PROVE  /\ all \subseteq Work
           /\ \A c \in ToSet(task.competitors), d \in Dimensions(task) :
                 \E b \in BoardOf(all) :
                    b.of.competitor = c /\ b.of.dimension = d /\ b.status = "ready"
  <1>1. PICK n \in 1..MaxRequests : all = ResearchTasks(task, n)  BY DEF Builds
  <1>2. all \subseteq Work  BY DEF Work
  <1>3. ASSUME NEW c \in ToSet(task.competitors), NEW d \in Dimensions(task)
        PROVE  \E b \in BoardOf(all) :
                  b.of.competitor = c /\ b.of.dimension = d /\ b.status = "ready"
    <2> DEFINE w == [build |-> n, competitor |-> c, dimension |-> d, seeds |-> SeedsOf(c),
                     status |-> "waiting_for_collector"]
    <2>1. w \in all  BY <1>1 DEF ResearchTasks, Competitors
    <2>2. [of |-> w, status |-> "ready"] \in BoardOf(all)
        BY <2>1 DEF BoardOf
    <2> QED  BY <2>2
  <1> QED  BY <1>2, <1>3

LEMMA BoardFacts ==
    ASSUME NEW all
    PROVE  {b.of : b \in BoardOf(all)} = all
  <1>1. ASSUME NEW b \in BoardOf(all) PROVE b.of \in all  BY DEF BoardOf
  <1>2. ASSUME NEW t \in all PROVE \E b \in BoardOf(all) : b.of = t
    <2> DEFINE b == [of |-> t, status |-> IF t.status = "covered_by_snapshot"
                                          THEN "completed" ELSE "ready"]
    <2>1. b \in BoardOf(all) /\ b.of = t  BY DEF BoardOf
    <2> QED  BY <2>1
  <1> QED  BY <1>1, <1>2

LEMMA InvWhole == IInv => PlanIsWhole
  <1> SUFFICES ASSUME IInv PROVE PlanIsWhole  OBVIOUS
  <1>1. BlockedHasReason
    BY GateFacts DEF BlockedHasReason, IInv, Types
  <1>2. ASSUME NEW t \in TaskIds, Alone(<<"task", t>>)
        PROVE  /\ research[t] # {} => plans[t] # None /\ research[t] = plans[t].tasks
               /\ {b.of : b \in boards[t]} \in {{}, research[t]}
    <2>1. {b.of : b \in {}} = {}  OBVIOUS
    <2> QED  BY <1>2, <2>1, BoardFacts DEF IInv, PlanInv, Planned
  <1>3. ASSUME NEW t \in TaskIds, Alone(<<"task", t>>),
               plans[t] # None, ~Held(<<"task", t>>), crashes = 0
        PROVE  /\ {b.of : b \in boards[t]} = plans[t].tasks
               /\ \A c \in ToSet(tasks[t].competitors), d \in Dimensions(tasks[t]) :
                     \E b \in boards[t] :
                        b.of.competitor = c /\ b.of.dimension = d /\ b.status = "ready"
    <2>1. boards[t] = BoardOf(plans[t].tasks)
        BY <1>3, HeldFacts DEF IInv, PlanInv, Planned
    <2>2. tasks[t] \in AnalysisTask /\ plans[t].tasks \in Builds(tasks[t])
        BY <1>3 DEF IInv, PlanInv, Planned, Types
    <2>3. {b.of : b \in boards[t]} = plans[t].tasks  BY <2>1, BoardFacts
    <2>4. \A c \in ToSet(tasks[t].competitors), d \in Dimensions(tasks[t]) :
             \E b \in BoardOf(plans[t].tasks) :
                b.of.competitor = c /\ b.of.dimension = d /\ b.status = "ready"
        BY <2>2, BuildFacts
    <2> QED  BY <2>1, <2>3, <2>4
  <1> QED  BY <1>1, <1>2, <1>3 DEF PlanIsWhole

-----------------------------------------------------------------------------
(* The steps. *)

LEMMA Bounds == MaxTasks \in Nat /\ MaxRequests \in Nat
  BY IntakeAssumption

LEMMA IInvInit == Init => IInv
  <1> SUFFICES ASSUME Init PROVE IInv  OBVIOUS
  <1>1. Types
    <2>1. /\ drafts \in [DraftIds -> {None} \cup Draft]
          /\ tasks \in [TaskIds -> {None} \cup AnalysisTask]
          /\ research \in [TaskIds -> SUBSET Work]
          /\ boards \in [TaskIds -> SUBSET [of : Work, status : {"completed", "ready"}]]
          /\ DOMAIN req = Requests /\ \A r \in Requests : req[r] = Idle
        BY DEF Init
    <2>2. plans \in [TaskIds -> {None} \cup [status : {"ready_for_analysis", "needs_collection"},
                                             tasks : SUBSET Work]]
        BY DEF Init
    <2>3. nextTask \in Nat \ {0} /\ requests \in 0..MaxRequests /\ crashes \in Nat
        BY Bounds DEF Init
    <2> QED  BY <2>1, <2>2, <2>3 DEF Types
  <1>2. \A r \in Requests : req[r].at = "idle"
    BY DEF Init, Idle
  <1>3. \A t \in TaskIds : tasks[t] = None /\ plans[t] = None /\ research[t] = {} /\ boards[t] = {}
    BY DEF Init
  <1>4. \A d \in DraftIds : drafts[d].status = "none" /\ TasksOf(d) = {}
    BY <1>3 DEF Init, None, TasksOf
  <1>5. AloneInv  BY <1>2 DEF AloneInv
  <1>6. DraftInv  BY <1>2, <1>3 DEF DraftInv, ConfirmPoints
  <1>7. OnceInv  BY <1>2, <1>4 DEF OnceInv, Confirms, ConfirmPoints
  <1>8. PlanInv  BY <1>2, <1>3 DEF PlanInv, Planned, Plans, BuildPoints
  <1> QED  BY <1>1, <1>5, <1>6, <1>7, <1>8 DEF IInv

(* A step that begins nothing brings no two threads together. *)
LEMMA AloneGoesOn ==
    ASSUME AloneInv, overlap \subseteq overlap',
           \A r \in Requests : req'[r].at # "idle" =>
              req[r].at # "idle" /\ req'[r].what = req[r].what
    PROVE  AloneInv'
  BY DEF AloneInv, Alone

(* A thread that begins is alone, or what it begins is marked. *)
LEMMA AloneBegins ==
    ASSUME Types, AloneInv, NEW r \in Requests, NEW x, NEW what,
           req[r].at = "idle", x.at # "idle", x.what = what,
           req' = [req EXCEPT ![r] = x], Meets(r, what)
    PROVE  /\ AloneInv'
           /\ overlap \subseteq overlap'
           /\ what \in overlap' \/ \A s \in Requests \ {r} : req[s].at = "idle" \/ req[s].what # what
  <1>1. \A s \in Requests : req'[s] = IF s = r THEN x ELSE req[s]
    BY DEF Types
  <1>2. overlap \subseteq overlap'  BY DEF Meets
  <1>3. what \in overlap' \/ \A s \in Requests \ {r} : req[s].at = "idle" \/ req[s].what # what
    BY DEF Meets, Busy
  <1>4. AloneInv'
    BY <1>1, <1>2, <1>3 DEF AloneInv, Alone
  <1> QED  BY <1>2, <1>3, <1>4

(* What concerns drafts stays where no confirmation moves, and what        *)
(* concerns plans where no build does.                                     *)
LEMMA DraftsStay ==
    ASSUME DraftInv, OnceInv,
           UNCHANGED <<drafts, tasks, nextTask, crashes>>, overlap \subseteq overlap',
           \A r \in Requests :
              req[r].at \in ConfirmPoints \/ req'[r].at \in ConfirmPoints => req'[r] = req[r]
    PROVE  DraftInv' /\ OnceInv'
  <1>1. DraftInv'  BY DEF DraftInv
  <1>2. \A d \in DraftIds : TasksOf(d)' = TasksOf(d)  BY DEF TasksOf
  <1>3. \A d \in DraftIds, r \in Requests : Confirms(r, d)' <=> Confirms(r, d)
    BY DEF Confirms
  <1>4. \A d \in DraftIds, r \in Requests : Confirms(r, d) => req'[r] = req[r]
    BY DEF Confirms
  <1>5. \A d \in DraftIds : Alone(<<"draft", d>>)' => Alone(<<"draft", d>>)
    BY DEF Alone
  <1>6. OnceInv'  BY <1>2, <1>3, <1>4, <1>5 DEF OnceInv
  <1> QED  BY <1>1, <1>6

LEMMA PlansStay ==
    ASSUME PlanInv,
           UNCHANGED <<plans, research, boards, crashes>>, overlap \subseteq overlap',
           \A t \in TaskIds : tasks[t] # None => tasks'[t] = tasks[t],
           \A r \in Requests :
              req[r].at \in BuildPoints \/ req'[r].at \in BuildPoints => req'[r] = req[r]
    PROVE  PlanInv'
  <1>1. \A t \in TaskIds, r \in Requests : Plans(r, t)' <=> Plans(r, t)
    BY DEF Plans
  <1>2. \A t \in TaskIds, r \in Requests : Plans(r, t) => req'[r] = req[r]
    BY DEF Plans
  <1>3. \A t \in TaskIds : Alone(<<"task", t>>)' => Alone(<<"task", t>>)
    BY DEF Alone
  <1>4. \A t \in TaskIds :
           plans[t] # None \/ (\E r \in Requests : Plans(r, t)) => tasks'[t] = tasks[t] /\ tasks[t] # None
    BY DEF PlanInv
  <1>5. ASSUME NEW t \in TaskIds, Alone(<<"task", t>>)'
        PROVE  Planned(t)'
    <2>1. Planned(t)  BY <1>3, <1>5 DEF PlanInv
    <2>2. plans[t] # None => tasks'[t] = tasks[t]  BY <1>4
    <2>3. \A r \in Requests : Plans(r, t) => tasks'[t] = tasks[t]  BY <1>4
    <2> QED  BY <1>1, <1>2, <2>1, <2>2, <2>3 DEF Planned
  <1>6. \A t \in TaskIds :
           plans'[t] # None \/ (\E r \in Requests : Plans(r, t)') => tasks'[t] # None
    BY <1>1, <1>4
  <1> QED  BY <1>5, <1>6 DEF PlanInv

-----------------------------------------------------------------------------
(* A confirmation. *)

LEMMA ParseKeeps ==
    ASSUME IInv, NEW r \in Requests, ParseRequest(r)
    PROVE  IInv'
  <1>1. PICK d \in DraftIds, c \in Contents :
           /\ drafts[d].status = "none"
           /\ drafts' = [drafts EXCEPT ![d] =
                 [status |-> DraftStatus(c), content |-> Normalized(c), task |-> 0]]
    BY DEF ParseRequest
  <1>2. UNCHANGED <<tasks, plans, research, boards, req, overlap, nextTask, crashes>>
        /\ requests' \in 0..MaxRequests
    BY Bounds DEF ParseRequest, Begin, IInv, Types
  <1>3. DraftStatus(c) \in {"ready", "needs_clarification"}  BY DEF DraftStatus
  <1>4. /\ drafts' \in [DraftIds -> {None} \cup Draft]
        /\ \A e \in DraftIds \ {d} : drafts'[e] = drafts[e]
        /\ drafts'[d].status # "confirmed" /\ drafts'[d] # None
    <2>1. [status |-> DraftStatus(c), content |-> Normalized(c), task |-> 0] \in Draft
        BY <1>3 DEF Draft
    <2>2. [status |-> DraftStatus(c), content |-> Normalized(c), task |-> 0] # None
        BY <1>3 DEF None
    <2> QED  BY <1>1, <1>3, <2>1, <2>2 DEF IInv, Types
  <1>5. Types'  BY <1>2, <1>4 DEF IInv, Types
  <1>6. \A t \in TaskIds : tasks[t] # None => tasks[t].draft # d
    BY <1>1 DEF IInv, DraftInv
  <1>7. \A q \in Requests : req[q].at \in ConfirmPoints => req[q].what[2] \in DraftIds \ {d}
    <2>1. drafts[d] = None  BY <1>1 DEF IInv, Types, Draft
    <2> QED  BY <2>1, ThreadFacts DEF IInv, DraftInv
  <1>8. DraftInv'
    <2>1. \A t \in TaskIds : tasks[t] # None => tasks[t].draft \in DraftIds \ {d}
        BY <1>6 DEF IInv, Types, AnalysisTask, TaskOf
    <2> QED  BY <1>2, <1>4, <1>7, <2>1 DEF IInv, DraftInv
  <1>9. OnceInv'
    <2>1. \A e \in DraftIds : TasksOf(e)' = TasksOf(e)  BY <1>2 DEF TasksOf
    <2>2. TasksOf(d) = {}  BY <1>6 DEF TasksOf
    <2>3. \A q \in Requests, e \in DraftIds :
             (Confirms(q, e)' <=> Confirms(q, e)) /\ ~Confirms(q, d)
        BY <1>2, <1>7 DEF Confirms
    <2>4. \A e \in DraftIds : Alone(<<"draft", e>>)' <=> Alone(<<"draft", e>>)
        BY <1>2 DEF Alone
    <2> QED  BY <1>2, <1>4, <2>1, <2>2, <2>3, <2>4 DEF IInv, OnceInv
  <1>10. PlanInv'  BY <1>2, PlansStay DEF IInv
  <1>11. AloneInv'  BY <1>2, AloneGoesOn DEF IInv
  <1> QED  BY <1>5, <1>8, <1>9, <1>10, <1>11 DEF IInv

LEMMA ConfirmReadsKeeps ==
    ASSUME IInv, NEW r \in Requests, ConfirmReads(r)
    PROVE  IInv'
  <1>1. PICK d \in DraftIds, c \in Contents :
           /\ drafts[d].status \in {"ready", "needs_clarification"}
           /\ DraftStatus(c) = "ready"
           /\ req' = [req EXCEPT ![r] = [at |-> "confirm_draft", what |-> <<"draft", d>>,
                                         content |-> Normalized(c), task |-> nextTask]]
           /\ Meets(r, <<"draft", d>>)
    BY DEF ConfirmReads
  <1> DEFINE x == [at |-> "confirm_draft", what |-> <<"draft", d>>,
                   content |-> Normalized(c), task |-> nextTask]
  <1>2. /\ UNCHANGED <<drafts, tasks, plans, research, boards, crashes>>
        /\ req[r].at = "idle" /\ nextTask <= MaxTasks /\ nextTask' = nextTask + 1
        /\ requests' \in 0..MaxRequests
    BY Bounds DEF ConfirmReads, Begin, IInv, Types
  <1>3. nextTask \in TaskIds /\ nextTask' \in Nat \ {0} /\ nextTask \in Nat
    BY <1>2, Bounds DEF IInv, Types, TaskIds
  <1>4. /\ x \in Confirming /\ x.at = "confirm_draft" /\ x.at \in ConfirmPoints
        /\ x.what[2] = d /\ x.task = nextTask /\ x.what = <<"draft", d>>
    BY <1>1, <1>3 DEF Confirming, ConfirmPoints, ReadyContents
  <1>5. \A s \in Requests : req'[s] = IF s = r THEN x ELSE req[s]
    BY <1>1 DEF IInv, Types
  <1>6. DOMAIN req' = Requests  BY <1>1 DEF IInv, Types
  <1>7. req' = [req EXCEPT ![r] = x]  BY <1>1
  <1> HIDE DEF x
  <1>8. AloneInv' /\ overlap \subseteq overlap'
        /\ (Alone(<<"draft", d>>)' =>
               \A s \in Requests \ {r} : req[s].at = "idle" \/ req[s].what # <<"draft", d>>)
    <2>1. x.at # "idle"  BY <1>4
    <2> DEFINE what == <<"draft", d>>
    <2>2. x.what = what /\ Meets(r, what)  BY <1>1, <1>4
    <2> HIDE DEF what
    <2>3. /\ AloneInv' /\ overlap \subseteq overlap'
          /\ what \in overlap' \/ \A s \in Requests \ {r} : req[s].at = "idle" \/ req[s].what # what
        BY <1>2, <1>7, <2>1, <2>2, AloneBegins DEF IInv
    <2> QED  BY <2>3 DEF Alone, what
  <1>9. Types'  BY <1>2, <1>3, <1>4, <1>5, <1>6 DEF IInv, Types
  <1>10. \A t \in TaskIds : tasks[t] # None => t < nextTask /\ tasks[t].draft # d
    BY <1>1 DEF IInv, DraftInv
  <1>11. DraftInv'
    <2>0. \A t \in TaskIds : t \in Nat  BY Bounds DEF TaskIds
    <2>1. \A t \in TaskIds : t < nextTask => t < nextTask'  BY ONLY <1>2, <1>3, <2>0
    <2>2. tasks[nextTask] = None  BY <1>3, <1>10
    <2>3. drafts[d] # None  BY <1>1 DEF None
    <2>4. nextTask < nextTask'  BY <1>2, <1>3
    <2>5. \A s \in Requests : req[s].at \in ConfirmPoints =>
             req[s].task # nextTask /\ req[s].task \in TaskIds
        BY <1>3, ThreadFacts DEF IInv, DraftInv
    <2>6. \A t \in TaskIds : tasks'[t] # None =>
             t < nextTask' /\ drafts'[tasks'[t].draft].status = "confirmed"
        BY <1>2, <2>1 DEF IInv, DraftInv
    <2>7. ASSUME NEW q \in Requests, req'[q].at \in ConfirmPoints
          PROVE  /\ req'[q].task < nextTask' /\ tasks'[req'[q].task] = None
                 /\ drafts'[req'[q].what[2]] # None
                 /\ req'[q].at = "confirm_task" => drafts'[req'[q].what[2]].status = "confirmed"
                 /\ \A s \in Requests \ {q} :
                       req'[s].at \in ConfirmPoints => req'[s].task # req'[q].task
      <3>1. CASE q = r  BY <1>2, <1>4, <1>5, <2>2, <2>3, <2>4, <2>5, <3>1
      <3>2. CASE q # r
        <4>1. req'[q] = req[q] /\ req[q].at \in ConfirmPoints  BY <1>5, <2>7, <3>2
        <4>2. req[q].task < nextTask'  BY <2>1, <2>5, <4>1 DEF IInv, DraftInv
        <4>3. \A s \in Requests \ {q} :
                 req'[s].at \in ConfirmPoints => req'[s].task # req'[q].task
            BY <1>4, <1>5, <2>5, <4>1 DEF IInv, DraftInv
        <4> QED  BY <1>2, <4>1, <4>2, <4>3 DEF IInv, DraftInv
      <3> QED  BY <3>1, <3>2
    <2> QED  BY <2>6, <2>7 DEF DraftInv
  <1>12. OnceInv'
    <2>1. \A e \in DraftIds : TasksOf(e)' = TasksOf(e)  BY <1>2 DEF TasksOf
    <2>2. TasksOf(d) = {} /\ drafts[d].status # "confirmed"  BY <1>1, <1>10 DEF TasksOf
    <2>3. \A e \in DraftIds : Alone(<<"draft", e>>)' => Alone(<<"draft", e>>)
        BY <1>8 DEF Alone
    <2>4. \A q \in Requests \ {r}, e \in DraftIds :
             (Confirms(q, e)' <=> Confirms(q, e)) /\ req'[q] = req[q]
        BY <1>5 DEF Confirms
    <2>5. \A e \in DraftIds : ~Confirms(r, e) /\ (Confirms(r, e)' => e = d)
        BY <1>2, <1>4, <1>5 DEF Confirms, ConfirmPoints
    <2>6. req'[r].at = "confirm_draft"  BY <1>4, <1>5
    <2>7. ASSUME NEW e \in DraftIds, Alone(<<"draft", e>>)', NEW q \in Requests, Confirms(q, e)'
          PROVE  /\ TasksOf(e) = {}
                 /\ req'[q].at = "confirm_draft" => drafts[e].status # "confirmed"
                 /\ req'[q].at = "confirm_task" => drafts[e].task = req'[q].task
      <3>1. CASE q = r  BY <2>2, <2>5, <2>6, <2>7, <3>1
      <3>2. CASE q # r  BY <2>3, <2>4, <2>7, <3>2 DEF IInv, OnceInv
      <3> QED  BY <3>1, <3>2
    <2>8. ASSUME NEW e \in DraftIds, Alone(<<"draft", e>>)',
                 drafts[e].status = "confirmed", crashes = 0
          PROVE  drafts[e].task \in TasksOf(e) \/ \E q \in Requests : Confirms(q, e)'
        BY <2>3, <2>4, <2>5, <2>8 DEF IInv, OnceInv
    <2>9. \A e \in DraftIds : Alone(<<"draft", e>>)' => \A t \in TasksOf(e) : t = drafts[e].task
        BY <2>3 DEF IInv, OnceInv
    <2> QED  BY <1>2, <2>1, <2>7, <2>8, <2>9 DEF OnceInv
  <1>13. PlanInv'
    <2>1. \A q \in Requests :
             req[q].at \in BuildPoints \/ req'[q].at \in BuildPoints => req'[q] = req[q]
        BY <1>2, <1>4, <1>5 DEF BuildPoints
    <2> QED  BY <1>2, <1>8, <2>1, PlansStay DEF IInv
  <1> QED  BY <1>8, <1>9, <1>11, <1>12, <1>13 DEF IInv

LEMMA ConfirmSavesDraftKeeps ==
    ASSUME IInv, NEW r \in Requests, ConfirmSavesDraft(r)
    PROVE  IInv'
  <1>1. PICK d \in DraftIds, k \in TaskIds, c \in ReadyContents :
           req[r].what = <<"draft", d>> /\ req[r].what[2] = d /\ req[r].task = k /\ req[r].content = c
    BY ThreadFacts DEF ConfirmSavesDraft, IInv, ConfirmPoints
  <1>2. /\ req[r].at = "confirm_draft" /\ req[r] \in Confirming
        /\ drafts' = [drafts EXCEPT ![d] = [status |-> "confirmed", content |-> c, task |-> k]]
        /\ req' = [req EXCEPT ![r].at = "confirm_task"]
        /\ UNCHANGED <<tasks, plans, research, boards, overlap, nextTask, requests, crashes>>
    BY <1>1, ThreadFacts DEF ConfirmSavesDraft, IInv, ConfirmPoints
  <1>3. /\ drafts' \in [DraftIds -> {None} \cup Draft]
        /\ drafts'[d].status = "confirmed" /\ drafts'[d].task = k /\ drafts'[d] # None
        /\ \A e \in DraftIds \ {d} : drafts'[e] = drafts[e]
    <2>1. [status |-> "confirmed", content |-> c, task |-> k] \in Draft
        BY DEF Draft, ReadyContents
    <2>2. [status |-> "confirmed", content |-> c, task |-> k] # None
        BY DEF None
    <2> QED  BY <1>2, <2>1, <2>2 DEF IInv, Types
  <1>4. /\ req'[r] \in Confirming /\ req'[r].at = "confirm_task"
        /\ req'[r].what = req[r].what /\ req'[r].task = k
        /\ DOMAIN req' = Requests
        /\ \A s \in Requests \ {r} : req'[s] = req[s]
    BY <1>1, <1>2 DEF IInv, Types, Confirming, ConfirmPoints
  <1>5. Types'
    BY <1>2, <1>3, <1>4 DEF IInv, Types, ConfirmPoints
  <1>6. AloneInv'
    BY <1>2, <1>4, AloneGoesOn DEF IInv
  <1>7. \A q \in Requests : req'[q].at \in ConfirmPoints <=> req[q].at \in ConfirmPoints
    BY <1>2, <1>4 DEF ConfirmPoints
  <1>8. \A q \in Requests : req[q].at \in ConfirmPoints =>
           req'[q].what = req[q].what /\ req'[q].task = req[q].task
    BY <1>1, <1>4
  <1>9. DraftInv'
    <2>1. \A t \in TaskIds : tasks[t] # None => tasks[t].draft \in DraftIds
        BY DEF IInv, Types, AnalysisTask, TaskOf
    <2>2. \A q \in Requests : req[q].at \in ConfirmPoints => req[q].what[2] \in DraftIds
        BY ThreadFacts DEF IInv
    <2>3. \A e \in DraftIds :
             /\ drafts[e] # None => drafts'[e] # None
             /\ drafts[e].status = "confirmed" => drafts'[e].status = "confirmed"
        BY <1>3
    <2>4. \A q \in Requests : req'[q].at = "confirm_task" =>
             drafts'[req'[q].what[2]].status = "confirmed"
      <3> SUFFICES ASSUME NEW q \in Requests, req'[q].at = "confirm_task"
                   PROVE  drafts'[req'[q].what[2]].status = "confirmed"
          OBVIOUS
      <3>1. CASE q = r  BY <1>1, <1>3, <1>4, <3>1
      <3>2. CASE q # r
          BY <1>4, <2>2, <2>3, <3>2 DEF IInv, DraftInv, ConfirmPoints
      <3> QED  BY <3>1, <3>2
    <2>5. \A t \in TaskIds : tasks'[t] # None =>
             t < nextTask' /\ drafts'[tasks'[t].draft].status = "confirmed"
        BY <1>2, <2>1, <2>3 DEF IInv, DraftInv
    <2>6. \A q \in Requests : req'[q].at \in ConfirmPoints =>
             /\ req'[q].task < nextTask' /\ tasks'[req'[q].task] = None
             /\ drafts'[req'[q].what[2]] # None
             /\ \A s \in Requests \ {q} : req'[s].at \in ConfirmPoints => req'[s].task # req'[q].task
        BY <1>2, <1>7, <1>8, <2>2, <2>3 DEF IInv, DraftInv
    <2> QED  BY <2>4, <2>5, <2>6 DEF DraftInv
  <1>10. OnceInv'
    <2>1. \A e \in DraftIds : TasksOf(e)' = TasksOf(e)  BY <1>2 DEF TasksOf
    <2>2. \A e \in DraftIds : Alone(<<"draft", e>>)' <=> Alone(<<"draft", e>>)
        BY <1>2 DEF Alone
    <2>3. \A q \in Requests, e \in DraftIds : Confirms(q, e)' <=> Confirms(q, e)
        BY <1>7, <1>8 DEF Confirms
    <2>4. Confirms(r, d)  BY <1>1, <1>2 DEF Confirms, ConfirmPoints
    <2>5. Alone(<<"draft", d>>) => \A q \in Requests : Confirms(q, d) => q = r
      <3> SUFFICES ASSUME Alone(<<"draft", d>>), NEW q \in Requests, Confirms(q, d)
                   PROVE  q = r
          OBVIOUS
      <3>1. req[q].what = <<"draft", d>> /\ req[q].at # "idle"
          BY ThreadFacts DEF IInv, Confirms, ConfirmPoints
      <3> QED  BY <1>1, <1>2, <3>1 DEF IInv, AloneInv
    <2>6. ASSUME NEW e \in DraftIds, e # d, Alone(<<"draft", e>>)
          PROVE  /\ \A t \in TasksOf(e) : t = drafts'[e].task
                 /\ \A q \in Requests : Confirms(q, e) =>
                       /\ TasksOf(e) = {} /\ q # r
                       /\ req'[q].at = "confirm_draft" => drafts'[e].status # "confirmed"
                       /\ req'[q].at = "confirm_task" => drafts'[e].task = req'[q].task
                 /\ drafts'[e].status = "confirmed" /\ crashes = 0 =>
                       drafts'[e].task \in TasksOf(e) \/ \E q \in Requests : Confirms(q, e)
      <3>1. ~Confirms(r, e)  BY <1>1, <2>6 DEF Confirms
      <3> QED  BY <1>3, <1>4, <2>6, <3>1 DEF IInv, OnceInv
    <2>7. Alone(<<"draft", d>>) => TasksOf(d) = {}
        BY <2>4 DEF IInv, OnceInv
    <2>8. ASSUME Alone(<<"draft", d>>)
          PROVE  /\ \A t \in TasksOf(d) : t = drafts'[d].task
                 /\ \A q \in Requests : Confirms(q, d) =>
                       /\ TasksOf(d) = {}
                       /\ req'[q].at = "confirm_draft" => drafts'[d].status # "confirmed"
                       /\ req'[q].at = "confirm_task" => drafts'[d].task = req'[q].task
                 /\ \E q \in Requests : Confirms(q, d)
        BY <1>3, <1>4, <2>4, <2>5, <2>7, <2>8
    <2> QED  BY <1>2, <2>1, <2>2, <2>3, <2>6, <2>8 DEF OnceInv
  <1>11. PlanInv'
    <2>1. \A q \in Requests :
             req[q].at \in BuildPoints \/ req'[q].at \in BuildPoints => req'[q] = req[q]
        BY <1>2, <1>4 DEF BuildPoints
    <2> QED  BY <1>2, <2>1, PlansStay DEF IInv
  <1> QED  BY <1>5, <1>6, <1>9, <1>10, <1>11 DEF IInv

LEMMA ConfirmSavesTaskKeeps ==
    ASSUME IInv, NEW r \in Requests, ConfirmSavesTask(r)
    PROVE  IInv'
  <1>1. PICK d \in DraftIds, k \in TaskIds, c \in ReadyContents :
           req[r].what = <<"draft", d>> /\ req[r].what[2] = d /\ req[r].task = k /\ req[r].content = c
    BY ThreadFacts DEF ConfirmSavesTask, IInv, ConfirmPoints
  <1>2. /\ req[r].at = "confirm_task"
        /\ tasks' = [tasks EXCEPT ![k] = TaskOf(c, d)]
        /\ req' = [req EXCEPT ![r] = Idle]
        /\ UNCHANGED <<drafts, plans, research, boards, overlap, nextTask, requests, crashes>>
    BY <1>1 DEF ConfirmSavesTask
  <1>3. /\ tasks' \in [TaskIds -> {None} \cup AnalysisTask]
        /\ tasks'[k] # None /\ tasks'[k].draft = d
        /\ \A t \in TaskIds \ {k} : tasks'[t] = tasks[t]
    <2>1. TaskOf(c, d) \in AnalysisTask /\ TaskOf(c, d).draft = d  BY DEF AnalysisTask, TaskOf
    <2>2. TaskOf(c, d) # None  BY DEF None, TaskOf
    <2> QED  BY <1>2, <2>1, <2>2 DEF IInv, Types
  <1>4. DOMAIN req' = Requests /\ req'[r] = Idle /\ req'[r].at = "idle"
        /\ \A s \in Requests \ {r} : req'[s] = req[s]
    BY <1>2 DEF IInv, Types, Idle
  <1>5. Types'
    BY <1>2, <1>3, <1>4 DEF IInv, Types
  <1>6. AloneInv'  BY <1>2, <1>4, AloneGoesOn DEF IInv
  <1>7. tasks[k] = None /\ k < nextTask /\ drafts[d].status = "confirmed"
        /\ \A s \in Requests \ {r} : req[s].at \in ConfirmPoints => req[s].task # k
    BY <1>1, <1>2 DEF IInv, DraftInv, ConfirmPoints
  <1>8. \A s \in Requests : req'[s].at \in ConfirmPoints =>
           s # r /\ req'[s] = req[s] /\ req[s].task \in TaskIds \ {k}
    BY <1>4, <1>7, ThreadFacts DEF ConfirmPoints, IInv
  <1>9. DraftInv'
    BY <1>2, <1>3, <1>7, <1>8 DEF IInv, DraftInv
  <1>10. OnceInv'
    <2>1. \A e \in DraftIds : TasksOf(e)' = IF e = d THEN TasksOf(e) \cup {k} ELSE TasksOf(e)
        BY <1>3, <1>7 DEF TasksOf
    <2>2. \A e \in DraftIds : Alone(<<"draft", e>>)' <=> Alone(<<"draft", e>>)
        BY <1>2 DEF Alone
    <2>3. \A q \in Requests, e \in DraftIds : Confirms(q, e)' <=> q # r /\ Confirms(q, e)
        BY <1>4, <1>8 DEF Confirms, ConfirmPoints
    <2>4. Confirms(r, d) /\ \A e \in DraftIds : Confirms(r, e) => e = d
        BY <1>1, <1>2 DEF Confirms, ConfirmPoints
    <2>5. ASSUME NEW e \in DraftIds, e # d, Alone(<<"draft", e>>)
          PROVE  /\ \A t \in TasksOf(e) : t = drafts[e].task
                 /\ \A q \in Requests : q # r /\ Confirms(q, e) =>
                       /\ TasksOf(e) = {} /\ req'[q] = req[q]
                       /\ req'[q].at = "confirm_draft" => drafts[e].status # "confirmed"
                       /\ req'[q].at = "confirm_task" => drafts[e].task = req'[q].task
                 /\ drafts[e].status = "confirmed" /\ crashes = 0 =>
                       drafts[e].task \in TasksOf(e) \/ \E q \in Requests \ {r} : Confirms(q, e)
        BY <1>4, <2>4, <2>5 DEF IInv, OnceInv
    <2>6. ASSUME Alone(<<"draft", d>>)
          PROVE  /\ drafts[d].task = k /\ TasksOf(d) = {}
                 /\ \A q \in Requests : Confirms(q, d) => q = r
      <3>1. drafts[d].task = k /\ TasksOf(d) = {}
          BY <1>1, <1>2, <2>4, <2>6 DEF IInv, OnceInv
      <3>2. ASSUME NEW q \in Requests, Confirms(q, d) PROVE q = r
        <4>1. req[q].what = <<"draft", d>> /\ req[q].at # "idle"
            BY <3>2, ThreadFacts DEF IInv, Confirms, ConfirmPoints
        <4> QED  BY <1>1, <1>2, <2>6, <4>1 DEF IInv, AloneInv
      <3> QED  BY <3>1, <3>2
    <2>7. \A e \in DraftIds : Alone(<<"draft", e>>)' =>
             \A t \in TasksOf(e)' : t = drafts'[e].task
        BY <1>2, <2>1, <2>2, <2>5, <2>6
    <2>8. \A e \in DraftIds : Alone(<<"draft", e>>)' =>
             \A q \in Requests : Confirms(q, e)' =>
                /\ TasksOf(e)' = {}
                /\ req'[q].at = "confirm_draft" => drafts'[e].status # "confirmed"
                /\ req'[q].at = "confirm_task" => drafts'[e].task = req'[q].task
        BY <1>2, <2>1, <2>2, <2>3, <2>5, <2>6
    <2>9. \A e \in DraftIds : Alone(<<"draft", e>>)' /\ drafts'[e].status = "confirmed" /\ crashes' = 0 =>
             drafts'[e].task \in TasksOf(e)' \/ \E q \in Requests : Confirms(q, e)'
        BY <1>2, <2>1, <2>2, <2>3, <2>5, <2>6
    <2> QED  BY <2>7, <2>8, <2>9 DEF OnceInv
  <1>11. PlanInv'
    <2>1. \A q \in Requests :
             req[q].at \in BuildPoints \/ req'[q].at \in BuildPoints => req'[q] = req[q]
        BY <1>2, <1>4 DEF BuildPoints
    <2>2. \A t \in TaskIds : tasks[t] # None => tasks'[t] = tasks[t]
        BY <1>3, <1>7
    <2> QED  BY <1>2, <2>1, <2>2, PlansStay DEF IInv
  <1> QED  BY <1>5, <1>6, <1>9, <1>10, <1>11 DEF IInv

-----------------------------------------------------------------------------
(* A build. *)

(* The thread that works on a task alone is the only one that does. *)
LEMMA OnePlanner ==
    ASSUME Types, AloneInv, NEW t \in TaskIds, NEW r \in Requests,
           Plans(r, t), Alone(<<"task", t>>)
    PROVE  \A q \in Requests : Plans(q, t) => q = r
  <1>1. \A q \in Requests : Plans(q, t) => req[q].what = <<"task", t>> /\ req[q].at # "idle"
    BY ThreadFacts DEF Plans, BuildPoints
  <1> QED  BY <1>1 DEF AloneInv

(* What a build does to its own task is all that it does. *)
LEMMA OthersStay ==
    ASSUME PlanInv, NEW t \in TaskIds, NEW r \in Requests,
           \A q \in Requests \ {r} : req'[q] = req[q],
           \A u \in TaskIds \ {t} : ~Plans(r, u) /\ ~Plans(r, u)',
           \A u \in TaskIds \ {t} :
              plans'[u] = plans[u] /\ research'[u] = research[u] /\ boards'[u] = boards[u],
           UNCHANGED <<tasks, crashes>>, overlap \subseteq overlap',
           tasks[t] # None, Alone(<<"task", t>>)' => Planned(t)'
    PROVE  PlanInv'
  <1>1. \A q \in Requests \ {r}, u \in TaskIds : Plans(q, u)' <=> Plans(q, u)
    BY DEF Plans
  <1>2. ASSUME NEW u \in TaskIds, u # t, Alone(<<"task", u>>)'
        PROVE  Planned(u)'
    <2>1. Planned(u)  BY <1>2 DEF PlanInv, Alone
    <2> QED  BY <1>1, <1>2, <2>1 DEF Planned
  <1>3. \A u \in TaskIds \ {t} :
           plans'[u] # None \/ (\E q \in Requests : Plans(q, u)') => tasks'[u] # None
    BY <1>1 DEF PlanInv
  <1> QED  BY <1>2, <1>3 DEF PlanInv

(* What all steps of a build after the first have in common. *)
LEMMA BuildGoesOn ==
    ASSUME IInv, NEW r \in Requests, NEW t \in TaskIds,
           req[r].at \in BuildPoints, req[r].task = t,
           DOMAIN req' = Requests, \A q \in Requests \ {r} : req'[q] = req[q],
           \/ req'[r] = Idle
           \/ req'[r].at \in BuildPoints /\ req'[r] \in Building
                 /\ req'[r].what = req[r].what /\ req'[r].task = t,
           plans' \in [TaskIds -> {None} \cup [status : {"ready_for_analysis", "needs_collection"},
                                               tasks : SUBSET Work]],
           research' \in [TaskIds -> SUBSET Work],
           boards' \in [TaskIds -> SUBSET [of : Work, status : {"completed", "ready"}]],
           \A u \in TaskIds \ {t} :
              plans'[u] = plans[u] /\ research'[u] = research[u] /\ boards'[u] = boards[u],
           UNCHANGED <<drafts, tasks, overlap, nextTask, requests, crashes>>,
           Planned(t) /\ (\A q \in Requests : Plans(q, t) => q = r) => Planned(t)'
    PROVE  IInv'
  <1>1. Types'
    <2>1. req[r].what[2] = t  BY ThreadFacts DEF IInv
    <2> QED  BY <2>1 DEF IInv, Types
  <1>2. AloneInv'  BY AloneGoesOn DEF IInv, Idle, BuildPoints
  <1>3. DraftInv' /\ OnceInv'
    <2>1. \A q \in Requests :
             req[q].at \in ConfirmPoints \/ req'[q].at \in ConfirmPoints => req'[q] = req[q]
        BY DEF ConfirmPoints, BuildPoints, Idle
    <2> QED  BY <2>1, DraftsStay DEF IInv
  <1>4. Plans(r, t) /\ \A u \in TaskIds \ {t} : ~Plans(r, u) /\ ~Plans(r, u)'
    BY DEF Plans, BuildPoints, Idle
  <1>5. tasks[t] # None  BY <1>4 DEF IInv, PlanInv
  <1>6. Alone(<<"task", t>>)' => Planned(t)'
    <2> SUFFICES ASSUME Alone(<<"task", t>>) PROVE Planned(t)'
        BY DEF Alone
    <2>1. Planned(t)  BY DEF IInv, PlanInv
    <2> QED  BY <1>4, <2>1, OnePlanner DEF IInv
  <1>7. PlanInv'  BY <1>4, <1>5, <1>6, OthersStay DEF IInv
  <1> QED  BY <1>1, <1>2, <1>3, <1>7 DEF IInv

LEMMA BuildReadsKeeps ==
    ASSUME IInv, NEW r \in Requests, BuildReads(r)
    PROVE  IInv'
  <1>1. PICK t \in TaskIds :
           /\ tasks[t] # None /\ plans[t] = None
           /\ req' = [req EXCEPT ![r] = [at |-> "save_plan", what |-> <<"task", t>>, task |-> t,
                                         content |-> ResearchTasks(tasks[t], requests')]]
           /\ Meets(r, <<"task", t>>)
    BY DEF BuildReads
  <1>2. PICK all : all = ResearchTasks(tasks[t], requests')  OBVIOUS
  <1> DEFINE what == <<"task", t>>
             x == [at |-> "save_plan", what |-> what, task |-> t, content |-> all]
  <1>3. /\ UNCHANGED <<drafts, tasks, plans, research, boards, nextTask, crashes>>
        /\ req[r].at = "idle" /\ requests' \in 1..MaxRequests /\ requests' \in 0..MaxRequests
    BY Bounds DEF BuildReads, Begin, IInv, Types
  <1>4. tasks[t] \in AnalysisTask  BY <1>1 DEF IInv, Types
  <1>5. all \in Builds(tasks[t]) /\ all \subseteq Work
    BY <1>2, <1>3, <1>4, BuildFacts DEF Builds
  <1>6. /\ x \in Building /\ x.at = "save_plan" /\ x.at \in BuildPoints /\ x.at # "idle"
        /\ x.what = what /\ what[2] = t /\ x.task = t /\ x.content = all
    BY <1>5 DEF Building, BuildPoints
  <1>7. req' = [req EXCEPT ![r] = x]  BY <1>1, <1>2
  <1>8. Meets(r, what)  BY <1>1
  <1> HIDE DEF x
  <1>9. DOMAIN req' = Requests /\ req'[r] = x /\ \A s \in Requests \ {r} : req'[s] = req[s]
    BY <1>7 DEF IInv, Types
  <1>10. /\ AloneInv' /\ overlap \subseteq overlap'
         /\ what \in overlap' \/ \A s \in Requests \ {r} : req[s].at = "idle" \/ req[s].what # what
    <2> HIDE DEF what
    <2> QED  BY <1>3, <1>6, <1>7, <1>8, AloneBegins DEF IInv
  <1>11. Types'
    <2>1. req'[r].at \in BuildPoints /\ req'[r] \in Building /\ req'[r].what[2] = req'[r].task
        BY <1>6, <1>9
    <2> QED  BY <1>3, <1>9, <2>1 DEF IInv, Types
  <1>12. DraftInv' /\ OnceInv'
    <2>1. \A q \in Requests :
             req[q].at \in ConfirmPoints \/ req'[q].at \in ConfirmPoints => req'[q] = req[q]
        BY <1>3, <1>6, <1>9 DEF ConfirmPoints
    <2> QED  BY <1>3, <1>10, <2>1, DraftsStay DEF IInv
  <1>13. \A u \in TaskIds \ {t} : ~Plans(r, u) /\ ~Plans(r, u)'
    BY <1>3, <1>6, <1>9 DEF Plans, BuildPoints
  <1>14. Alone(what)' => Planned(t)'
    <2> SUFFICES ASSUME Alone(what)' PROVE Planned(t)'  OBVIOUS
    <2>1. \A q \in Requests : Plans(q, t)' => q = r
        BY <1>9, <1>10, ThreadFacts DEF IInv, Plans, BuildPoints, Alone
    <2>2. Planned(t)  BY <1>10 DEF IInv, PlanInv, Alone
    <2>3. research[t] = {} /\ boards[t] = {}
        BY <1>1, <2>2 DEF Planned, BoardOf
    <2> QED  BY <1>1, <1>3, <1>5, <1>6, <1>9, <2>1, <2>3 DEF Planned
  <1>15. PlanInv'
    BY <1>1, <1>3, <1>9, <1>10, <1>13, <1>14, OthersStay DEF IInv
  <1> QED  BY <1>10, <1>11, <1>12, <1>15 DEF IInv

LEMMA BuildSavesPlanKeeps ==
    ASSUME IInv, NEW r \in Requests, BuildSavesPlan(r)
    PROVE  IInv'
  <1>1. PICK t \in TaskIds, all \in SUBSET Work : req[r].task = t /\ req[r].content = all
    BY ThreadFacts DEF BuildSavesPlan, IInv, BuildPoints
  <1>2. /\ req[r].at = "save_plan" /\ req[r] \in Building /\ req[r].at \in BuildPoints
        /\ plans' = [plans EXCEPT ![t] = PlanOf(all)]
        /\ req' = [req EXCEPT ![r].at = "save_tasks"]
        /\ UNCHANGED <<drafts, tasks, research, boards, overlap, nextTask, requests, crashes>>
    BY <1>1, ThreadFacts DEF BuildSavesPlan, IInv, BuildPoints
  <1>3. /\ DOMAIN req' = Requests /\ \A q \in Requests \ {r} : req'[q] = req[q]
        /\ req'[r] \in Building /\ req'[r].at = "save_tasks" /\ req'[r].at \in BuildPoints
        /\ req'[r].what = req[r].what /\ req'[r].task = t /\ req'[r].content = all
    BY <1>1, <1>2 DEF IInv, Types, Building, BuildPoints
  <1>4. /\ PlanOf(all) \in [status : {"ready_for_analysis", "needs_collection"}, tasks : SUBSET Work]
        /\ PlanOf(all).tasks = all
        /\ PlanOf(all) # None
    BY DEF PlanOf, None
  <1>5. /\ plans' \in [TaskIds -> {None} \cup [status : {"ready_for_analysis", "needs_collection"},
                                               tasks : SUBSET Work]]
        /\ plans'[t] # None /\ plans'[t].tasks = all
        /\ \A u \in TaskIds \ {t} : plans'[u] = plans[u]
    BY <1>2, <1>4 DEF IInv, Types
  <1>6. ASSUME Planned(t), \A q \in Requests : Plans(q, t) => q = r
        PROVE  Planned(t)'
    <2>1. Plans(r, t) /\ \A q \in Requests : Plans(q, t)' => q = r
        BY <1>1, <1>2, <1>3, <1>6 DEF Plans
    <2>2. all \in Builds(tasks[t]) /\ boards[t] = {} /\ research[t] = {} /\ Plans(r, t)'
        BY <1>1, <1>2, <1>3, <1>6, <2>1 DEF Planned, Plans
    <2> QED  BY <1>2, <1>3, <1>5, <2>1, <2>2 DEF Planned
  <1> QED  BY <1>1, <1>2, <1>3, <1>5, <1>6, BuildGoesOn DEF IInv, Types

LEMMA BuildSavesTasksKeeps ==
    ASSUME IInv, NEW r \in Requests, BuildSavesTasks(r)
    PROVE  IInv'
  <1>1. PICK t \in TaskIds, all \in SUBSET Work : req[r].task = t /\ req[r].content = all
    BY ThreadFacts DEF BuildSavesTasks, IInv, BuildPoints
  <1>2. /\ req[r].at = "save_tasks" /\ req[r] \in Building /\ req[r].at \in BuildPoints
        /\ research' = [research EXCEPT ![t] = all]
        /\ req' = [req EXCEPT ![r].at = "load_tasks"]
        /\ UNCHANGED <<drafts, tasks, plans, boards, overlap, nextTask, requests, crashes>>
    BY <1>1, ThreadFacts DEF BuildSavesTasks, IInv, BuildPoints
  <1>3. /\ DOMAIN req' = Requests /\ \A q \in Requests \ {r} : req'[q] = req[q]
        /\ req'[r] \in Building /\ req'[r].at = "load_tasks" /\ req'[r].at \in BuildPoints
        /\ req'[r].what = req[r].what /\ req'[r].task = t
    BY <1>1, <1>2 DEF IInv, Types, Building, BuildPoints
  <1>4. /\ research' \in [TaskIds -> SUBSET Work] /\ research'[t] = all
        /\ \A u \in TaskIds \ {t} : research'[u] = research[u]
    BY <1>2 DEF IInv, Types
  <1>5. ASSUME Planned(t), \A q \in Requests : Plans(q, t) => q = r
        PROVE  Planned(t)'
    <2>1. Plans(r, t) /\ (\A q \in Requests : Plans(q, t)' => q = r) /\ Plans(r, t)'
        BY <1>1, <1>2, <1>3, <1>5 DEF Plans
    <2>2. boards[t] = {} /\ plans[t] # None /\ plans[t].tasks = all
        BY <1>1, <1>2, <1>5, <2>1 DEF Planned
    <2> QED  BY <1>2, <1>3, <1>4, <1>5, <2>1, <2>2 DEF Planned
  <1> QED  BY <1>1, <1>2, <1>3, <1>4, <1>5, BuildGoesOn DEF IInv, Types

LEMMA BuildLoadsTasksKeeps ==
    ASSUME IInv, NEW r \in Requests, BuildLoadsTasks(r)
    PROVE  IInv'
  <1>1. PICK t \in TaskIds : req[r].task = t
    BY ThreadFacts DEF BuildLoadsTasks, IInv, BuildPoints
  <1>2. /\ req[r].at = "load_tasks" /\ req[r] \in Building /\ req[r].at \in BuildPoints
        /\ req' = [req EXCEPT ![r].at = "save_board", ![r].content = research[t]]
        /\ UNCHANGED <<drafts, tasks, plans, research, boards, overlap, nextTask, requests, crashes>>
    BY <1>1, ThreadFacts DEF BuildLoadsTasks, IInv, BuildPoints
  <1>3. /\ DOMAIN req' = Requests /\ \A q \in Requests \ {r} : req'[q] = req[q]
        /\ req'[r] \in Building /\ req'[r].at = "save_board" /\ req'[r].at \in BuildPoints
        /\ req'[r].what = req[r].what /\ req'[r].task = t /\ req'[r].content = research[t]
    <2>1. research[t] \in SUBSET Work  BY DEF IInv, Types
    <2> QED  BY <1>1, <1>2, <2>1 DEF IInv, Types, Building, BuildPoints
  <1>4. ASSUME Planned(t), \A q \in Requests : Plans(q, t) => q = r
        PROVE  Planned(t)'
    <2>1. Plans(r, t) /\ (\A q \in Requests : Plans(q, t)' => q = r) /\ Plans(r, t)'
        BY <1>1, <1>2, <1>3, <1>4 DEF Plans
    <2>2. boards[t] = {} /\ plans[t] # None /\ research[t] = plans[t].tasks
        BY <1>1, <1>2, <1>4, <2>1 DEF Planned
    <2> QED  BY <1>2, <1>3, <1>4, <2>1, <2>2 DEF Planned
  <1> QED  BY <1>1, <1>2, <1>3, <1>4, BuildGoesOn DEF IInv, Types

LEMMA BuildSavesBoardKeeps ==
    ASSUME IInv, NEW r \in Requests, BuildSavesBoard(r)
    PROVE  IInv'
  <1>1. PICK t \in TaskIds, all \in SUBSET Work : req[r].task = t /\ req[r].content = all
    BY ThreadFacts DEF BuildSavesBoard, IInv, BuildPoints
  <1>2. /\ req[r].at = "save_board" /\ req[r].at \in BuildPoints
        /\ boards' = [boards EXCEPT ![t] = BoardOf(all)]
        /\ req' = [req EXCEPT ![r] = Idle]
        /\ UNCHANGED <<drafts, tasks, plans, research, overlap, nextTask, requests, crashes>>
    BY <1>1, ThreadFacts DEF BuildSavesBoard, IInv, BuildPoints
  <1>3. /\ DOMAIN req' = Requests /\ \A q \in Requests \ {r} : req'[q] = req[q]
        /\ req'[r] = Idle
    BY <1>2 DEF IInv, Types
  <1>4. BoardOf(all) \subseteq [of : Work, status : {"completed", "ready"}]
    BY DEF BoardOf
  <1>5. /\ boards' \in [TaskIds -> SUBSET [of : Work, status : {"completed", "ready"}]]
        /\ boards'[t] = BoardOf(all)
        /\ \A u \in TaskIds \ {t} : boards'[u] = boards[u]
    BY <1>2, <1>4 DEF IInv, Types
  <1>6. ASSUME Planned(t), \A q \in Requests : Plans(q, t) => q = r
        PROVE  Planned(t)'
    <2>1. Plans(r, t) /\ \A q \in Requests : ~Plans(q, t)'
        BY <1>1, <1>2, <1>3, <1>6 DEF Plans, Idle, BuildPoints
    <2>2. plans[t] # None /\ research[t] = plans[t].tasks /\ all = plans[t].tasks
        BY <1>1, <1>2, <1>6, <2>1 DEF Planned
    <2> QED  BY <1>2, <1>5, <1>6, <2>1, <2>2 DEF Planned
  <1> QED  BY <1>1, <1>2, <1>3, <1>5, <1>6, BuildGoesOn DEF IInv, Types

-----------------------------------------------------------------------------
(* After a crash nobody is at work. *)
LEMMA CrashKeeps ==
    ASSUME IInv, Crash
    PROVE  IInv'
  <1>1. /\ \A r \in Requests : req'[r] = Idle /\ req'[r].at = "idle"
        /\ DOMAIN req' = Requests
        /\ crashes' \in Nat /\ crashes' # 0
        /\ UNCHANGED <<drafts, tasks, plans, research, boards, overlap, nextTask, requests>>
    BY DEF Crash, Idle, IInv, Types
  <1>2. Types'  BY <1>1 DEF IInv, Types
  <1>3. AloneInv'  BY <1>1 DEF AloneInv
  <1>4. DraftInv'  BY <1>1 DEF IInv, DraftInv, ConfirmPoints
  <1>5. OnceInv'
    <2>1. \A d \in DraftIds : TasksOf(d)' = TasksOf(d)  BY <1>1 DEF TasksOf
    <2>2. \A d \in DraftIds : Alone(<<"draft", d>>)' <=> Alone(<<"draft", d>>)
        BY <1>1 DEF Alone
    <2>3. \A r \in Requests, d \in DraftIds : ~Confirms(r, d)'
        BY <1>1 DEF Confirms, ConfirmPoints
    <2> QED  BY <1>1, <2>1, <2>2, <2>3 DEF IInv, OnceInv
  <1>6. PlanInv'
    <2>1. \A t \in TaskIds : Alone(<<"task", t>>)' <=> Alone(<<"task", t>>)
        BY <1>1 DEF Alone
    <2>2. \A r \in Requests, t \in TaskIds : ~Plans(r, t)'
        BY <1>1 DEF Plans, BuildPoints
    <2> QED  BY <1>1, <2>1, <2>2 DEF IInv, PlanInv, Planned
  <1> QED  BY <1>2, <1>3, <1>4, <1>5, <1>6 DEF IInv

LEMMA IInvNext == IInv /\ [Next]_vars => IInv'
  <1> SUFFICES ASSUME IInv, [Next]_vars PROVE IInv'  OBVIOUS
  <1>1. CASE UNCHANGED vars
    BY <1>1 DEF vars, IInv, Types, AloneInv, DraftInv, OnceInv, PlanInv, Planned,
                Alone, TasksOf, Confirms, Plans
  <1>2. ASSUME NEW r \in Requests, ParseRequest(r) PROVE IInv'
    BY <1>2, ParseKeeps
  <1>3. ASSUME NEW r \in Requests, Confirm(r) PROVE IInv'
    BY <1>3, ConfirmReadsKeeps, ConfirmSavesDraftKeeps, ConfirmSavesTaskKeeps DEF Confirm
  <1>4. ASSUME NEW r \in Requests, Build(r) PROVE IInv'
    BY <1>4, BuildReadsKeeps, BuildSavesPlanKeeps, BuildSavesTasksKeeps,
       BuildLoadsTasksKeeps, BuildSavesBoardKeeps DEF Build
  <1>5. CASE Crash  BY <1>5, CrashKeeps
  <1> QED  BY <1>1, <1>2, <1>3, <1>4, <1>5 DEF Next

LEMMA IInvAlways == Spec => []IInv
  BY IInvInit, IInvNext, PTL DEF Spec

-----------------------------------------------------------------------------
(* A confirmed draft gives one analysis task, which names its product      *)
(* first and none twice; only two confirmations at once can make two, and  *)
(* only a crash none (confirm_draft).                                      *)
THEOREM DraftsAreConfirmedOnce == Spec => []ConfirmedOnce
  BY IInvAlways, InvOnce, PTL

(* Plan, research tasks and board of a task agree after every save of a    *)
(* build, and a task is declared compatible with the dataset exactly when  *)
(* nothing speaks against it (ResearchPlanningService.build, _assess).     *)
THEOREM PlansStayWhole == Spec => []PlanIsWhole
  BY IInvAlways, InvWhole, PTL
-----------------------------------------------------------------------------
(* The artifact store. *)

LogItem == Threads \X Nat
Recorded == [by : Threads, number : Nat, tool : Registered, status : {"completed", "failed"}]

Activity ==
    [at : {"idle", "wait", "locked", "written", "replaced"}, file : {AS!None, "log", "calls"},
     items : Seq(LogItem), payload : Seq(LogItem) \cup Seq(Recorded), denied : Nat,
     list : Seq(Recorded)]

StoreTypes ==
    /\ files \in [log : Seq(LogItem), calls : Seq(Recorded)]
    /\ lock \in Threads \cup {AS!None}
    /\ thread \in [Threads -> Activity]
    /\ operations \in Nat /\ kills \in Nat

(* One thread at most is between taking the lock and giving it back. *)
LockInv ==
    \A t \in Threads : lock = t <=> thread[t].at \in {"locked", "written", "replaced"}

(* What the append of a thread carries, and where it is. *)
Carries(t) ==
    IF AS!Doing(t, "log")
    THEN \E n \in Nat : n < operations /\ thread[t].items = <<<<t, n>>>>
    ELSE thread[t].items = <<>>

AppendOf(t) ==
    /\ Carries(t)
    /\ thread[t].at # "idle" => thread[t].file \in {"log", "calls"}
    /\ AS!Doing(t, "log") /\ thread[t].at # "replaced" =>
          AS!ToSet(thread[t].items) \cap AS!ToSet(files.log) = {}
    /\ AS!Doing(t, "log") /\ thread[t].at = "replaced" =>
          AS!ToSet(thread[t].items) \subseteq AS!ToSet(files.log)
    /\ AS!Doing(t, "log") /\ thread[t].at = "written" =>
          thread[t].payload = files.log \o thread[t].items

AppendInv == \A t \in Threads : AppendOf(t)

LogInv ==
    /\ returned \subseteq AS!ToSet(files.log)
    /\ \A item \in AS!ToSet(files.log) : item[2] < operations
    /\ \A item \in AS!ToSet(files.log) \ returned :
          kills > 0 \/ \E t \in Threads : AS!Doing(t, "log") /\ item \in AS!ToSet(thread[t].items)
    /\ IsFiniteSet(AS!ToSet(files.log)) /\ Cardinality(AS!ToSet(files.log)) = Len(files.log)

(* The calls of a list are in the order in which they were made. *)
CallsInOrder(list) ==
    /\ \A i \in DOMAIN list : list[i].number < operations
    /\ \A i, j \in DOMAIN list : i < j => list[i].number < list[j].number

CallsInv ==
    /\ CallsInOrder(files.calls)
    /\ \A t \in Threads :
          /\ CallsInOrder(thread[t].list)
          /\ AS!Doing(t, "calls") /\ thread[t].at = "written" => thread[t].payload = thread[t].list

StoreInv == StoreTypes /\ LockInv /\ AppendInv /\ LogInv /\ CallsInv

-----------------------------------------------------------------------------
(* Facts about sequences. *)

LEMMA ToSetOfNothing == AS!ToSet(<<>>) = {}
  BY DEF AS!ToSet

LEMMA ToSetOfOne == ASSUME NEW x PROVE AS!ToSet(<<x>>) = {x}
  <1>1. DOMAIN <<x>> = {1} /\ <<x>>[1] = x
    OBVIOUS
  <1> QED
    BY <1>1 DEF AS!ToSet

LEMMA AppendOne ==
    ASSUME NEW S, NEW s \in Seq(S), NEW x \in S
    PROVE  /\ s \o <<x>> \in Seq(S) /\ Len(s \o <<x>>) = Len(s) + 1
           /\ AS!ToSet(s \o <<x>>) = AS!ToSet(s) \cup {x}
           /\ AS!ToSet(s) \subseteq S
  <1> DEFINE z == s \o <<x>>
  <1>1. /\ z \in Seq(S) /\ Len(z) = Len(s) + 1
        /\ DOMAIN z = 1 .. Len(s) + 1 /\ DOMAIN s = 1 .. Len(s) /\ Len(s) \in Nat
        /\ \A i \in 1 .. Len(s) : z[i] = s[i]
        /\ z[Len(s) + 1] = x
    OBVIOUS
  <1>2. AS!ToSet(z) = AS!ToSet(s) \cup {x}
    <2> HIDE DEF z
    <2>1. \A i \in DOMAIN z : z[i] \in AS!ToSet(s) \cup {x}
      BY <1>1 DEF AS!ToSet
    <2>2. \A i \in DOMAIN s : i \in DOMAIN z /\ s[i] = z[i]
      BY <1>1
    <2>3. Len(s) + 1 \in DOMAIN z
      BY <1>1
    <2> QED
      BY <1>1, <2>1, <2>2, <2>3 DEF AS!ToSet
  <1>3. AS!ToSet(s) \subseteq S
    BY DEF AS!ToSet
  <1> QED
    BY <1>1, <1>2, <1>3

(* An order is kept when one call with the next number is added. *)
LEMMA OrderGrows ==
    ASSUME NEW s \in Seq(Recorded), NEW c \in Recorded, operations \in Nat,
           CallsInOrder(s), c.number = operations, operations' = operations + 1
    PROVE  /\ Append(s, c) \in Seq(Recorded)
           /\ CallsInOrder(Append(s, c))' /\ CallsInOrder(s)'
  <1> DEFINE z == Append(s, c)
  <1>1. /\ z \in Seq(Recorded) /\ Len(s) \in Nat
        /\ DOMAIN z = 1 .. Len(s) + 1 /\ DOMAIN s = 1 .. Len(s)
        /\ \A i \in 1 .. Len(s) : z[i] = s[i] /\ s[i] \in Recorded
        /\ z[Len(s) + 1] = c
    OBVIOUS
  <1>0. \A x \in Recorded : x.number \in Nat
    BY DEF Recorded
  <1>2. CallsInOrder(s)'
    BY <1>0, <1>1 DEF CallsInOrder
  <1> HIDE DEF z
  <1>3. ASSUME NEW i \in DOMAIN z PROVE z[i].number < operations + 1
    BY <1>0, <1>1, <1>3 DEF CallsInOrder
  <1>4. ASSUME NEW i \in DOMAIN z, NEW j \in DOMAIN z, i < j PROVE z[i].number < z[j].number
    <2>1. i \in DOMAIN s
      BY ONLY <1>1, <1>4
    <2>2. CASE j \in DOMAIN s
      BY <1>1, <1>4, <2>1, <2>2 DEF CallsInOrder
    <2>3. CASE j = Len(s) + 1
      BY <1>1, <2>1, <2>3 DEF CallsInOrder
    <2> QED
      BY <1>1, <2>2, <2>3
  <1>5. CallsInOrder(z)'
    BY <1>3, <1>4 DEF CallsInOrder
  <1> QED
    BY <1>1, <1>2, <1>5 DEF z

-----------------------------------------------------------------------------
LEMMA StoreInvInit == AS!Init => StoreInv
  <1> SUFFICES ASSUME AS!Init PROVE StoreInv
    OBVIOUS
  <1>1. \A t \in Threads : thread[t] = AS!Idle
    BY DEF AS!Init
  <1>2. StoreTypes
    BY DEF AS!Init, StoreTypes, Activity, AS!Idle, LogItem, Recorded, AS!None
  <1>3. LockInv
    BY <1>1, ServicesAssumption DEF AS!Init, LockInv, AS!Idle, AS!StoreAssumption
  <1>4. AppendInv
    <2>1. \A t \in Threads : thread[t].at = "idle" /\ thread[t].items = <<>>
      BY <1>1 DEF AS!Idle
    <2> QED
      BY <2>1 DEF AppendInv, AppendOf, AS!Doing, Carries
  <1>5. LogInv
    BY ToSetOfNothing, FS_EmptySet DEF AS!Init, LogInv
  <1>6. CallsInv
    BY <1>1 DEF AS!Init, CallsInv, CallsInOrder, AS!Idle, AS!Doing
  <1> QED
    BY <1>2, <1>3, <1>4, <1>5, <1>6 DEF StoreInv

-----------------------------------------------------------------------------
(* The steps of a thread.  The first step of each proof says what the      *)
(* thread is afterwards; the other threads are what they were.             *)

LEMMA OneThread ==
    ASSUME StoreTypes, NEW t \in Threads, NEW r \in Activity, thread' = [thread EXCEPT ![t] = r]
    PROVE  /\ thread' \in [Threads -> Activity]
           /\ thread'[t] = r
           /\ \A u \in Threads \ {t} :
                 /\ thread'[u] = thread[u]
                 /\ \A file \in {"log", "calls"} : AS!Doing(u, file)' <=> AS!Doing(u, file)
  BY DEF StoreTypes, AS!Doing

(* A list keeps its order when the count of the operations grows. *)
LEMMA OrderStays ==
    ASSUME NEW s \in Seq(Recorded), operations \in Nat, CallsInOrder(s),
           operations' \in {operations, operations + 1}
    PROVE  CallsInOrder(s)'
  <1>1. \A i \in DOMAIN s : s[i] \in Recorded
    OBVIOUS
  <1> QED
    BY <1>1 DEF CallsInOrder, Recorded

(* So does the count of an append in hand stay ahead of its number. *)
LEMMA CarriesStays ==
    ASSUME StoreTypes, NEW u \in Threads, Carries(u), thread'[u].items = thread[u].items,
           AS!Doing(u, "log")' <=> AS!Doing(u, "log"), operations' \in {operations, operations + 1}
    PROVE  Carries(u)'
  <1>2. CASE AS!Doing(u, "log")
    <2>1. PICK n \in Nat : n < operations /\ thread[u].items = << <<u, n>> >>
      BY <1>2 DEF Carries
    <2>2. n < operations'
      BY <2>1 DEF StoreTypes
    <2> QED
      BY <1>2, <2>1, <2>2 DEF Carries
  <1>3. CASE ~ AS!Doing(u, "log")
    BY <1>3 DEF Carries
  <1> QED
    BY <1>2, <1>3

LEMMA BeginAppendKeeps ==
    ASSUME StoreInv, NEW t \in Threads, AS!BeginAppend(t)
    PROVE  StoreInv'
  <1> DEFINE new == <<t, operations>>
             r == [thread[t] EXCEPT !.at = "wait", !.file = "log", !.items = <<new>>]
  <1>1. /\ thread[t].at = "idle" /\ operations' = operations + 1 /\ operations \in Nat
        /\ UNCHANGED <<files, lock, returned, kills>>
        /\ thread' = [thread EXCEPT ![t] = r]
        /\ thread[t] \in Activity
    BY DEF AS!BeginAppend, AS!Begins, StoreInv, StoreTypes
  <1>2. new \in LogItem /\ <<new>> \in Seq(LogItem) /\ AS!ToSet(<<new>>) = {new}
    BY <1>1, ToSetOfOne DEF LogItem
  <1> HIDE DEF new
  <1>3. /\ r \in Activity /\ r.at = "wait" /\ r.file = "log" /\ r.items = <<new>>
        /\ r.list = thread[t].list
    BY <1>1, <1>2 DEF Activity
  <1> HIDE DEF r
  <1>a. /\ thread' \in [Threads -> Activity] /\ thread'[t] = r
        /\ \A u \in Threads \ {t} :
              /\ thread'[u] = thread[u]
              /\ \A file \in {"log", "calls"} : AS!Doing(u, file)' <=> AS!Doing(u, file)
    BY <1>1, <1>3, OneThread DEF StoreInv
  <1>4. StoreTypes'
    BY <1>1, <1>a DEF StoreInv, StoreTypes
  <1>5. LockInv'
    BY <1>1, <1>3, <1>a DEF StoreInv, LockInv
  <1>6. new \notin AS!ToSet(files.log)
    BY <1>1 DEF StoreInv, LogInv, new
  <1>7. AppendInv'
    <2>1. \A u \in Threads \ {t} : Carries(u)'
      BY <1>1, <1>a, CarriesStays DEF StoreInv, AppendInv, AppendOf
    <2>2. Carries(t)' /\ AS!Doing(t, "log")'
      BY <1>1, <1>3, <1>a DEF Carries, AS!Doing, new
    <2>3. \A u \in Threads \ {t} : AppendOf(u)'
      BY <1>1, <1>a, <2>1 DEF StoreInv, AppendInv, AppendOf
    <2>4. AppendOf(t)'
      BY <1>1, <1>2, <1>3, <1>6, <1>a, <2>2 DEF AppendOf
    <2> QED
      BY <2>3, <2>4 DEF AppendInv
  <1>8. LogInv'
    <2>1. \A u \in Threads : AS!Doing(u, "log") => u # t
      BY <1>1 DEF AS!Doing
    <2>3. \A item \in AS!ToSet(files.log) : item[2] < operations'
      <3>1. AS!ToSet(files.log) \subseteq LogItem
        BY <1>2, AppendOne DEF StoreInv, StoreTypes
      <3> QED
        BY <1>1, <3>1 DEF StoreInv, LogInv, LogItem
    <2> QED
      BY <1>1, <1>a, <2>1, <2>3 DEF StoreInv, LogInv
  <1>9. CallsInv'
    <2>1. \A u \in Threads : thread'[u].list = thread[u].list /\ thread[u].list \in Seq(Recorded)
      BY <1>1, <1>3, <1>a DEF StoreInv, StoreTypes, Activity
    <2>2. files.calls \in Seq(Recorded)
      BY DEF StoreInv, StoreTypes
    <2>3. CallsInOrder(files.calls)' /\ \A u \in Threads : CallsInOrder(thread[u].list)'
      BY <1>1, <2>1, <2>2, OrderStays DEF StoreInv, CallsInv
    <2>4. ~ AS!Doing(t, "calls")'
      BY <1>3, <1>a DEF AS!Doing
    <2> QED
      BY <1>1, <1>a, <2>1, <2>3, <2>4 DEF StoreInv, CallsInv
  <1> QED
    BY <1>4, <1>5, <1>7, <1>8, <1>9 DEF StoreInv

LEMMA NewRecorderKeeps ==
    ASSUME StoreInv, NEW t \in Threads, AS!NewRecorder(t)
    PROVE  StoreInv'
  <1> DEFINE r == [thread[t] EXCEPT !.list = files.calls]
  <1>1. /\ thread[t].at = "idle" /\ thread[t] \in Activity /\ files.calls \in Seq(Recorded)
        /\ UNCHANGED <<files, lock, returned, operations, kills>>
        /\ thread' = [thread EXCEPT ![t] = r]
    BY DEF AS!NewRecorder, StoreInv, StoreTypes
  <1>2. /\ r \in Activity /\ r.at = "idle" /\ r.list = files.calls /\ r.items = thread[t].items
    BY <1>1 DEF Activity
  <1> HIDE DEF r
  <1>3. /\ thread' \in [Threads -> Activity] /\ thread'[t] = r
        /\ \A u \in Threads \ {t} :
              /\ thread'[u] = thread[u]
              /\ \A file \in {"log", "calls"} : AS!Doing(u, file)' <=> AS!Doing(u, file)
    BY <1>1, <1>2, OneThread DEF StoreInv
  <1>4. \A file \in {"log", "calls"} : ~ AS!Doing(t, file) /\ ~ AS!Doing(t, file)'
    BY <1>1, <1>2, <1>3 DEF AS!Doing
  <1>5. StoreTypes'
    BY <1>1, <1>3 DEF StoreInv, StoreTypes
  <1>6. LockInv'
    BY <1>1, <1>2, <1>3 DEF StoreInv, LockInv
  <1>7. AppendInv'
    <2>1. \A u \in Threads \ {t} : Carries(u)'
      BY <1>1, <1>3, CarriesStays DEF StoreInv, AppendInv, AppendOf
    <2>2. Carries(t)'
      BY <1>2, <1>3, <1>4 DEF Carries, StoreInv, AppendInv, AppendOf
    <2> QED
      BY <1>1, <1>2, <1>3, <1>4, <2>1, <2>2 DEF StoreInv, AppendInv, AppendOf
  <1>8. LogInv'
    BY <1>1, <1>3, <1>4 DEF StoreInv, LogInv
  <1>9. CallsInv'
    <2>1. \A u \in Threads : thread[u].list \in Seq(Recorded)
      BY DEF StoreInv, StoreTypes, Activity
    <2>2. CallsInOrder(files.calls)' /\ \A u \in Threads : CallsInOrder(thread[u].list)'
      BY <1>1, <1>2, <1>3 DEF StoreInv, CallsInv, CallsInOrder
    <2> QED
      BY <1>1, <1>3, <1>4, <2>2 DEF StoreInv, CallsInv
  <1> QED
    BY <1>5, <1>6, <1>7, <1>8, <1>9 DEF StoreInv

LEMMA CallToolKeeps ==
    ASSUME StoreInv, NEW t \in Threads, AS!CallTool(t)
    PROVE  StoreInv'
  <1>1. /\ thread[t].at = "idle" /\ thread[t] \in Activity
        /\ operations \in Nat /\ operations' = operations + 1
        /\ UNCHANGED <<files, lock, returned, kills>>
    BY DEF AS!CallTool, AS!Begins, StoreInv, StoreTypes
  <1>2. PICK c \in Recorded :
           /\ c.number = operations
           /\ thread' = [thread EXCEPT ![t].at = "wait", ![t].file = "calls",
                                       ![t].list = Append(@, c)]
    BY <1>1 DEF AS!CallTool, Recorded
  <1>3. PICK list \in Seq(Recorded) : list = thread[t].list /\ CallsInOrder(list)
    BY <1>1 DEF Activity, StoreInv, CallsInv
  <1> DEFINE longer == Append(list, c)
             r == [thread[t] EXCEPT !.at = "wait", !.file = "calls", !.list = longer]
  <1>4. longer \in Seq(Recorded) /\ CallsInOrder(longer)'
    BY <1>1, <1>2, <1>3, OrderGrows
  <1> HIDE DEF longer
  <1>5. thread' = [thread EXCEPT ![t] = r]
    BY <1>1, <1>2, <1>3 DEF StoreInv, StoreTypes, longer
  <1>6. /\ r \in Activity /\ r.at = "wait" /\ r.file = "calls" /\ r.list = longer
        /\ r.items = thread[t].items
    BY <1>1, <1>4 DEF Activity
  <1> HIDE DEF r
  <1>7. /\ thread' \in [Threads -> Activity] /\ thread'[t] = r
        /\ \A u \in Threads \ {t} :
              /\ thread'[u] = thread[u]
              /\ \A file \in {"log", "calls"} : AS!Doing(u, file)' <=> AS!Doing(u, file)
    BY <1>5, <1>6, OneThread DEF StoreInv
  <1>8. ~ AS!Doing(t, "log") /\ ~ AS!Doing(t, "log")'
    BY <1>1, <1>6, <1>7 DEF AS!Doing
  <1>9. StoreTypes'
    BY <1>1, <1>7 DEF StoreInv, StoreTypes
  <1>10. LockInv'
    BY <1>1, <1>6, <1>7 DEF StoreInv, LockInv
  <1>11. AppendInv'
    <2>1. \A u \in Threads \ {t} : Carries(u)'
      BY <1>1, <1>7, CarriesStays DEF StoreInv, AppendInv, AppendOf
    <2>2. Carries(t)'
      BY <1>6, <1>7, <1>8 DEF Carries, StoreInv, AppendInv, AppendOf
    <2> QED
      BY <1>1, <1>6, <1>7, <1>8, <2>1, <2>2 DEF StoreInv, AppendInv, AppendOf
  <1>12. LogInv'
    <2>1. \A item \in AS!ToSet(files.log) : item[2] < operations'
      <3>1. AS!ToSet(files.log) \subseteq LogItem
        BY DEF StoreInv, StoreTypes, AS!ToSet
      <3> QED
        BY <1>1, <3>1 DEF StoreInv, LogInv, LogItem
    <2> QED
      BY <1>1, <1>7, <1>8, <2>1 DEF StoreInv, LogInv
  <1>13. CallsInv'
    <2>1. \A u \in Threads \ {t} :
             thread'[u].list = thread[u].list /\ thread[u].list \in Seq(Recorded)
      BY <1>7 DEF StoreInv, StoreTypes, Activity
    <2>2. files.calls \in Seq(Recorded)
      BY DEF StoreInv, StoreTypes
    <2>3. CallsInOrder(files.calls)' /\ \A u \in Threads \ {t} : CallsInOrder(thread[u].list)'
      BY <1>1, <2>1, <2>2, OrderStays DEF StoreInv, CallsInv
    <2>4. CallsInOrder(thread[t].list)'
      BY <1>4, <1>6, <1>7 DEF CallsInOrder
    <2> QED
      BY <1>1, <1>6, <1>7, <2>1, <2>3, <2>4 DEF StoreInv, CallsInv
  <1> QED
    BY <1>9, <1>10, <1>11, <1>12, <1>13 DEF StoreInv

LEMMA AcquireKeeps ==
    ASSUME StoreInv, NEW t \in Threads, AS!Acquire(t)
    PROVE  StoreInv'
  <1> DEFINE r == [thread[t] EXCEPT !.at = "locked"]
  <1>1. /\ thread[t].at = "wait" /\ thread[t] \in Activity
        /\ lock = AS!None /\ lock' = t
        /\ UNCHANGED <<files, returned, operations, kills>>
        /\ thread' = [thread EXCEPT ![t] = r]
    BY DEF AS!Acquire, StoreInv, StoreTypes
  <1>2. /\ r \in Activity /\ r.at = "locked" /\ r.list = thread[t].list
        /\ r.items = thread[t].items /\ r.file = thread[t].file
    BY <1>1 DEF Activity
  <1> HIDE DEF r
  <1>3. /\ thread' \in [Threads -> Activity] /\ thread'[t] = r
        /\ \A u \in Threads \ {t} :
              /\ thread'[u] = thread[u]
              /\ \A file \in {"log", "calls"} : AS!Doing(u, file)' <=> AS!Doing(u, file)
    BY <1>1, <1>2, OneThread DEF StoreInv
  <1>4. \A file \in {"log", "calls"} : AS!Doing(t, file)' <=> AS!Doing(t, file)
    BY <1>1, <1>2, <1>3 DEF AS!Doing
  <1>5. StoreTypes'
    BY <1>1, <1>3 DEF StoreInv, StoreTypes
  <1>6. LockInv'
    <2>1. \A u \in Threads : thread[u].at \notin {"locked", "written", "replaced"}
      BY <1>1, ServicesAssumption DEF StoreInv, LockInv, AS!StoreAssumption
    <2> QED
      BY <1>1, <1>2, <1>3, <2>1 DEF LockInv
  <1>7. AppendInv'
    <2>1. \A u \in Threads \ {t} : Carries(u)'
      BY <1>1, <1>3, CarriesStays DEF StoreInv, AppendInv, AppendOf
    <2>2. Carries(t)'
      BY <1>1, <1>2, <1>3, <1>4 DEF Carries, StoreInv, AppendInv, AppendOf
    <2> QED
      BY <1>1, <1>2, <1>3, <1>4, <2>1, <2>2 DEF StoreInv, AppendInv, AppendOf
  <1>8. LogInv'
    BY <1>1, <1>2, <1>3, <1>4 DEF StoreInv, LogInv
  <1>9. CallsInv'
    BY <1>1, <1>2, <1>3, <1>4 DEF StoreInv, CallsInv, CallsInOrder
  <1> QED
    BY <1>5, <1>6, <1>7, <1>8, <1>9 DEF StoreInv

LEMMA WriteTemporaryKeeps ==
    ASSUME StoreInv, NEW t \in Threads, AS!WriteTemporary(t)
    PROVE  StoreInv'
  <1> DEFINE p == AS!Payload(t)
             r == [thread[t] EXCEPT !.at = "written", !.payload = p]
  <1>1. /\ thread[t].at = "locked" /\ thread[t] \in Activity
        /\ thread[t].file \in {"log", "calls"}
        /\ UNCHANGED <<files, lock, returned, operations, kills>>
        /\ thread' = [thread EXCEPT ![t] = r]
    BY DEF AS!WriteTemporary, StoreInv, StoreTypes, AppendInv, AppendOf
  <1>2. /\ thread[t].items \in Seq(LogItem) /\ thread[t].list \in Seq(Recorded)
        /\ files.log \in Seq(LogItem) /\ files.calls \in Seq(Recorded)
    BY <1>1 DEF Activity, StoreInv, StoreTypes
  <1>3. p \in Seq(LogItem) \cup Seq(Recorded)
    BY <1>1, <1>2 DEF AS!Payload
  <1>4. /\ thread[t].file = "log" => p = files.log \o thread[t].items
        /\ thread[t].file = "calls" => p = thread[t].list
    BY DEF AS!Payload
  <1> HIDE DEF p
  <1>5. /\ r \in Activity /\ r.at = "written" /\ r.list = thread[t].list
        /\ r.items = thread[t].items /\ r.file = thread[t].file /\ r.payload = p
    BY <1>1, <1>3 DEF Activity
  <1> HIDE DEF r
  <1>6. /\ thread' \in [Threads -> Activity] /\ thread'[t] = r
        /\ \A u \in Threads \ {t} :
              /\ thread'[u] = thread[u]
              /\ \A file \in {"log", "calls"} : AS!Doing(u, file)' <=> AS!Doing(u, file)
    BY <1>1, <1>5, OneThread DEF StoreInv
  <1>7. \A file \in {"log", "calls"} :
           /\ AS!Doing(t, file)' <=> AS!Doing(t, file)
           /\ AS!Doing(t, file) <=> thread[t].file = file
    BY <1>1, <1>5, <1>6 DEF AS!Doing
  <1>8. StoreTypes'
    BY <1>1, <1>6 DEF StoreInv, StoreTypes
  <1>9. LockInv'
    BY <1>1, <1>5, <1>6 DEF StoreInv, LockInv
  <1>10. AppendInv'
    <2>1. \A u \in Threads \ {t} : Carries(u)'
      BY <1>1, <1>6, CarriesStays DEF StoreInv, AppendInv, AppendOf
    <2>2. Carries(t)'
      BY <1>1, <1>5, <1>6, <1>7 DEF Carries, StoreInv, AppendInv, AppendOf
    <2> QED
      BY <1>1, <1>4, <1>5, <1>6, <1>7, <2>1, <2>2 DEF StoreInv, AppendInv, AppendOf
  <1>11. LogInv'
    BY <1>1, <1>5, <1>6, <1>7 DEF StoreInv, LogInv
  <1>12. CallsInv'
    BY <1>1, <1>4, <1>5, <1>6, <1>7 DEF StoreInv, CallsInv, CallsInOrder
  <1> QED
    BY <1>8, <1>9, <1>10, <1>11, <1>12 DEF StoreInv

LEMMA ReplaceKeeps ==
    ASSUME StoreInv, NEW t \in Threads, AS!Replace(t)
    PROVE  StoreInv'
  <1> DEFINE r == [thread[t] EXCEPT !.at = "replaced"]
  <1>1. /\ thread[t].at = "written" /\ thread[t] \in Activity
        /\ thread[t].file \in {"log", "calls"}
        /\ UNCHANGED <<lock, returned, operations, kills>>
        /\ files' = [files EXCEPT ![thread[t].file] = thread[t].payload]
        /\ thread' = [thread EXCEPT ![t] = r]
    BY DEF AS!Replace, StoreInv, StoreTypes, AppendInv, AppendOf
  <1>2. /\ r \in Activity /\ r.at = "replaced" /\ r.list = thread[t].list
        /\ r.items = thread[t].items /\ r.file = thread[t].file
    BY <1>1 DEF Activity
  <1> HIDE DEF r
  <1>3. /\ thread' \in [Threads -> Activity] /\ thread'[t] = r
        /\ \A u \in Threads \ {t} :
              /\ thread'[u] = thread[u]
              /\ \A file \in {"log", "calls"} : AS!Doing(u, file)' <=> AS!Doing(u, file)
    BY <1>1, <1>2, OneThread DEF StoreInv
  <1>4. \A file \in {"log", "calls"} :
           /\ AS!Doing(t, file)' <=> AS!Doing(t, file)
           /\ AS!Doing(t, file) <=> thread[t].file = file
    BY <1>1, <1>2, <1>3 DEF AS!Doing
  <1>5. \A u \in Threads \ {t} : thread[u].at \notin {"locked", "written", "replaced"}
    BY <1>1 DEF StoreInv, LockInv
  <1>6. LockInv'
    BY <1>1, <1>2, <1>3 DEF StoreInv, LockInv
  <1>7. \A u \in Threads : Carries(u)'
    <2>1. \A u \in Threads \ {t} : Carries(u)'
      BY <1>1, <1>3, CarriesStays DEF StoreInv, AppendInv, AppendOf
    <2>2. Carries(t)'
      BY <1>1, <1>2, <1>3, <1>4 DEF Carries, StoreInv, AppendInv, AppendOf
    <2> QED
      BY <2>1, <2>2
  <1>8. CASE thread[t].file = "log"
    <2>1. PICK n \in Nat : n < operations /\ thread[t].items = << <<t, n>> >>
      BY <1>4, <1>8 DEF StoreInv, AppendInv, AppendOf, Carries
    <2> DEFINE x == <<t, n>>
    <2>2. /\ x \in LogItem /\ x[1] = t /\ x[2] = n /\ AS!ToSet(<<x>>) = {x}
          /\ thread[t].items = <<x>>
      BY <2>1, ToSetOfOne DEF LogItem
    <2> HIDE DEF x
    <2>3. files'.log = files.log \o <<x>> /\ files'.calls = files.calls
      BY <1>1, <1>4, <1>8, <2>2 DEF StoreInv, StoreTypes, AppendInv, AppendOf
    <2>4. /\ files'.log \in Seq(LogItem) /\ Len(files'.log) = Len(files.log) + 1
          /\ AS!ToSet(files'.log) = AS!ToSet(files.log) \cup {x}
          /\ AS!ToSet(files.log) \subseteq LogItem
      BY <2>2, <2>3, AppendOne DEF StoreInv, StoreTypes
    <2>5. x \notin AS!ToSet(files.log)
      BY <1>1, <1>4, <1>8, <2>2 DEF StoreInv, AppendInv, AppendOf
    <2>6. StoreTypes'
      <3>1. files' \in [log : Seq(LogItem), calls : Seq(Recorded)]
        BY <1>1, <1>8, <2>3, <2>4 DEF StoreInv, StoreTypes
      <3> QED
        BY <1>1, <1>3, <3>1 DEF StoreInv, StoreTypes
    <2>7. AppendInv'
      <3>1. \A u \in Threads \ {t} : AS!Doing(u, "log") => x \notin AS!ToSet(thread[u].items)
        <4> SUFFICES ASSUME NEW u \in Threads \ {t}, AS!Doing(u, "log")
                     PROVE  x \notin AS!ToSet(thread[u].items)
          OBVIOUS
        <4>1. PICK m \in Nat : thread[u].items = << <<u, m>> >>
          BY DEF StoreInv, AppendInv, AppendOf, Carries
        <4>2. AS!ToSet(thread[u].items) = {<<u, m>>}
          BY <4>1, ToSetOfOne
        <4> QED
          BY <2>2, <4>2
      <3>2. \A u \in Threads \ {t} : AppendOf(u)'
        BY <1>3, <1>5, <1>7, <2>4, <3>1 DEF StoreInv, AppendInv, AppendOf
      <3>3. AppendOf(t)'
        BY <1>1, <1>2, <1>3, <1>7, <2>2, <2>4 DEF AppendOf
      <3> QED
        BY <3>2, <3>3 DEF AppendInv
    <2>8. LogInv'
      <3>1. \A item \in AS!ToSet(files'.log) : item[2] < operations'
        BY <1>1, <2>1, <2>2, <2>4 DEF StoreInv, LogInv
      <3>2. ASSUME NEW item \in AS!ToSet(files'.log) \ returned'
            PROVE  \/ kills' > 0
                   \/ \E u \in Threads : AS!Doing(u, "log")' /\ item \in AS!ToSet(thread'[u].items)
        <4>1. CASE item = x
          BY <1>2, <1>3, <1>4, <1>8, <2>2, <4>1
        <4>2. CASE item # x
          <5>1. item \in AS!ToSet(files.log) \ returned
            BY <1>1, <2>4, <3>2, <4>2
          <5> QED
            BY <1>1, <1>2, <1>3, <1>4, <5>1 DEF StoreInv, LogInv
        <4> QED
          BY <4>1, <4>2
      <3>3. /\ IsFiniteSet(AS!ToSet(files'.log))
            /\ Cardinality(AS!ToSet(files'.log)) = Len(files'.log)
        <4>1. IsFiniteSet(AS!ToSet(files.log)) /\ Cardinality(AS!ToSet(files.log)) = Len(files.log)
          BY DEF StoreInv, LogInv
        <4>2. /\ IsFiniteSet(AS!ToSet(files.log) \cup {x})
              /\ Cardinality(AS!ToSet(files.log) \cup {x}) = Cardinality(AS!ToSet(files.log)) + 1
          BY <2>5, <4>1, FS_AddElement
        <4> QED
          BY <2>4, <4>1, <4>2
      <3> QED
        BY <1>1, <2>4, <3>1, <3>2, <3>3 DEF StoreInv, LogInv
    <2>9. CallsInv'
      BY <1>1, <1>2, <1>3, <1>4, <1>8, <2>3 DEF StoreInv, CallsInv, CallsInOrder
    <2> QED
      BY <1>6, <2>6, <2>7, <2>8, <2>9 DEF StoreInv
  <1>9. CASE thread[t].file = "calls"
    <2>1. files'.log = files.log /\ files'.calls = thread[t].list
      BY <1>1, <1>4, <1>9 DEF StoreInv, StoreTypes, CallsInv
    <2>2. StoreTypes'
      <3>1. files' \in [log : Seq(LogItem), calls : Seq(Recorded)]
        BY <1>1, <1>9, <2>1 DEF StoreInv, StoreTypes, Activity
      <3> QED
        BY <1>1, <1>3, <3>1 DEF StoreInv, StoreTypes
    <2>3. AppendInv'
      BY <1>1, <1>2, <1>3, <1>4, <1>5, <1>7, <1>9, <2>1 DEF StoreInv, AppendInv, AppendOf
    <2>4. LogInv'
      BY <1>1, <1>2, <1>3, <1>4, <2>1 DEF StoreInv, LogInv
    <2>5. CallsInv'
      BY <1>1, <1>2, <1>3, <1>4, <1>5, <2>1 DEF StoreInv, CallsInv, CallsInOrder
    <2> QED
      BY <1>6, <2>2, <2>3, <2>4, <2>5 DEF StoreInv
  <1> QED
    BY <1>1, <1>8, <1>9

LEMMA IdleIsActivity == AS!Idle \in Activity
  BY DEF AS!Idle, Activity, AS!None

(* A thread that leaves its operation, done or not. *)
LEMMA LeavesKeeps ==
    ASSUME StoreInv, NEW t \in Threads, thread[t].at \in {"written", "replaced"},
           thread' = [thread EXCEPT ![t] = [AS!Idle EXCEPT !.list = thread[t].list]],
           lock' = AS!None, UNCHANGED <<files, operations, kills>>,
           \/ thread[t].at = "written" /\ returned' = returned
           \/ thread[t].at = "replaced" /\ returned' = returned \cup AS!ToSet(thread[t].items)
    PROVE  StoreInv'
  <1> DEFINE r == [AS!Idle EXCEPT !.list = thread[t].list]
  <1>1. thread[t].list \in Seq(Recorded)
    BY DEF Activity, StoreInv, StoreTypes
  <1>2. /\ r \in Activity /\ r.at = "idle" /\ r.list = thread[t].list /\ r.items = <<>>
    <2>1. r \in Activity
      BY <1>1, IdleIsActivity DEF Activity
    <2>2. r = [at |-> "idle", file |-> AS!None, items |-> <<>>, payload |-> <<>>, denied |-> 0,
               list |-> thread[t].list]
      BY DEF AS!Idle
    <2> QED
      BY <2>1, <2>2
  <1>0. thread' = [thread EXCEPT ![t] = r]
    OBVIOUS
  <1> HIDE DEF r
  <1>3. /\ thread' \in [Threads -> Activity] /\ thread'[t] = r
        /\ \A u \in Threads \ {t} :
              /\ thread'[u] = thread[u]
              /\ \A file \in {"log", "calls"} : AS!Doing(u, file)' <=> AS!Doing(u, file)
    BY <1>0, <1>2, OneThread DEF StoreInv
  <1>4. \A file \in {"log", "calls"} : ~ AS!Doing(t, file)'
    BY <1>2, <1>3 DEF AS!Doing
  <1>5. StoreTypes'
    BY <1>3 DEF StoreInv, StoreTypes
  <1>6. LockInv'
    <2>1. \A u \in Threads \ {t} : thread[u].at \notin {"locked", "written", "replaced"}
      BY DEF StoreInv, LockInv
    <2> QED
      BY <1>2, <1>3, <2>1, ServicesAssumption DEF LockInv, AS!StoreAssumption
  <1>7. AppendInv'
    <2>1. \A u \in Threads \ {t} : Carries(u)'
      BY <1>3, CarriesStays DEF StoreInv, AppendInv, AppendOf
    <2>2. Carries(t)'
      BY <1>2, <1>3, <1>4 DEF Carries
    <2> QED
      BY <1>2, <1>3, <1>4, <2>1, <2>2 DEF StoreInv, AppendInv, AppendOf
  <1>8. LogInv'
    <2>1. Carries(t)
      BY DEF StoreInv, AppendInv, AppendOf
    <2>2. /\ thread[t].at = "written" => AS!ToSet(thread[t].items) \cap AS!ToSet(files.log) = {}
          /\ thread[t].at = "replaced" => AS!ToSet(thread[t].items) \subseteq AS!ToSet(files.log)
      BY <2>1, ToSetOfNothing DEF StoreInv, AppendInv, AppendOf, Carries
    <2>3. returned \subseteq returned' /\ returned' \subseteq AS!ToSet(files'.log)
      BY <2>2 DEF StoreInv, LogInv
    <2>4. ASSUME NEW item \in AS!ToSet(files'.log) \ returned'
          PROVE  \/ kills' > 0
                 \/ \E u \in Threads : AS!Doing(u, "log")' /\ item \in AS!ToSet(thread'[u].items)
      <3>1. item \in AS!ToSet(files.log) \ returned /\ item \notin AS!ToSet(thread[t].items)
        BY <2>2, <2>3, <2>4
      <3> QED
        BY <1>3, <3>1 DEF StoreInv, LogInv
    <2> QED
      BY <2>3, <2>4 DEF StoreInv, LogInv
  <1>9. CallsInv'
    BY <1>2, <1>3, <1>4 DEF StoreInv, CallsInv, CallsInOrder
  <1> QED
    BY <1>5, <1>6, <1>7, <1>8, <1>9 DEF StoreInv

LEMMA DeniedKeeps ==
    ASSUME StoreInv, NEW t \in Threads, AS!Denied(t)
    PROVE  StoreInv'
  <1>1. CASE thread' = [thread EXCEPT ![t].denied = @ + 1] /\ UNCHANGED lock
    <2> DEFINE r == [thread[t] EXCEPT !.denied = @ + 1]
    <2>1. /\ thread[t] \in Activity /\ UNCHANGED <<files, lock, returned, operations, kills>>
          /\ thread' = [thread EXCEPT ![t] = r]
      BY <1>1 DEF AS!Denied, StoreInv, StoreTypes
    <2>2. /\ r \in Activity /\ r.at = thread[t].at /\ r.list = thread[t].list
          /\ r.items = thread[t].items /\ r.file = thread[t].file
          /\ r.payload = thread[t].payload
      <3>1. thread[t].denied + 1 \in Nat
        BY <2>1 DEF Activity
      <3> QED
        BY ONLY <2>1, <3>1 DEF Activity
    <2> HIDE DEF r
    <2>3. /\ thread' \in [Threads -> Activity] /\ thread'[t] = r
          /\ \A u \in Threads \ {t} : thread'[u] = thread[u]
      BY <2>1, <2>2, OneThread DEF StoreInv
    <2>4. \A u \in Threads :
             /\ thread'[u].at = thread[u].at /\ thread'[u].list = thread[u].list
             /\ thread'[u].items = thread[u].items /\ thread'[u].file = thread[u].file
             /\ thread'[u].payload = thread[u].payload
      BY <2>2, <2>3
    <2>5. \A u \in Threads, file \in {"log", "calls"} : AS!Doing(u, file)' <=> AS!Doing(u, file)
      BY <2>4 DEF AS!Doing
    <2>6. \A u \in Threads : Carries(u)'
      BY <2>1, <2>4, <2>5, CarriesStays DEF StoreInv, AppendInv, AppendOf
    <2>7. StoreTypes' /\ LockInv'
      BY <2>1, <2>3, <2>4 DEF StoreInv, StoreTypes, LockInv
    <2>8. AppendInv'
      <3> SUFFICES ASSUME NEW u \in Threads
                   PROVE  AppendOf(u)'
        BY DEF AppendInv
      <3>1. AppendOf(u) /\ files' = files
        BY <2>1 DEF StoreInv, AppendInv
      <3>2. /\ thread'[u].at = thread[u].at /\ thread'[u].items = thread[u].items
            /\ thread'[u].file = thread[u].file /\ thread'[u].payload = thread[u].payload
            /\ AS!Doing(u, "log")' <=> AS!Doing(u, "log")
        BY <2>4, <2>5
      <3> QED
        BY ONLY <2>6, <3>1, <3>2 DEF AppendOf
    <2>9. LogInv' /\ CallsInv'
      BY <2>1, <2>4, <2>5 DEF StoreInv, LogInv, CallsInv, CallsInOrder
    <2> QED
      BY <2>7, <2>8, <2>9 DEF StoreInv
  <1>2. CASE /\ thread' = [thread EXCEPT ![t] = [AS!Idle EXCEPT !.list = thread[t].list]]
             /\ lock' = AS!None
    BY <1>2, LeavesKeeps DEF AS!Denied
  <1> QED
    BY <1>1, <1>2 DEF AS!Denied

LEMMA ReturnKeeps ==
    ASSUME StoreInv, NEW t \in Threads, AS!Return(t)
    PROVE  StoreInv'
  BY LeavesKeeps DEF AS!Return

LEMMA StoreCrashKeeps ==
    ASSUME StoreInv, AS!Crash
    PROVE  StoreInv'
  <1>1. /\ UNCHANGED <<files, returned, operations>> /\ lock' = AS!None
        /\ kills \in Nat /\ kills' = kills + 1
    BY DEF AS!Crash, StoreInv, StoreTypes
  <1>2. \A t \in Threads : thread'[t] = AS!Idle
    BY DEF AS!Crash
  <1>3. \A t \in Threads :
           thread'[t].at = "idle" /\ thread'[t].items = <<>> /\ thread'[t].list = <<>>
    BY <1>2 DEF AS!Idle
  <1>4. StoreTypes'
    BY <1>1, IdleIsActivity DEF AS!Crash, StoreInv, StoreTypes
  <1>5. LockInv'
    BY <1>1, <1>3, ServicesAssumption DEF LockInv, AS!StoreAssumption
  <1>6. AppendInv'
    BY <1>3 DEF AppendInv, AppendOf, Carries, AS!Doing
  <1>7. LogInv'
    BY <1>1 DEF StoreInv, LogInv
  <1>8. CallsInv'
    BY <1>1, <1>3 DEF StoreInv, CallsInv, CallsInOrder, AS!Doing
  <1> QED
    BY <1>4, <1>5, <1>6, <1>7, <1>8 DEF StoreInv

LEMMA StoreStepKeeps ==
    ASSUME StoreInv, AS!Next \/ UNCHANGED storing
    PROVE  StoreInv'
  <1>1. ASSUME NEW t \in Threads,
               \/ AS!BeginAppend(t) \/ AS!NewRecorder(t) \/ AS!CallTool(t) \/ AS!Acquire(t)
               \/ AS!WriteTemporary(t) \/ AS!Replace(t) \/ AS!Denied(t) \/ AS!Return(t)
        PROVE  StoreInv'
    BY <1>1, BeginAppendKeeps, NewRecorderKeeps, CallToolKeeps, AcquireKeeps,
       WriteTemporaryKeeps, ReplaceKeeps, DeniedKeeps, ReturnKeeps
  <1>2. CASE AS!Crash
    BY <1>2, StoreCrashKeeps
  <1>3. CASE UNCHANGED storing
    BY <1>3 DEF storing, StoreInv, StoreTypes, LockInv, AppendInv, AppendOf, LogInv, CallsInv,
                CallsInOrder, Carries, AS!Doing
  <1> QED
    BY <1>1, <1>2, <1>3 DEF AS!Next

(* Of an instance, the operators of the library are its own: these count   *)
(* the same.                                                               *)
LEMMA StoreCounts == \A S : AS!Cardinality(S) = Cardinality(S)
  BY DEF AS!Cardinality, Cardinality

LEMMA StoreInvGivesKept == StoreInv => AppendedIsKept
  BY StoreCounts DEF StoreInv, LogInv, CallsInv, CallsInOrder, AppendedIsKept, AS!AppendedIsKept

-----------------------------------------------------------------------------
(* The services run each on their own: a step is of one of them and leaves *)
(* the state of the others alone.                                          *)

LEMMA ServicesStart == ServicesInit => StoreInv
  BY StoreInvInit DEF ServicesInit

LEMMA ServicesGoOn ==
    StoreInv /\ [ServicesNext]_<<service, vars, workflow, evaluation, storing>> => StoreInv'
  <1>1. StoreInv /\ StoreStep => StoreInv'
    BY StoreStepKeeps DEF StoreStep
  <1>2. StoreInv /\ (IntakeStep \/ WorkflowStep \/ EvaluationStep) => StoreInv'
    BY StoreStepKeeps DEF IntakeStep, WorkflowStep, EvaluationStep
  <1> QED
    BY <1>1, <1>2, StoreStepKeeps DEF ServicesNext

(* What an append of the artifact store has returned stays in the log, and *)
(* every item of the log is of an append, once (harness/artifacts.py), for *)
(* any threads, tools, retries and kills, beside the other services.       *)
THEOREM LogIsKept == ServicesSpec => []AppendedIsKept
  <1>1. ServicesSpec => []StoreInv
    BY ServicesStart, ServicesGoOn, PTL DEF ServicesSpec
  <1> QED
    BY <1>1, StoreInvGivesKept, PTL
=============================================================================
