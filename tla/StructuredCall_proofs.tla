------------------------ MODULE StructuredCall_proofs ------------------------
(***************************************************************************)
(* Theorems about StructuredCall, for any callers, retries and crashes:    *)
(* its types and bounds, that what a caller was told is on record, and     *)
(* that the client implements LLMContract.                                 *)
(***************************************************************************)
EXTENDS StructuredCall, TLAPS

Tries == MaxRetries + 1

Ids == {<<>>} \cup (Callers \X Nat)
Outcomes == {"none", "transient", "refused", "malformed", "invalid", "valid",
             "truncated", "unready"}
CallType == [id : Ids, attempt : 0..2, try : 0..Tries, last : Outcomes, requests : Nat,
             counted : Nat, mocked : BOOLEAN, alone : BOOLEAN]
Records == [id : Ids, failed : BOOLEAN] \cup Ids   \* of calls and of outputs

Ended == {"loading", "saving", "loadingOutputs", "savingOutputs"}
Phases == {"idle", "posting", "mocking"} \cup Ended

Types ==
    /\ phase \in [Callers -> Phases]
    /\ call \in [Callers -> CallType]
    /\ seen \in [Callers -> SUBSET Records]
    /\ calls \subseteq Records /\ outputs \subseteq Records
    /\ answer \in [Callers -> Contract!Kinds \cup {"none", "declined", "escaped"}]
    /\ made \in 0..MaxCalls /\ crashes \in 0..MaxCrashes

(* The name of an outcome is earned by the requests that were sent. *)
Earned(c, k) == Contract!Earned(c, Named(k.last), k.requests)

(* What a caller's call has used up, and by what it got where it is: while *)
(* it posts, its second attempt follows an answer that could be repaired.  *)
CallIsBounded(c) ==
    LET k == call[c] IN
    /\ k.requests <= 2 * Tries /\ k.counted <= k.requests
    /\ phase[c] = "idle" => k = NoCall
    /\ phase[c] = "posting" =>
          /\ k.attempt \in 1..2 /\ k.try \in 1..Tries
          /\ k.attempt = 1 => k.requests <= k.try - 1
          /\ k.attempt = 2 => k.requests <= Tries + (k.try - 1)
          /\ k.counted + (k.try - 1) <= k.requests
          /\ k.last \in {"none"} \cup Retryable
    /\ phase[c] = "mocking" => c \in Fallback
    /\ phase[c] \in Ended => Earned(c, k) /\ k.last # "none"

BoundInv == \A c \in Callers : CallIsBounded(c)

(* A call that is still alone is the only one; once it has saved its       *)
(* record nobody takes that out; and what is promised to a caller that was *)
(* told is in every list that anybody is about to save.                    *)
Told(t) == [id |-> t.id, failed |-> t.kind # "output"]

RecordInv ==
    /\ \A c \in Callers : phase[c] # "idle" /\ call[c].alone
          => \A d \in Callers : phase[d] # "idle" => d = c
    /\ \A c \in Callers : phase[c] \in {"loadingOutputs", "savingOutputs"} /\ call[c].alone
          => CallRecord(call[c]) \in calls
    /\ \A t \in told : t.alone /\ t.kind # "escaped" =>
          /\ Told(t) \in calls /\ t.id \in outputs
          /\ \A d \in Callers : /\ phase[d] = "saving" => Told(t) \in seen[d]
                                /\ phase[d] = "savingOutputs" => t.id \in seen[d]

CallInv == Types /\ BoundInv /\ RecordInv

LEMMA NoCallType == CallAssumption => NoCall \in CallType
BY DEF CallAssumption, NoCall, CallType, Ids, Outcomes, Tries

LEMMA CallInit == CallAssumption /\ Init => CallInv
<1> SUFFICES ASSUME CallAssumption, Init PROVE CallInv
  OBVIOUS
<1>1. Types
  <2>1. /\ phase \in [Callers -> Phases] /\ call \in [Callers -> CallType]
        /\ seen \in [Callers -> SUBSET Records]
    BY NoCallType DEF Init, Phases, Ended
  <2> QED BY <2>1 DEF Init, Types, CallAssumption
<1>2. BoundInv
  BY DEF Init, BoundInv, CallIsBounded, NoCall, CallAssumption, Tries, Ended
<1>3. RecordInv
  BY DEF Init, RecordInv
<1> QED BY <1>1, <1>2, <1>3 DEF CallInv

-----------------------------------------------------------------------------
(* The end of an attempt, however it ends. *)

(* What the new state of a caller has to satisfy on its own. *)
LEMMA OneCaller ==
    ASSUME CallAssumption, CallInv, NEW c \in Callers,
           NEW p \in Phases, NEW k \in CallType,
           phase' = [phase EXCEPT ![c] = p], call' = [call EXCEPT ![c] = k],
           CallIsBounded(c)'
    PROVE  /\ phase' \in [Callers -> Phases] /\ call' \in [Callers -> CallType]
           /\ BoundInv'
BY DEF CallInv, Types, BoundInv, CallIsBounded, Earned, Contract!Earned

LEMMA AttemptFacts ==
    ASSUME CallAssumption, CallInv, NEW c \in Callers, phase[c] = "posting",
           NEW k, NEW a \in Outcomes \ {"none"}, AttemptEnds(c, k, a),
           \/ k = [call[c] EXCEPT !.requests = @ + 1] /\ a # "unready"
              /\ (a = "transient" => k.try = Tries)
           \/ k = call[c] /\ a = "unready" /\ k.try = 1
    PROVE  \E p \in Phases, n \in CallType :
              /\ phase' = [phase EXCEPT ![c] = p] /\ call' = [call EXCEPT ![c] = n]
              /\ CallIsBounded(c)'
              /\ n.id = call[c].id /\ n.alone = call[c].alone
              /\ n.requests = k.requests
              /\ p \in {"posting", "mocking", "loading"}
              /\ n.last = "truncated" => p # "posting"
<1> DEFINE again == k.attempt = 1 /\ a \in Retryable
           ended == [k EXCEPT !.last = a, !.counted = Counted(k, a)]
           n == IF again THEN [ended EXCEPT !.attempt = 2, !.try = 1] ELSE ended
           p == IF again THEN "posting"
                ELSE IF a # "valid" /\ c \in Fallback THEN "mocking" ELSE "loading"
<1>0. /\ call[c] \in CallType /\ call[c].attempt \in 1..2 /\ call[c].try \in 1..Tries
      /\ call[c].attempt = 1 => call[c].requests <= call[c].try - 1
      /\ call[c].attempt = 2 => call[c].requests <= Tries + (call[c].try - 1)
      /\ call[c].counted + (call[c].try - 1) <= call[c].requests
      /\ MaxRetries \in Nat
  BY DEF CallInv, Types, BoundInv, CallIsBounded, CallAssumption
<1>1. /\ k \in CallType /\ k.attempt \in 1..2 /\ k.try \in 1..Tries
      /\ k.id = call[c].id /\ k.alone = call[c].alone
      /\ k.counted + (k.try - 1) <= k.requests
      /\ k.requests <= 2 * Tries
      /\ k.attempt = 1 => k.requests <= Tries
      /\ a # "unready" => k.requests >= 1 /\ k.counted + k.try <= k.requests
      /\ a = "transient" => k.requests >= Tries
  BY <1>0 DEF CallType, Tries
<1>2. /\ Counted(k, a) \in Nat /\ Counted(k, a) <= k.requests
  BY <1>1 DEF Counted, CallType, Tries
<1>3. /\ ended \in CallType /\ ended.requests = k.requests /\ ended.counted = Counted(k, a)
      /\ ended.last = a /\ ended.id = k.id /\ ended.alone = k.alone
      /\ ended.attempt = k.attempt
  BY <1>1, <1>2 DEF CallType
<1>4. /\ n \in CallType /\ n.requests = k.requests /\ n.counted = Counted(k, a)
      /\ n.last = a /\ n.id = k.id /\ n.alone = k.alone
      /\ again => n.attempt = 2 /\ n.try = 1
  <2>1. CASE again
    <3>1. 1 \in 0..Tries /\ 2 \in 0..2
      BY <1>0 DEF Tries
    <3>2. n = [ended EXCEPT !.attempt = 2, !.try = 1]
      BY <2>1
    <3> HIDE DEF ended, n
    <3> QED BY <1>3, <3>1, <3>2 DEF CallType
  <2>2. CASE ~again
    BY <1>3, <2>2
  <2> QED BY <2>1, <2>2
<1>5. phase' = [phase EXCEPT ![c] = p] /\ call' = [call EXCEPT ![c] = n] /\ p \in Phases
  BY DEF AttemptEnds, Phases, Ended
<1>6. phase'[c] = p /\ call'[c] = n
  BY <1>5 DEF CallInv, Types
<1> HIDE DEF n, ended
<1>7. p = "posting" => again
  OBVIOUS
<1>8. CallIsBounded(c)'
  <2>1. n.requests <= 2 * Tries /\ n.counted <= n.requests
    BY <1>1, <1>2, <1>4
  <2>2. p = "posting" =>
          /\ n.attempt \in 1..2 /\ n.try \in 1..Tries
          /\ n.attempt = 1 => n.requests <= n.try - 1
          /\ n.attempt = 2 => n.requests <= Tries + (n.try - 1)
          /\ n.counted + (n.try - 1) <= n.requests
          /\ n.last \in {"none"} \cup Retryable
    BY <1>0, <1>1, <1>2, <1>4, <1>7 DEF Tries, CallType
  <2>3. p \in Ended => Earned(c, n) /\ n.last # "none"
    <3> SUFFICES ASSUME p \in Ended PROVE Earned(c, n) /\ n.last # "none"
      OBVIOUS
    <3>2. n.last = a /\ n.requests = k.requests /\ n.requests \in Nat /\ a # "none"
      BY <1>4 DEF CallType
    <3>3. Contract!Tries = Tries
      BY DEF Contract!Tries, Tries
    <3>4. Named(a) = "transient" => a = "transient"
      BY DEF Named
    <3>5. Named(a) \in {"truncated", "structured", "output"} => a # "unready"
      BY DEF Named
    <3> QED BY <1>1, <3>2, <3>3, <3>4, <3>5 DEF Earned, Contract!Earned
  <2>4. p # "idle" /\ (p = "mocking" => c \in Fallback)
    OBVIOUS
  <2> QED BY <1>6, <2>1, <2>2, <2>3, <2>4 DEF CallIsBounded, Earned
<1>9. p \in {"posting", "mocking", "loading"} /\ (a = "truncated" => p # "posting")
  BY DEF Retryable
<1> QED BY <1>1, <1>4, <1>5, <1>8, <1>9

-----------------------------------------------------------------------------
(* What a caller's own step leaves to the others. *)

(* A step that is neither an answer, nor a save, nor a new call. *)
LEMMA RecordFrame ==
    ASSUME CallInv, NEW c \in Callers, phase[c] # "idle",
           NEW p \in Phases \ {"loadingOutputs", "savingOutputs"}, NEW k \in CallType,
           phase' = [phase EXCEPT ![c] = p], call' = [call EXCEPT ![c] = k],
           k.alone => call[c].alone \/ p = "idle",
           UNCHANGED <<store, told>>,
           \/ p # "saving" /\ seen' = seen
           \/ seen' = [seen EXCEPT ![c] = calls]
    PROVE  RecordInv'
<1>0. /\ phase \in [Callers -> Phases] /\ call \in [Callers -> CallType]
      /\ \A d \in Callers : d # c => phase'[d] = phase[d] /\ call'[d] = call[d]
      /\ phase'[c] = p /\ call'[c] = k
  BY DEF CallInv, Types
<1>1. \A d \in Callers : phase'[d] # "idle" /\ call'[d].alone
          => \A e \in Callers : phase'[e] # "idle" => e = d
  BY <1>0 DEF CallInv, RecordInv
<1>2. \A d \in Callers : phase'[d] \in {"loadingOutputs", "savingOutputs"} /\ call'[d].alone
          => CallRecord(call'[d]) \in calls'
  BY <1>0 DEF CallInv, RecordInv, store
<1>3. ASSUME NEW t \in told', t.alone, t.kind # "escaped"
      PROVE  /\ Told(t) \in calls' /\ t.id \in outputs'
             /\ \A d \in Callers : /\ phase'[d] = "saving" => Told(t) \in seen'[d]
                                   /\ phase'[d] = "savingOutputs" => t.id \in seen'[d]
  <2>1. /\ Told(t) \in calls /\ t.id \in outputs
        /\ \A d \in Callers : /\ phase[d] = "saving" => Told(t) \in seen[d]
                              /\ phase[d] = "savingOutputs" => t.id \in seen[d]
    BY <1>3 DEF CallInv, RecordInv
  <2>2. /\ \A d \in Callers : d # c => seen'[d] = seen[d]
        /\ p = "saving" => seen'[c] = calls
    BY DEF CallInv, Types
  <2> QED BY <1>0, <2>1, <2>2 DEF store
<1> QED BY <1>1, <1>2, <1>3 DEF RecordInv, CallRecord, Told

LEMMA PostKeeps ==
    ASSUME CallAssumption, CallInv, NEW c \in Callers, Post(c) \/ NotReady(c)
    PROVE  /\ CallInv'
           /\ call[c].requests <= call'[c].requests
           /\ call'[c].requests \in {call[c].requests, call[c].requests + 1}
           /\ call'[c].last = "truncated" => phase'[c] # "posting"
           /\ phase'[c] \in {"posting", "mocking", "loading"}
           /\ \A d \in Callers : d # c => call'[d] = call[d] /\ phase'[d] = phase[d]
<1>0. /\ phase[c] = "posting" /\ call[c] \in CallType /\ MaxRetries \in Nat
      /\ phase \in [Callers -> Phases] /\ call \in [Callers -> CallType]
      /\ call[c].try \in 1..Tries /\ call[c].requests \in Nat
      /\ UNCHANGED <<seen, store, answer, told, made, crashes>>
  BY DEF CallInv, Types, BoundInv, CallIsBounded, Post, NotReady, CallAssumption, CallType
<1>1. ASSUME NEW p \in {"posting", "mocking", "loading"}, NEW n \in CallType,
             phase' = [phase EXCEPT ![c] = p], call' = [call EXCEPT ![c] = n],
             CallIsBounded(c)', n.alone = call[c].alone
      PROVE  CallInv'
  <2>1. BoundInv' /\ phase' \in [Callers -> Phases] /\ call' \in [Callers -> CallType]
    BY <1>1, OneCaller DEF Phases, Ended
  <2>2. RecordInv'
    BY <1>0, <1>1, RecordFrame DEF Phases, Ended
  <2> QED BY <1>0, <2>1, <2>2 DEF CallInv, Types, store
<1>2. CASE NotReady(c)
  <2>1. AttemptEnds(c, call[c], "unready") /\ call[c].try = 1
    BY <1>2 DEF NotReady
  <2>2. \E p \in Phases, n \in CallType :
              /\ phase' = [phase EXCEPT ![c] = p] /\ call' = [call EXCEPT ![c] = n]
              /\ CallIsBounded(c)'
              /\ n.id = call[c].id /\ n.alone = call[c].alone
              /\ n.requests = call[c].requests
              /\ p \in {"posting", "mocking", "loading"}
              /\ n.last = "truncated" => p # "posting"
    BY <1>0, <2>1, AttemptFacts DEF Outcomes
  <2>3. PICK p \in Phases, n \in CallType :
              /\ phase' = [phase EXCEPT ![c] = p] /\ call' = [call EXCEPT ![c] = n]
              /\ CallIsBounded(c)'
              /\ n.id = call[c].id /\ n.alone = call[c].alone
              /\ n.requests = call[c].requests
              /\ p \in {"posting", "mocking", "loading"}
              /\ n.last = "truncated" => p # "posting"
    BY <2>2
  <2>4. CallInv'
    BY <1>1, <2>3
  <2>5. /\ phase'[c] = p /\ call'[c] = n
        /\ \A d \in Callers : d # c => call'[d] = call[d] /\ phase'[d] = phase[d]
    BY <1>0, <2>3
  <2> QED BY <1>0, <2>3, <2>4, <2>5
<1>3. CASE Post(c)
  <2> DEFINE k == [call[c] EXCEPT !.requests = @ + 1]
  <2>0. k \in CallType /\ k.try = call[c].try /\ k.requests = call[c].requests + 1
        /\ k.alone = call[c].alone /\ k.id = call[c].id
    BY <1>0 DEF CallType
  <2>1. PICK a \in Answers :
          IF a = "transient" /\ RetryIsLeft(k)
          THEN call' = [call EXCEPT ![c] = [k EXCEPT !.try = @ + 1]] /\ UNCHANGED phase
          ELSE AttemptEnds(c, k, a)
    BY <1>3 DEF Post
  <2>2. CASE a = "transient" /\ RetryIsLeft(k)
    <3> DEFINE n == [k EXCEPT !.try = @ + 1]
    <3>1. /\ n \in CallType /\ n.try = call[c].try + 1 /\ n.requests = call[c].requests + 1
          /\ n.alone = call[c].alone /\ n.counted = call[c].counted
          /\ n.attempt = call[c].attempt /\ n.last = call[c].last
          /\ call[c].try <= MaxRetries
      <4>1. k.try <= MaxRetries /\ k.try + 1 \in 0..Tries
        BY <1>0, <2>0, <2>2 DEF RetryIsLeft, Tries
      <4> QED BY <2>0, <4>1 DEF CallType
    <3>2. call' = [call EXCEPT ![c] = n] /\ phase' = [phase EXCEPT ![c] = "posting"]
      BY <1>0, <2>1, <2>2
    <3>3. call'[c] = n /\ phase'[c] = "posting"
      BY <1>0, <3>2
    <3> HIDE DEF n, k
    <3>4. CallIsBounded(c)'
      <4>1. /\ call[c].attempt \in 1..2
            /\ call[c].attempt = 1 => call[c].requests <= call[c].try - 1
            /\ call[c].attempt = 2 => call[c].requests <= Tries + (call[c].try - 1)
            /\ call[c].counted + (call[c].try - 1) <= call[c].requests
            /\ call[c].last \in {"none"} \cup Retryable
            /\ call[c].counted \in Nat
        BY <1>0 DEF CallInv, BoundInv, CallIsBounded, CallType
      <4>2. n.requests <= 2 * Tries /\ n.counted <= n.requests
        BY <1>0, <3>1, <4>1 DEF Tries
      <4>3. /\ n.attempt \in 1..2 /\ n.try \in 1..Tries
            /\ n.attempt = 1 => n.requests <= n.try - 1
            /\ n.attempt = 2 => n.requests <= Tries + (n.try - 1)
            /\ n.counted + (n.try - 1) <= n.requests
            /\ n.last \in {"none"} \cup Retryable
        BY <1>0, <3>1, <4>1 DEF Tries
      <4> QED BY <3>3, <4>2, <4>3 DEF CallIsBounded, Ended
    <3>5. n.last # "truncated"
      BY <1>0, <3>1 DEF CallInv, BoundInv, CallIsBounded, Retryable
    <3>6. CallInv'
      BY <1>1, <3>1, <3>2, <3>4, <2>0
    <3>7. \A d \in Callers : d # c => call'[d] = call[d] /\ phase'[d] = phase[d]
      BY <1>0, <3>2
    <3> QED BY <1>0, <3>1, <3>3, <3>5, <3>6, <3>7
  <2>3. CASE ~(a = "transient" /\ RetryIsLeft(k))
    <3>1. AttemptEnds(c, k, a) /\ (a = "transient" => k.try = Tries)
      BY <1>0, <2>0, <2>1, <2>3 DEF RetryIsLeft, Tries
    <3>2. a \in Outcomes \ {"none"} /\ a # "unready"
      BY DEF Answers, Outcomes
    <3>3. \E p \in Phases, n \in CallType :
              /\ phase' = [phase EXCEPT ![c] = p] /\ call' = [call EXCEPT ![c] = n]
              /\ CallIsBounded(c)'
              /\ n.id = call[c].id /\ n.alone = call[c].alone
              /\ n.requests = k.requests
              /\ p \in {"posting", "mocking", "loading"}
              /\ n.last = "truncated" => p # "posting"
      BY <1>0, <3>1, <3>2, AttemptFacts
    <3>4. PICK p \in Phases, n \in CallType :
              /\ phase' = [phase EXCEPT ![c] = p] /\ call' = [call EXCEPT ![c] = n]
              /\ CallIsBounded(c)'
              /\ n.id = call[c].id /\ n.alone = call[c].alone
              /\ n.requests = k.requests
              /\ p \in {"posting", "mocking", "loading"}
              /\ n.last = "truncated" => p # "posting"
      BY <3>3
    <3> HIDE DEF k
    <3>5. CallInv'
      BY <1>1, <3>4
    <3>6. /\ phase'[c] = p /\ call'[c] = n
          /\ \A d \in Callers : d # c => call'[d] = call[d] /\ phase'[d] = phase[d]
      BY <1>0, <3>4
    <3> QED BY <1>0, <2>0, <3>4, <3>5, <3>6
  <2> QED BY <2>2, <2>3
<1> QED BY <1>2, <1>3

LEMMA MockKeeps ==
    ASSUME CallAssumption, CallInv, NEW c \in Callers, Mock(c)
    PROVE  /\ CallInv' /\ c \in Fallback
           /\ \/ /\ phase'[c] = "loading" /\ call'[c].requests = call[c].requests
                 /\ UNCHANGED answer
              \/ /\ phase'[c] = "idle" /\ call'[c] = NoCall
                 /\ answer' = [answer EXCEPT ![c] = "escaped"]
           /\ \A d \in Callers : d # c => call'[d] = call[d] /\ phase'[d] = phase[d]
<1>0. /\ phase[c] = "mocking" /\ call[c] \in CallType /\ MaxRetries \in Nat
      /\ phase \in [Callers -> Phases] /\ call \in [Callers -> CallType]
      /\ c \in Fallback /\ call[c].requests <= 2 * Tries
      /\ call[c].counted <= call[c].requests
      /\ UNCHANGED <<seen, store, made, crashes>>
  BY DEF CallInv, Types, BoundInv, CallIsBounded, Mock, CallAssumption
<1>1. CASE /\ call' = [call EXCEPT ![c].last = "valid", ![c].mocked = TRUE]
           /\ phase' = [phase EXCEPT ![c] = "loading"]
           /\ UNCHANGED <<answer, told>>
  <2> DEFINE n == [call[c] EXCEPT !.last = "valid", !.mocked = TRUE]
  <2>1. /\ n \in CallType /\ n.last = "valid" /\ n.requests = call[c].requests
        /\ n.counted = call[c].counted /\ n.alone = call[c].alone
    BY <1>0 DEF CallType, Outcomes
  <2>2. call' = [call EXCEPT ![c] = n] /\ call'[c] = n /\ phase'[c] = "loading"
    BY <1>0, <1>1
  <2> HIDE DEF n
  <2>3. CallIsBounded(c)'
    BY <1>0, <2>1, <2>2 DEF CallIsBounded, Earned, Contract!Earned, Named, Ended
  <2>4. BoundInv' /\ phase' \in [Callers -> Phases] /\ call' \in [Callers -> CallType]
    BY <1>1, <2>1, <2>2, <2>3, OneCaller DEF Phases, Ended
  <2>5. RecordInv'
    <3>1. /\ phase[c] # "idle" /\ "loading" \in Phases \ {"loadingOutputs", "savingOutputs"}
          /\ "loading" # "saving" /\ (n.alone => call[c].alone \/ "loading" = "idle")
          /\ phase' = [phase EXCEPT ![c] = "loading"] /\ UNCHANGED <<store, told>>
          /\ seen' = seen
      BY <1>0, <1>1, <2>1 DEF Phases, Ended
    <3> QED BY <2>1, <2>2, <3>1, RecordFrame
  <2>6. CallInv'
    BY <1>0, <1>1, <2>4, <2>5 DEF CallInv, Types, store
  <2> QED BY <1>0, <1>1, <2>1, <2>2, <2>6
<1>2. CASE Tells(c, "escaped")
  <2>1. /\ phase' = [phase EXCEPT ![c] = "idle"] /\ call' = [call EXCEPT ![c] = NoCall]
        /\ answer' = [answer EXCEPT ![c] = "escaped"]
        /\ \A t \in told' : t \in told \/ t.kind = "escaped"
    BY <1>2 DEF Tells
  <2>2. phase'[c] = "idle" /\ call'[c] = NoCall /\ NoCall \in CallType
        /\ \A d \in Callers : d # c => call'[d] = call[d] /\ phase'[d] = phase[d]
    BY <1>0, <2>1, NoCallType
  <2>3. CallIsBounded(c)'
    BY <1>0, <2>2 DEF CallIsBounded, NoCall, Ended, Tries
  <2>4. BoundInv' /\ phase' \in [Callers -> Phases] /\ call' \in [Callers -> CallType]
    BY <2>1, <2>2, <2>3, OneCaller DEF Phases
  <2>5. RecordInv'
    BY <1>0, <2>1, <2>2 DEF CallInv, RecordInv, store, CallRecord, Told
  <2>6. CallInv'
    BY <1>0, <2>1, <2>4, <2>5 DEF CallInv, Types, store
  <2> QED BY <1>0, <2>1, <2>2, <2>6
<1> QED BY <1>1, <1>2 DEF Mock

(* The lists are loaded ... *)
LEMMA LoadKeeps ==
    ASSUME CallAssumption, CallInv, NEW c \in Callers, LoadCalls(c) \/ LoadOutputs(c)
    PROVE  /\ CallInv' /\ UNCHANGED <<call, answer>>
           /\ \/ phase[c] = "loading" /\ phase'[c] = "saving"
              \/ phase[c] = "loadingOutputs" /\ phase'[c] = "savingOutputs"
           /\ \A d \in Callers : d # c => phase'[d] = phase[d]
<1>0. /\ phase[c] \in {"loading", "loadingOutputs"} /\ call[c] \in CallType
      /\ phase \in [Callers -> Phases] /\ call \in [Callers -> CallType]
      /\ UNCHANGED <<call, store, answer, told, made, crashes>>
      /\ calls \subseteq Records /\ outputs \subseteq Records
      /\ seen \in [Callers -> SUBSET Records]
  BY DEF CallInv, Types, LoadCalls, LoadOutputs
<1>1. \/ /\ phase[c] = "loading" /\ phase' = [phase EXCEPT ![c] = "saving"]
         /\ seen' = [seen EXCEPT ![c] = calls]
      \/ /\ phase[c] = "loadingOutputs" /\ phase' = [phase EXCEPT ![c] = "savingOutputs"]
         /\ seen' = [seen EXCEPT ![c] = outputs]
  BY DEF LoadCalls, LoadOutputs
<1>2. /\ phase'[c] \in {"saving", "savingOutputs"} /\ phase' \in [Callers -> Phases]
      /\ \A d \in Callers : d # c => phase'[d] = phase[d] /\ seen'[d] = seen[d]
      /\ seen' \in [Callers -> SUBSET Records]
      /\ phase'[c] = "saving" => phase[c] = "loading" /\ seen'[c] = calls
      /\ phase'[c] = "savingOutputs" => phase[c] = "loadingOutputs" /\ seen'[c] = outputs
  BY <1>0, <1>1 DEF Phases, Ended
<1>3. BoundInv'
  BY <1>0, <1>2 DEF CallInv, BoundInv, CallIsBounded, Ended, Earned, Contract!Earned
<1>4. RecordInv'
  <2>1. \A d \in Callers : /\ phase'[d] # "idle" <=> phase[d] # "idle"
                           /\ phase'[d] \in {"loadingOutputs", "savingOutputs"}
                                => phase[d] \in {"loadingOutputs", "savingOutputs"}
    BY <1>0, <1>2
  <2>2. \A d \in Callers : phase'[d] # "idle" /\ call'[d].alone
          => \A e \in Callers : phase'[e] # "idle" => e = d
    BY <1>0, <2>1 DEF CallInv, RecordInv
  <2>3. \A d \in Callers : phase'[d] \in {"loadingOutputs", "savingOutputs"} /\ call'[d].alone
          => CallRecord(call[d]) \in calls
    BY <1>0, <2>1 DEF CallInv, RecordInv
  <2>4. ASSUME NEW t \in told, t.alone, t.kind # "escaped"
        PROVE  /\ Told(t) \in calls /\ t.id \in outputs
               /\ \A d \in Callers : /\ phase'[d] = "saving" => Told(t) \in seen'[d]
                                     /\ phase'[d] = "savingOutputs" => t.id \in seen'[d]
    <3>1. /\ Told(t) \in calls /\ t.id \in outputs
          /\ \A d \in Callers : /\ phase[d] = "saving" => Told(t) \in seen[d]
                                /\ phase[d] = "savingOutputs" => t.id \in seen[d]
      BY <2>4 DEF CallInv, RecordInv
    <3> QED BY <1>2, <3>1
  <2> QED BY <1>0, <2>2, <2>3, <2>4 DEF RecordInv, store, CallRecord, Told
<1> QED BY <1>0, <1>1, <1>2, <1>3, <1>4 DEF CallInv, Types, store

(* ... and saved: the record of the call, and then its output. *)
LEMMA SaveCallsKeeps ==
    ASSUME CallAssumption, CallInv, NEW c \in Callers, SaveCalls(c)
    PROVE  /\ CallInv' /\ UNCHANGED <<call, answer>>
           /\ phase[c] = "saving" /\ phase' = [phase EXCEPT ![c] = "loadingOutputs"]
<1>0. /\ phase[c] = "saving" /\ call[c] \in CallType
      /\ phase \in [Callers -> Phases] /\ call \in [Callers -> CallType]
      /\ phase' = [phase EXCEPT ![c] = "loadingOutputs"]
      /\ UNCHANGED <<call, outputs, answer, told, made, crashes>>
      /\ calls' = seen[c] \cup {CallRecord(call[c])}
      /\ seen \in [Callers -> SUBSET Records]
      /\ seen' = [seen EXCEPT ![c] = {}]
  BY DEF CallInv, Types, SaveCalls, Appended
<1>1. /\ phase'[c] = "loadingOutputs" /\ phase' \in [Callers -> Phases]
      /\ \A d \in Callers : d # c => phase'[d] = phase[d] /\ seen'[d] = seen[d]
      /\ seen' \in [Callers -> SUBSET Records]
  BY <1>0 DEF Phases, Ended
<1>2. BoundInv'
  BY <1>0, <1>1 DEF CallInv, BoundInv, CallIsBounded, Ended, Earned, Contract!Earned
<1>3. RecordInv'
  <2>1. \A d \in Callers : phase'[d] # "idle" /\ call'[d].alone
          => \A e \in Callers : phase'[e] # "idle" => e = d
    BY <1>0, <1>1 DEF CallInv, RecordInv
  <2>2. \A d \in Callers : phase'[d] \in {"loadingOutputs", "savingOutputs"} /\ call'[d].alone
          => CallRecord(call'[d]) \in calls'
    <3> SUFFICES ASSUME NEW d \in Callers, call[d].alone,
                        phase'[d] \in {"loadingOutputs", "savingOutputs"}
                 PROVE  CallRecord(call[d]) \in calls'
      BY <1>0
    <3>1. d = c
      BY <1>0, <1>1 DEF CallInv, RecordInv
    <3> QED BY <1>0, <3>1
  <2>3. ASSUME NEW t \in told, t.alone, t.kind # "escaped"
        PROVE  /\ Told(t) \in calls' /\ t.id \in outputs
               /\ \A d \in Callers : /\ phase'[d] = "saving" => Told(t) \in seen'[d]
                                     /\ phase'[d] = "savingOutputs" => t.id \in seen'[d]
    <3>1. /\ Told(t) \in calls /\ t.id \in outputs
          /\ \A d \in Callers : /\ phase[d] = "saving" => Told(t) \in seen[d]
                                /\ phase[d] = "savingOutputs" => t.id \in seen[d]
      BY <2>3 DEF CallInv, RecordInv
    <3> QED BY <1>0, <1>1, <3>1
  <2> QED BY <1>0, <2>1, <2>2, <2>3 DEF RecordInv, CallRecord, Told
<1>4. calls' \subseteq Records
  <2>1. CallRecord(call[c]) \in Records
    BY <1>0 DEF CallRecord, Records, CallType
  <2> QED BY <1>0, <2>1
<1> QED BY <1>0, <1>1, <1>2, <1>3, <1>4 DEF CallInv, Types

LEMMA SaveOutputsKeeps ==
    ASSUME CallAssumption, CallInv, NEW c \in Callers, SaveOutputs(c)
    PROVE  /\ CallInv' /\ phase[c] = "savingOutputs"
           /\ phase' = [phase EXCEPT ![c] = "idle"]
           /\ call' = [call EXCEPT ![c] = NoCall]
           /\ answer' = [answer EXCEPT ![c] = Named(call[c].last)]
           /\ Earned(c, call[c]) /\ Named(call[c].last) \in Contract!Kinds
<1> DEFINE t == [id |-> call[c].id, kind |-> Named(call[c].last), alone |-> call[c].alone]
<1>0. /\ phase[c] = "savingOutputs" /\ call[c] \in CallType
      /\ phase \in [Callers -> Phases] /\ call \in [Callers -> CallType]
      /\ phase' = [phase EXCEPT ![c] = "idle"] /\ call' = [call EXCEPT ![c] = NoCall]
      /\ answer' = [answer EXCEPT ![c] = Named(call[c].last)]
      /\ UNCHANGED <<calls, made, crashes>>
      /\ outputs' = seen[c] \cup {call[c].id} /\ told' = told \cup {t}
      /\ seen \in [Callers -> SUBSET Records]
      /\ seen' = [seen EXCEPT ![c] = {}]
      /\ NoCall \in CallType
  BY NoCallType DEF CallInv, Types, SaveOutputs, Tells
<1>1. /\ phase'[c] = "idle" /\ phase' \in [Callers -> Phases] /\ call'[c] = NoCall
      /\ \A d \in Callers : d # c => /\ phase'[d] = phase[d] /\ seen'[d] = seen[d]
                                     /\ call'[d] = call[d]
      /\ seen' \in [Callers -> SUBSET Records]
  BY <1>0 DEF Phases, Ended
<1>2. Named(call[c].last) \in Contract!Kinds /\ Earned(c, call[c])
  <2>1. call[c].last \in Outcomes /\ Earned(c, call[c])
    BY <1>0 DEF CallType, CallInv, BoundInv, CallIsBounded, Ended
  <2> QED BY <2>1 DEF Named, Contract!Kinds, Outcomes
<1> HIDE DEF t
<1>3. BoundInv'
  <2>1. CallIsBounded(c)'
    BY <1>1 DEF CallIsBounded, NoCall, Ended, Tries, CallAssumption
  <2> QED BY <1>0, <2>1, OneCaller DEF Phases
<1>4. RecordInv'
  <2>1. \A d \in Callers : phase'[d] # "idle" /\ call'[d].alone
          => \A e \in Callers : phase'[e] # "idle" => e = d
    BY <1>0, <1>1 DEF CallInv, RecordInv
  <2>2. \A d \in Callers : phase'[d] \in {"loadingOutputs", "savingOutputs"} /\ call'[d].alone
          => CallRecord(call'[d]) \in calls'
    BY <1>0, <1>1 DEF CallInv, RecordInv
  <2>3. ASSUME NEW u \in told, u.alone, u.kind # "escaped"
        PROVE  /\ Told(u) \in calls' /\ u.id \in outputs'
               /\ \A d \in Callers : /\ phase'[d] = "saving" => Told(u) \in seen'[d]
                                     /\ phase'[d] = "savingOutputs" => u.id \in seen'[d]
    <3>1. /\ Told(u) \in calls /\ u.id \in outputs
          /\ \A d \in Callers : /\ phase[d] = "saving" => Told(u) \in seen[d]
                                /\ phase[d] = "savingOutputs" => u.id \in seen[d]
      BY <2>3 DEF CallInv, RecordInv
    <3> QED BY <1>0, <1>1, <3>1
  <2>4. ASSUME t.alone
        PROVE  /\ Told(t) \in calls' /\ t.id \in outputs'
               /\ \A d \in Callers : phase'[d] = "idle"
    <3>1. call[c].alone /\ t.id = call[c].id /\ t.kind = Named(call[c].last)
      BY <2>4 DEF t
    <3>2. CallRecord(call[c]) \in calls /\ \A d \in Callers : d # c => phase[d] = "idle"
      BY <1>0, <3>1 DEF CallInv, RecordInv
    <3>3. (t.kind # "output") = (call[c].last # "valid")
      BY <3>1 DEF Named
    <3>4. Told(t) = CallRecord(call[c])
      BY <3>1, <3>3 DEF Told, CallRecord
    <3> QED BY <1>0, <1>1, <3>1, <3>2, <3>4
  <2>5. \A u \in told' : u \in told \/ u = t
    BY <1>0
  <2>6. \A u \in told' : u.alone /\ u.kind # "escaped" =>
          /\ Told(u) \in calls' /\ u.id \in outputs'
          /\ \A d \in Callers : /\ phase'[d] = "saving" => Told(u) \in seen'[d]
                                /\ phase'[d] = "savingOutputs" => u.id \in seen'[d]
    BY <2>3, <2>4, <2>5
  <2> QED BY <2>1, <2>2, <2>6 DEF RecordInv, CallRecord, Told
<1>5. outputs' \subseteq Records /\ call' \in [Callers -> CallType]
  <2>1. call[c].id \in Records
    BY <1>0 DEF Records, CallType
  <2> QED BY <1>0, <2>1
<1>6. /\ answer' \in [Callers -> Contract!Kinds \cup {"none", "declined", "escaped"}]
  BY <1>0, <1>2 DEF CallInv, Types
<1> QED BY <1>0, <1>1, <1>2, <1>3, <1>4, <1>5, <1>6 DEF CallInv, Types

-----------------------------------------------------------------------------
(* A new call takes from the others that they are alone. *)
LEMMA AskKeeps ==
    ASSUME CallAssumption, CallInv, NEW c \in Callers, Ask(c)
    PROVE  /\ CallInv' /\ phase[c] = "idle" /\ call[c] = NoCall
           /\ \/ /\ phase'[c] = "posting" /\ call'[c].requests = 0
                 /\ answer' = [answer EXCEPT ![c] = "none"]
              \/ /\ UNCHANGED <<phase, call>>
                 /\ answer' = [answer EXCEPT ![c] = "declined"]
           /\ \A d \in Callers : d # c => /\ phase'[d] = phase[d]
                                          /\ call'[d].requests = call[d].requests
<1>0. /\ phase[c] = "idle" /\ call[c] = NoCall /\ made \in Nat /\ NoCall \in CallType
      /\ phase \in [Callers -> Phases] /\ call \in [Callers -> CallType]
      /\ UNCHANGED <<seen, store, told, crashes>> /\ MaxRetries \in Nat
  BY NoCallType DEF CallInv, Types, BoundInv, CallIsBounded, Ask, CallAssumption
<1>1. CASE answer' = [answer EXCEPT ![c] = "declined"] /\ UNCHANGED <<phase, call, made>>
  <2>1. BoundInv' /\ RecordInv'
    BY <1>0, <1>1 DEF CallInv, BoundInv, CallIsBounded, RecordInv, store, Earned,
                      Contract!Earned, CallRecord, Told
  <2>2. CallInv'
    BY <1>0, <1>1, <2>1 DEF CallInv, Types, store
  <2> QED BY <1>0, <1>1, <2>2
<1>2. CASE /\ made < MaxCalls /\ made' = made + 1
           /\ phase' = [phase EXCEPT ![c] = "posting"]
           /\ call' = [d \in Callers |->
                         IF d = c THEN [NewCall(c) EXCEPT !.alone = (Busy = {})]
                         ELSE [call[d] EXCEPT !.alone = @ /\ d \notin Busy]]
           /\ answer' = [answer EXCEPT ![c] = "none"]
  <2> DEFINE Left(d) == [call[d] EXCEPT !.alone = @ /\ d \notin Busy]
             n == [NewCall(c) EXCEPT !.alone = (Busy = {})]
  <2>1. /\ n \in CallType /\ n.attempt = 1 /\ n.try = 1 /\ n.requests = 0 /\ n.counted = 0
        /\ n.last = "none" /\ n.alone = (Busy = {})
    <3>1. <<c, made>> \in Ids /\ 1 \in 0..Tries
      BY <1>0 DEF Ids, Tries
    <3>2. (Busy = {}) \in BOOLEAN
      OBVIOUS
    <3>3. /\ NoCall.requests = 0 /\ NoCall.counted = 0 /\ NoCall.last = "none"
      BY DEF NoCall
    <3>4. /\ NewCall(c) \in CallType /\ NewCall(c).attempt = 1 /\ NewCall(c).try = 1
          /\ NewCall(c).requests = 0 /\ NewCall(c).counted = 0
          /\ NewCall(c).last = "none"
      <4> DEFINE k1 == [NoCall EXCEPT !.id = <<c, made>>]
                 k2 == [k1 EXCEPT !.attempt = 1]
                 k3 == [k2 EXCEPT !.try = 1]
      <4>1. /\ k1 \in CallType /\ k1.requests = 0 /\ k1.counted = 0 /\ k1.last = "none"
        BY <1>0, <3>1, <3>3 DEF CallType
      <4> HIDE DEF k1
      <4>2. /\ k2 \in CallType /\ k2.requests = 0 /\ k2.counted = 0 /\ k2.last = "none"
            /\ k2.attempt = 1
        BY <4>1 DEF CallType
      <4> HIDE DEF k2
      <4>3. /\ k3 \in CallType /\ k3.requests = 0 /\ k3.counted = 0 /\ k3.last = "none"
            /\ k3.attempt = 1 /\ k3.try = 1
        BY <3>1, <4>2 DEF CallType
      <4>4. NewCall(c) = k3
        BY DEF NewCall, k1, k2
      <4> QED BY <4>3, <4>4
    <3> QED BY <3>2, <3>4 DEF CallType
  <2>2. ASSUME NEW d \in Callers
        PROVE  /\ Left(d) \in CallType /\ Left(d).attempt = call[d].attempt
               /\ Left(d).try = call[d].try /\ Left(d).requests = call[d].requests
               /\ Left(d).counted = call[d].counted /\ Left(d).last = call[d].last
               /\ Left(d).alone = (call[d].alone /\ d \notin Busy)
               /\ Left(d).id = call[d].id
    BY <1>0 DEF CallType
  <2>3. /\ phase'[c] = "posting" /\ call'[c] = n
        /\ \A d \in Callers : d # c => phase'[d] = phase[d] /\ call'[d] = Left(d)
        /\ phase' \in [Callers -> Phases] /\ call' \in [Callers -> CallType]
    BY <1>0, <1>2, <2>1, <2>2 DEF Phases
  <2>4. \A d \in Callers : phase[d] = "idle" => Left(d) = NoCall
    <3> SUFFICES ASSUME NEW d \in Callers, phase[d] = "idle" PROVE Left(d) = NoCall
      OBVIOUS
    <3>1. call[d] = NoCall /\ d \notin Busy
      BY DEF CallInv, BoundInv, CallIsBounded, Busy
    <3>2. (call[d].alone /\ d \notin Busy) = TRUE
      BY <3>1 DEF NoCall
    <3>3. Left(d) = [NoCall EXCEPT !.alone = TRUE]
      BY <3>1, <3>2
    <3>4. NoCall.alone = TRUE /\ NoCall = [f \in DOMAIN NoCall |-> NoCall[f]]
      BY DEF NoCall
    <3> QED BY <3>3, <3>4
  <2> HIDE DEF Left, n
  <2>5. BoundInv'
    <3> SUFFICES ASSUME NEW d \in Callers PROVE CallIsBounded(d)'
      BY DEF BoundInv
    <3>1. CASE d = c
      BY <1>0, <2>1, <2>3, <3>1 DEF CallIsBounded, Ended, Tries
    <3>2. CASE d # c
      <4>1. CallIsBounded(d)
        BY DEF CallInv, BoundInv
      <4> QED BY <2>2, <2>3, <2>4, <3>2, <4>1
              DEF CallIsBounded, Earned, Contract!Earned
    <3> QED BY <3>1, <3>2
  <2>6. RecordInv'
    <3>1. \A d \in Callers : phase'[d] # "idle" /\ call'[d].alone => d = c
      BY <2>2, <2>3 DEF Busy
    <3>2. call'[c].alone => \A e \in Callers : phase'[e] # "idle" => e = c
      BY <2>1, <2>3 DEF Busy
    <3>3. \A d \in Callers : /\ phase'[d] = "saving" => phase[d] = "saving"
                             /\ phase'[d] = "savingOutputs" => phase[d] = "savingOutputs"
      BY <2>3
    <3>4. phase'[c] \notin {"loadingOutputs", "savingOutputs", "idle"}
      BY <2>3
    <3>5. \A t \in told' : t.alone /\ t.kind # "escaped" =>
          /\ Told(t) \in calls' /\ t.id \in outputs'
          /\ \A d \in Callers : /\ phase'[d] = "saving" => Told(t) \in seen'[d]
                                /\ phase'[d] = "savingOutputs" => t.id \in seen'[d]
      BY <1>0, <3>3 DEF CallInv, RecordInv, store
    <3> QED BY <3>1, <3>2, <3>4, <3>5 DEF RecordInv, Told, CallRecord
  <2>7. answer' \in [Callers -> Contract!Kinds \cup {"none", "declined", "escaped"}]
    BY <1>2 DEF CallInv, Types
  <2>8. made' \in 0..MaxCalls
    BY <1>0, <1>2 DEF CallInv, Types, CallAssumption
  <2>9. CallInv'
    BY <1>0, <2>3, <2>5, <2>6, <2>7, <2>8 DEF CallInv, Types, store
  <2> QED BY <1>0, <1>2, <2>1, <2>2, <2>3, <2>9
<1> QED BY <1>1, <1>2 DEF Ask

LEMMA CrashKeeps ==
    ASSUME CallAssumption, CallInv, Crash
    PROVE  /\ CallInv' /\ phase' = [c \in Callers |-> "idle"]
           /\ call' = [c \in Callers |-> NoCall]
           /\ answer' = [c \in Callers |-> "none"]
<1>0. /\ phase' = [c \in Callers |-> "idle"] /\ call' = [c \in Callers |-> NoCall]
      /\ seen' = [c \in Callers |-> {}] /\ answer' = [c \in Callers |-> "none"]
      /\ UNCHANGED <<store, told, made>> /\ crashes' = crashes + 1
      /\ crashes < MaxCrashes /\ NoCall \in CallType /\ MaxRetries \in Nat
  BY NoCallType DEF Crash, CallAssumption
<1>1. \A c \in Callers : phase'[c] = "idle" /\ call'[c] = NoCall
  BY <1>0
<1>2. BoundInv'
  BY <1>0, <1>1 DEF BoundInv, CallIsBounded, NoCall, Ended, Tries
<1>3. RecordInv'
  BY <1>0, <1>1 DEF CallInv, RecordInv, store, CallRecord, Told
<1>4. crashes' \in 0..MaxCrashes
  BY <1>0 DEF CallInv, Types, CallAssumption
<1> QED BY <1>0, <1>2, <1>3, <1>4 DEF CallInv, Types, store, Phases

LEMMA CallNext ==
    ASSUME CallAssumption, CallInv, [Next]_vars
    PROVE  CallInv'
<1>1. CASE UNCHANGED vars
  <2>1. BoundInv' /\ RecordInv'
    BY <1>1 DEF CallInv, BoundInv, CallIsBounded, RecordInv, vars, store, Earned,
                Contract!Earned, CallRecord, Told
  <2> QED BY <1>1, <2>1 DEF CallInv, Types, vars, store
<1>2. ASSUME NEW c \in Callers, Ask(c) \/ CallStep(c) PROVE CallInv'
  BY <1>2, AskKeeps, PostKeeps, MockKeeps, LoadKeeps, SaveCallsKeeps, SaveOutputsKeeps
     DEF CallStep
<1> QED BY <1>1, <1>2, CrashKeeps DEF Next

LEMMA CallAlways == ASSUME CallAssumption PROVE Spec => []CallInv
<1>1. Init => CallInv
  BY CallInit
<1>2. CallInv /\ [Next]_vars => CallInv'
  BY CallNext
<1> QED BY <1>1, <1>2, PTL DEF Spec

-----------------------------------------------------------------------------
(* A call that nobody overlapped stays on record as its caller was told,   *)
(* for any number of callers, retries and crashes (append_call and         *)
(* append_output of llm/client.py).                                        *)
THEOREM AnswersStayRecorded ==
    ASSUME CallAssumption PROVE Spec => []AnswersAreRecorded
<1>1. ASSUME CallInv PROVE AnswersAreRecorded
  <2>1. TypeOK
    <3>1. ASSUME NEW c \in Callers
          PROVE  /\ call[c].attempt \in 0..2 /\ call[c].try \in 0..(MaxRetries + 1)
                 /\ call[c].requests <= 2 * (MaxRetries + 1)
                 /\ call[c].counted <= call[c].requests
      BY <1>1 DEF CallInv, Types, BoundInv, CallIsBounded, CallType, Tries
    <3> QED BY <1>1, <3>1 DEF TypeOK, CallInv, Types, Phases, Ended
  <2>2. ASSUME NEW t \in told, t.alone, t.kind # "escaped"
        PROVE  /\ \E r \in calls : r.id = t.id /\ r.failed = (t.kind # "output")
               /\ t.id \in outputs
    BY <1>1, <2>2 DEF CallInv, RecordInv, Told
  <2> QED BY <2>1, <2>2 DEF AnswersAreRecorded
<1> QED BY <1>1, CallAlways, PTL

-----------------------------------------------------------------------------
(* The refinement: each step of the client is a step of the contract. *)

(* After a truncation nothing is posted: an attempt that is not over has   *)
(* not seen one.                                                           *)
LEMMA NothingPostedAfterTruncation ==
    ASSUME CallAssumption, CallInv, [Next]_vars, NEW c \in Callers,
           call[c].last = "truncated"
    PROVE  call'[c].requests <= call[c].requests
<1>0. /\ call[c].requests \in Nat /\ NoCall.requests = 0 /\ NoCall.last = "none"
      /\ phase[c] # "posting" /\ phase[c] # "idle"
  <2>1. NoCall.requests = 0 /\ NoCall.last = "none"
    BY DEF NoCall
  <2> QED BY <2>1 DEF CallInv, Types, CallType, BoundInv, CallIsBounded, Retryable
<1>1. CASE UNCHANGED vars
  BY <1>0, <1>1 DEF vars
<1>2. CASE Crash
  BY <1>0, <1>2, CrashKeeps
<1>3. ASSUME NEW d \in Callers, Ask(d) PROVE call'[c].requests <= call[c].requests
  BY <1>0, <1>3, AskKeeps
<1>4. ASSUME NEW d \in Callers, CallStep(d) PROVE call'[c].requests <= call[c].requests
  <2>1. CASE Post(d) \/ NotReady(d)
    <3>1. phase[d] = "posting"
      BY <2>1 DEF Post, NotReady
    <3>2. c # d
      BY <1>0, <3>1
    <3>3. \A e \in Callers : e # d => call'[e] = call[e]
      BY <2>1, PostKeeps
    <3> QED BY <1>0, <3>2, <3>3
  <2>2. CASE Mock(d)
    BY <1>0, <2>2, MockKeeps
  <2>3. CASE LoadCalls(d) \/ LoadOutputs(d) \/ SaveCalls(d)
    BY <1>0, <2>3 DEF LoadCalls, LoadOutputs, SaveCalls
  <2>4. CASE SaveOutputs(d)
    BY <1>0, <2>4, SaveOutputsKeeps DEF CallInv, Types
  <2> QED BY <1>4, <2>1, <2>2, <2>3, <2>4 DEF CallStep
<1> QED BY <1>1, <1>2, <1>3, <1>4 DEF Next

(* Where a caller is in the contract, and how a step there shows. *)
Asking(p) == IF p = "idle" THEN "no"
             ELSE IF p \in {"loadingOutputs", "savingOutputs"} THEN "recorded" ELSE "yes"

LEMMA StepOfOneCaller ==
    ASSUME NEW c \in Callers,
           \A d \in Callers : d # c => /\ phase'[d] = phase[d]
                                       /\ call'[d].requests = call[d].requests
    PROVE  LET asked == [d \in Callers |->
                  IF phase[d] = "idle" THEN "no"
                  ELSE IF phase[d] \in {"loadingOutputs", "savingOutputs"}
                  THEN "recorded" ELSE "yes"]
               sent == [d \in Callers |-> call[d].requests] IN
           /\ asked[c] = Asking(phase[c]) /\ sent[c] = call[c].requests
           /\ asked' = [asked EXCEPT ![c] = Asking(phase'[c])]
           /\ sent' = [sent EXCEPT ![c] = call'[c].requests]
BY DEF Asking

LEMMA StepIsPromised ==
    ASSUME CallAssumption, CallInv, [Next]_vars
    PROVE  [Contract!ContractNext]_(Contract!contractVars)
<1>1. CASE UNCHANGED vars
  BY <1>1 DEF vars, Contract!contractVars
<1>2. CASE Crash
  <2>1. Contract!CallsAreCut
    BY <1>2, CrashKeeps DEF Contract!CallsAreCut, NoCall
  <2> QED BY <2>1 DEF Contract!ContractNext
<1>3. ASSUME NEW c \in Callers, Ask(c) PROVE Contract!CallAsks(c)
  <2>1. /\ phase[c] = "idle" /\ call[c].requests = 0 /\ Asking(phase[c]) = "no"
    BY <1>3, AskKeeps DEF NoCall, Asking
  <2>2. \A d \in Callers : d # c => /\ phase'[d] = phase[d]
                                   /\ call'[d].requests = call[d].requests
    BY <1>3, AskKeeps
  <2>3. CASE /\ phase'[c] = "posting" /\ call'[c].requests = 0
             /\ answer' = [answer EXCEPT ![c] = "none"]
    <3>1. Asking(phase'[c]) = "yes"
      BY <2>3 DEF Asking
    <3>2. \A d \in Callers : call'[d].requests = call[d].requests
      BY <2>1, <2>2, <2>3
    <3>3. UNCHANGED [d \in Callers |-> call[d].requests]
      BY <3>2
    <3> QED BY <2>1, <2>2, <2>3, <3>1, <3>3, StepOfOneCaller DEF Contract!CallAsks
  <2>4. CASE /\ UNCHANGED <<phase, call>>
             /\ answer' = [answer EXCEPT ![c] = "declined"]
    BY <2>1, <2>4, StepOfOneCaller DEF Contract!CallAsks
  <2> QED BY <1>3, <2>3, <2>4, AskKeeps
<1>4. ASSUME NEW c \in Callers, Post(c) \/ NotReady(c)
      PROVE  Contract!CallRequests(c) \/ UNCHANGED Contract!contractVars
  <2>1. /\ phase[c] = "posting" /\ UNCHANGED answer /\ call[c].requests \in Nat
        /\ phase'[c] \in {"posting", "mocking", "loading"}
        /\ call'[c].requests \in {call[c].requests, call[c].requests + 1}
        /\ \A d \in Callers : d # c => call'[d] = call[d] /\ phase'[d] = phase[d]
    BY <1>4, PostKeeps DEF Post, NotReady, CallInv, Types, CallType
  <2>2. call'[c].requests <= 2 * Contract!Tries
    BY <1>4, PostKeeps DEF CallInv, BoundInv, CallIsBounded, Tries, Contract!Tries
  <2>3. Asking(phase[c]) = "yes" /\ Asking(phase'[c]) = "yes"
    BY <2>1 DEF Asking
  <2>4. Contract!Tries \in Nat
    BY DEF Contract!Tries, CallAssumption
  <2>5. CASE call'[c].requests = call[c].requests + 1
    <3>1. call[c].requests < 2 * Contract!Tries
      BY <2>1, <2>2, <2>4, <2>5
    <3>2. \A d \in Callers : d # c => /\ phase'[d] = phase[d]
                                     /\ call'[d].requests = call[d].requests
      BY <2>1
    <3>3. Contract!CallRequests(c)
      BY <2>1, <2>3, <2>5, <3>1, <3>2, StepOfOneCaller DEF Contract!CallRequests
    <3> QED BY <3>3
  <2>6. CASE call'[c].requests = call[c].requests
    BY <2>1, <2>3, <2>6, StepOfOneCaller DEF Contract!contractVars
  <2> QED BY <2>1, <2>5, <2>6
<1>5. ASSUME NEW c \in Callers, Mock(c)
      PROVE  Contract!CallEscapes(c) \/ UNCHANGED Contract!contractVars
  <2>1. phase[c] = "mocking" /\ Asking(phase[c]) = "yes"
    BY <1>5 DEF Mock, Asking
  <2>2. /\ c \in Fallback
        /\ \A d \in Callers : d # c => /\ phase'[d] = phase[d]
                                      /\ call'[d].requests = call[d].requests
    BY <1>5, MockKeeps
  <2>3. CASE /\ phase'[c] = "loading" /\ call'[c].requests = call[c].requests
             /\ UNCHANGED answer
    <3>1. Asking(phase'[c]) = "yes"
      BY <2>3 DEF Asking
    <3> QED BY <2>1, <2>2, <2>3, <3>1, StepOfOneCaller DEF Contract!contractVars
  <2>4. CASE /\ phase'[c] = "idle" /\ call'[c] = NoCall
             /\ answer' = [answer EXCEPT ![c] = "escaped"]
    <3>1. Asking(phase'[c]) = "no" /\ call'[c].requests = 0
      BY <2>4 DEF Asking, NoCall
    <3> QED BY <2>1, <2>2, <2>4, <3>1, StepOfOneCaller DEF Contract!CallEscapes
  <2> QED BY <1>5, <2>3, <2>4, MockKeeps
<1>6. ASSUME NEW c \in Callers, LoadCalls(c) \/ LoadOutputs(c)
      PROVE  UNCHANGED Contract!contractVars
  BY <1>6, LoadKeeps, StepOfOneCaller DEF Contract!contractVars, Asking
<1>7. ASSUME NEW c \in Callers, SaveCalls(c) PROVE Contract!CallIsRecorded(c)
  <2>1. phase'[c] = "loadingOutputs" /\ \A d \in Callers : d # c => phase'[d] = phase[d]
    BY <1>7, SaveCallsKeeps DEF CallInv, Types
  <2> QED BY <1>7, <2>1, SaveCallsKeeps, StepOfOneCaller DEF Contract!CallIsRecorded, Asking
<1>8. ASSUME NEW c \in Callers, SaveOutputs(c) PROVE Contract!CallAnswers(c)
  <2>1. /\ phase'[c] = "idle" /\ call'[c].requests = 0
        /\ \A d \in Callers : d # c => phase'[d] = phase[d] /\ call'[d] = call[d]
    BY <1>8, SaveOutputsKeeps DEF CallInv, Types, NoCall
  <2>2. Asking(phase[c]) = "recorded" /\ Asking(phase'[c]) = "no"
    BY <1>8, <2>1, SaveOutputsKeeps DEF Asking
  <2>3. /\ Contract!Earned(c, Named(call[c].last), call[c].requests)
        /\ Named(call[c].last) \in Contract!Kinds
        /\ answer' = [answer EXCEPT ![c] = Named(call[c].last)]
    BY <1>8, SaveOutputsKeeps DEF Earned
  <2> QED BY <2>1, <2>2, <2>3, StepOfOneCaller DEF Contract!CallAnswers
<1> QED BY <1>1, <1>2, <1>3, <1>4, <1>5, <1>6, <1>7, <1>8
        DEF Next, CallStep, Contract!ContractNext

(* The client is what the agents take it for: bounded, recorded before it  *)
(* answers and truthful about why it failed, and it pays for nothing more  *)
(* after a truncation (generate_structured of llm/client.py).              *)
THEOREM ClientKeepsItsContract ==
    ASSUME CallAssumption PROVE Spec => ImplementsContract
<1>1. Init => Contract!ContractInit
  BY DEF Init, Contract!ContractInit, NoCall
<1>2. CallInv /\ [Next]_vars => [Contract!ContractNext]_(Contract!contractVars)
  BY StepIsPromised
<1>3. CallInv /\ [Next]_vars =>
        [\A c \in Callers : call[c].last = "truncated"
            => call'[c].requests <= call[c].requests]_vars
  BY NothingPostedAfterTruncation
<1> QED BY <1>1, <1>2, <1>3, CallAlways, PTL
        DEF Spec, ImplementsContract, Contract!ContractSpec, TruncationEndsTheCall
=============================================================================
