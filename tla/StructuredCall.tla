---------------------------- MODULE StructuredCall ----------------------------
(***************************************************************************)
(* generate_structured of the LLM client (llm/client.py) over the HTTP     *)
(* providers (llm/provider.py) and the JSON parser (structured_output.py). *)
(*                                                                         *)
(* A call makes one structured attempt, and a second one when the first    *)
(* ended in an answer that could be repaired.  An attempt posts until the  *)
(* transport gives an answer or the retries are used up.  With the         *)
(* fallback the deterministic mock then answers.  Whatever came out is     *)
(* appended to the calls and the outputs of the task, each by loading and  *)
(* saving the whole list without a lock, and only then the caller is told. *)
(* What the provider answers, and whether an answer validates, is a        *)
(* choice.                                                                 *)
(***************************************************************************)
EXTENDS Naturals, FiniteSets

CONSTANTS
    Callers,           \* the threads that call the client
    MaxRetries,        \* LLMConfig.max_retries
    Fallback,          \* callers whose mode is LLM_WITH_FALLBACK
    ChatCompletions,   \* config.api_style: only this one tells a truncation
    MaxCalls,          \* bound: calls of all callers
    MaxCrashes         \* bound: how often the process may die

(* What the constants have to be; the instance is assumed to keep it. *)
CallAssumption ==
    /\ MaxRetries \in Nat
    /\ Fallback \subseteq Callers /\ ChatCompletions \in BOOLEAN
    /\ {MaxCalls, MaxCrashes} \subseteq Nat

VARIABLES
    phase,            \* where generate_structured is, per caller
    call,             \* its local variables
    seen,             \* the list that append_call or append_output has loaded
    calls, outputs,   \* llm_calls and llm_outputs
    answer,           \* what a caller was told last
    told,             \* history: every call that was answered
    made, crashes

store == <<calls, outputs>>
vars == <<phase, call, seen, store, answer, told, made, crashes>>

(* What comes of one request or attempt: no answer, an answer that is not  *)
(* one of the protocol or refuses, one that hit the output limit, text     *)
(* that is not one JSON object, an object that does not validate, or one   *)
(* that does.  "unready" is a configuration that may not call at all.      *)
Answers == {"transient", "refused", "malformed", "invalid", "valid"}
             \cup (IF ChatCompletions THEN {"truncated"} ELSE {})

(* _is_structured_retryable *)
Retryable == {"malformed", "invalid"}

NoCall == [id |-> <<>>, attempt |-> 0, try |-> 0, last |-> "none", requests |-> 0,
           counted |-> 0, mocked |-> FALSE, alone |-> TRUE]
NewCall(c) == [NoCall EXCEPT !.id = <<c, made>>, !.attempt = 1, !.try = 1]

Busy == {c \in Callers : phase[c] # "idle"}

Init ==
    /\ phase = [c \in Callers |-> "idle"]
    /\ call = [c \in Callers |-> NoCall]
    /\ seen = [c \in Callers |-> {}]
    /\ calls = {} /\ outputs = {}
    /\ answer = [c \in Callers |-> "none"]
    /\ told = {} /\ made = 0 /\ crashes = 0

-----------------------------------------------------------------------------
(* generate_structured, up to the request.  An analyst's stage that is     *)
(* given an artifact or a field it may not see is declined.                *)
Ask(c) ==
    /\ phase[c] = "idle"
    /\ \/ /\ made < MaxCalls /\ made' = made + 1
          /\ phase' = [phase EXCEPT ![c] = "posting"]
          /\ call' = [d \in Callers |->
                         IF d = c THEN [NewCall(c) EXCEPT !.alone = (Busy = {})]
                         ELSE [call[d] EXCEPT !.alone = @ /\ d \notin Busy]]
          /\ answer' = [answer EXCEPT ![c] = "none"]
       \/ /\ answer' = [answer EXCEPT ![c] = "declined"]
          /\ UNCHANGED <<phase, call, made>>
    /\ UNCHANGED <<seen, store, told, crashes>>

(* A parsed object comes with the tries that were made for it; a failure   *)
(* before that does not.                                                   *)
Counted(k, a) == IF a \in {"valid", "invalid"} THEN k.counted + k.try ELSE k.counted

(* The attempt has ended: the call goes to its second attempt, to the      *)
(* mock, or to its record.                                                 *)
AttemptEnds(c, k, a) ==
    LET again == k.attempt = 1 /\ a \in Retryable
        ended == [k EXCEPT !.last = a, !.counted = Counted(k, a)] IN
    /\ call' = [call EXCEPT ![c] = IF again THEN [ended EXCEPT !.attempt = 2, !.try = 1]
                                   ELSE ended]
    /\ phase' = [phase EXCEPT ![c] =
                    IF again THEN "posting"
                    ELSE IF a # "valid" /\ c \in Fallback THEN "mocking"
                    ELSE "loading"]

\* Fault: the last retry is not made.
RetryIsLeftFaulty(k) == k.try < MaxRetries

(* _post_with_retry *)
RetryIsLeft(k) == k.try <= MaxRetries

Post(c) ==
    /\ phase[c] = "posting"
    /\ LET k == [call[c] EXCEPT !.requests = @ + 1] IN
       \E a \in Answers :
          IF a = "transient" /\ RetryIsLeft(k)
          THEN /\ call' = [call EXCEPT ![c] = [k EXCEPT !.try = @ + 1]]
               /\ UNCHANGED phase
          ELSE AttemptEnds(c, k, a)
    /\ UNCHANGED <<seen, store, answer, told, made, crashes>>

(* real_call_readiness_errors, asked before every attempt. *)
NotReady(c) ==
    /\ phase[c] = "posting" /\ call[c].try = 1
    /\ AttemptEnds(c, call[c], "unready")
    /\ UNCHANGED <<seen, store, answer, told, made, crashes>>

-----------------------------------------------------------------------------
(* The answer. *)

(* The exception the caller gets.  That of a transport error carries its   *)
(* name in the message, which the coordinator looks for.                   *)
Named(a) ==
    CASE a = "valid" -> "output"
      [] a = "truncated" -> "truncated"
      [] a \in {"malformed", "invalid"} -> "structured"
      [] a = "transient" -> "transient"
      [] OTHER -> "error"

Tells(c, kind) ==
    /\ phase' = [phase EXCEPT ![c] = "idle"]
    /\ call' = [call EXCEPT ![c] = NoCall]
    /\ answer' = [answer EXCEPT ![c] = kind]
    /\ told' = told \cup {[id |-> call[c].id, kind |-> kind, alone |-> call[c].alone]}

(* The forced mock attempt is outside of every handler: when its output    *)
(* does not validate, its failure leaves the client as it is.              *)
Mock(c) ==
    /\ phase[c] = "mocking"
    /\ \/ /\ call' = [call EXCEPT ![c].last = "valid", ![c].mocked = TRUE]
          /\ phase' = [phase EXCEPT ![c] = "loading"]
          /\ UNCHANGED <<answer, told>>
       \/ Tells(c, "escaped")
    /\ UNCHANGED <<seen, store, made, crashes>>

(* append_call: load, append, save. *)
CallRecord(k) == [id |-> k.id, failed |-> k.last # "valid"]

LoadCalls(c) ==
    /\ phase[c] = "loading" /\ phase' = [phase EXCEPT ![c] = "saving"]
    /\ seen' = [seen EXCEPT ![c] = calls]
    /\ UNCHANGED <<call, store, answer, told, made, crashes>>

\* Fault: the list is written anew.
AppendedFaulty(c) == {CallRecord(call[c])}

Appended(c) == seen[c] \cup {CallRecord(call[c])}

SaveCalls(c) ==
    /\ phase[c] = "saving" /\ phase' = [phase EXCEPT ![c] = "loadingOutputs"]
    /\ calls' = Appended(c)
    /\ seen' = [seen EXCEPT ![c] = {}]
    /\ UNCHANGED <<call, outputs, answer, told, made, crashes>>

(* append_output, after it. *)
LoadOutputs(c) ==
    /\ phase[c] = "loadingOutputs" /\ phase' = [phase EXCEPT ![c] = "savingOutputs"]
    /\ seen' = [seen EXCEPT ![c] = outputs]
    /\ UNCHANGED <<call, store, answer, told, made, crashes>>

SaveOutputs(c) ==
    /\ phase[c] = "savingOutputs"
    /\ outputs' = seen[c] \cup {call[c].id}
    /\ seen' = [seen EXCEPT ![c] = {}]
    /\ Tells(c, Named(call[c].last))
    /\ UNCHANGED <<calls, made, crashes>>

(* The process dies with everything that is not saved. *)
Crash ==
    /\ crashes < MaxCrashes /\ crashes' = crashes + 1
    /\ Busy # {}
    /\ phase' = [c \in Callers |-> "idle"]
    /\ call' = [c \in Callers |-> NoCall]
    /\ seen' = [c \in Callers |-> {}]
    /\ answer' = [c \in Callers |-> "none"]
    /\ UNCHANGED <<store, told, made>>

-----------------------------------------------------------------------------
CallStep(c) ==
    \/ Post(c) \/ NotReady(c) \/ Mock(c)
    \/ LoadCalls(c) \/ SaveCalls(c) \/ LoadOutputs(c) \/ SaveOutputs(c)

Next == (\E c \in Callers : Ask(c) \/ CallStep(c)) \/ Crash

Spec == Init /\ [][Next]_vars

-----------------------------------------------------------------------------
(* Properties. *)

(* Every variable has its type, and no call goes beyond two attempts of    *)
(* one post and its retries.                                               *)
TypeOK ==
    /\ phase \in [Callers -> {"idle", "posting", "mocking", "loading", "saving",
                              "loadingOutputs", "savingOutputs"}]
    /\ \A c \in Callers :
          /\ call[c].attempt \in 0..2 /\ call[c].try \in 0..(MaxRetries + 1)
          /\ call[c].requests <= 2 * (MaxRetries + 1)
          /\ call[c].counted <= call[c].requests
    /\ made \in 0..MaxCalls /\ crashes \in 0..MaxCrashes

(* A call that no other call of the task overlapped is on record for good, *)
(* with its output and with the outcome the caller was told, also when it  *)
(* failed and whatever calls and crashes come after it.                    *)
AnswersAreRecorded ==
    /\ TypeOK
    /\ \A t \in told : t.alone /\ t.kind # "escaped" =>
          /\ \E r \in calls : r.id = t.id /\ r.failed = (t.kind # "output")
          /\ t.id \in outputs

(* After an answer that hit the output limit the call pays for no other    *)
(* one: a second attempt is for answers that could be repaired             *)
(* (_is_structured_retryable); the analyst asks again with a new call.     *)
TruncationEndsTheCall ==
    [][\A c \in Callers :
          call[c].last = "truncated" => call'[c].requests <= call[c].requests]_vars

Contract == INSTANCE LLMContract WITH
    asking <- [c \in Callers |->
                  IF phase[c] = "idle" THEN "no"
                  ELSE IF phase[c] \in {"loadingOutputs", "savingOutputs"}
                  THEN "recorded" ELSE "yes"],
    requests <- [c \in Callers |-> call[c].requests]

(* The client is what the agents take it for: bounded, recorded before it  *)
(* answers, and truthful about why it failed; and no truncation is paid    *)
(* for twice in one call.                                                  *)
ImplementsContract == Contract!ContractSpec /\ TruncationEndsTheCall
=============================================================================
