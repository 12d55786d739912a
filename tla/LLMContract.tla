----------------------------- MODULE LLMContract -----------------------------
(***************************************************************************)
(* What a call of the LLM client (llm/client.py, generate_structured)      *)
(* promises to the agents: it sends a bounded number of requests, what it  *)
(* did is recorded before the caller hears of it, and a failure is named   *)
(* for what it was, because the callers act on the name: the analyst asks  *)
(* again after a truncation, the coordinator gives a task back after a     *)
(* transport error.  StructuredCall implements this module.                *)
(***************************************************************************)
EXTENDS Naturals

CONSTANTS
    Callers,      \* the threads that call the client
    MaxRetries,   \* LLMConfig.max_retries
    Fallback      \* callers whose LLMMode is LLM_WITH_FALLBACK

(* What the constants have to be; the instance is assumed to keep it. *)
ContractAssumption == MaxRetries \in Nat /\ Fallback \subseteq Callers

VARIABLES
    asking,      \* of a caller: "no", "yes", or "recorded"
    requests,    \* requests sent for its call
    answer       \* what it was told last

contractVars == <<asking, requests, answer>>

\* One attempt may need every retry, and there are two of them.
Tries == MaxRetries + 1
Kinds == {"output", "truncated", "structured", "transient", "error"}

ContractInit ==
    /\ asking = [c \in Callers |-> "no"]
    /\ requests = [c \in Callers |-> 0]
    /\ answer = [c \in Callers |-> "none"]

(* What may not be sent at all is declined at once. *)
CallAsks(c) ==
    /\ asking[c] = "no"
    /\ \/ /\ asking' = [asking EXCEPT ![c] = "yes"]
          /\ answer' = [answer EXCEPT ![c] = "none"]
       \/ /\ answer' = [answer EXCEPT ![c] = "declined"]
          /\ UNCHANGED asking
    /\ UNCHANGED requests

CallRequests(c) ==
    /\ asking[c] = "yes"
    /\ requests[c] < 2 * Tries
    /\ requests' = [requests EXCEPT ![c] = @ + 1]
    /\ UNCHANGED <<asking, answer>>

CallIsRecorded(c) ==
    /\ asking[c] = "yes"
    /\ asking' = [asking EXCEPT ![c] = "recorded"]
    /\ UNCHANGED <<requests, answer>>

(* A transport error is only reported when every retry was used, and what  *)
(* the provider answered only when it answered.                            *)
Earned(c, kind, n) ==
    /\ kind = "transient" => n >= Tries
    /\ kind = "truncated" => n \in 1..(2 * Tries)
    /\ kind = "structured" => n >= 1
    /\ kind = "output" => n >= 1 \/ c \in Fallback

CallAnswers(c) ==
    /\ asking[c] = "recorded"
    /\ \E kind \in Kinds :
          /\ Earned(c, kind, requests[c])
          /\ answer' = [answer EXCEPT ![c] = kind]
    /\ asking' = [asking EXCEPT ![c] = "no"]
    /\ requests' = [requests EXCEPT ![c] = 0]

(* With the fallback a call can fail without a trace. *)
CallEscapes(c) ==
    /\ c \in Fallback /\ asking[c] = "yes"
    /\ asking' = [asking EXCEPT ![c] = "no"]
    /\ answer' = [answer EXCEPT ![c] = "escaped"]
    /\ requests' = [requests EXCEPT ![c] = 0]

(* The process dies with every call in it. *)
CallsAreCut ==
    /\ asking' = [c \in Callers |-> "no"]
    /\ answer' = [c \in Callers |-> "none"]
    /\ requests' = [c \in Callers |-> 0]

ContractNext ==
    \/ \E c \in Callers : \/ CallAsks(c) \/ CallRequests(c) \/ CallIsRecorded(c)
                          \/ CallAnswers(c) \/ CallEscapes(c)
    \/ CallsAreCut

ContractSpec == ContractInit /\ [][ContractNext]_contractVars
=============================================================================
