------------------------------- MODULE ArtifactStore -------------------------------
(***************************************************************************)
(* The artifact store under the threads that use it (harness/artifacts.py),*)
(* and the two lists of the store that are written in different ways: a    *)
(* log, to which append_many adds (pipeline events, handoffs, research     *)
(* events), and the tool calls, of which every TraceRecorder keeps a list  *)
(* of its own and saves it whole (workflow/trace.py, tools/registry.py).   *)
(*                                                                         *)
(* A file is written under one lock to a temporary file that then replaces *)
(* it; the replacement may be denied, and the process may be killed at any *)
(* step.                                                                   *)
(***************************************************************************)
EXTENDS Naturals, Sequences, FiniteSets, SequencesExt

CONSTANTS
    Threads,
    Registered,      \* the tools a ToolRegistry has
    Retries,         \* 5 more attempts to replace a file
    MaxOperations,   \* bound: operations of all threads
    MaxCrashes       \* bound: kills of the process

None == "none"

(* What the constants have to be; the instance is assumed to keep it. *)
StoreAssumption ==
    Retries \in Nat /\ MaxOperations \in Nat /\ MaxCrashes \in Nat /\ None \notin Threads

VARIABLES
    files,      \* the two files
    lock,       \* _ARTIFACT_IO_LOCK
    thread,     \* what every thread is doing, and the list of its recorder
    returned,   \* the items whose append has returned
    operations, crashes

vars == <<files, lock, thread, returned, operations, crashes>>

Idle == [at |-> "idle", file |-> None, items |-> <<>>, payload |-> <<>>, denied |-> 0, list |-> <<>>]

Init ==
    /\ files = [log |-> <<>>, calls |-> <<>>]
    /\ lock = None
    /\ thread = [t \in Threads |-> Idle]
    /\ returned = {}
    /\ operations = 0 /\ crashes = 0

-----------------------------------------------------------------------------
(* What a thread sets out to do. *)

Begins(t) ==
    /\ thread[t].at = "idle" /\ operations < MaxOperations
    /\ operations' = operations + 1

BeginAppend(t) ==
    /\ Begins(t)
    /\ thread' = [thread EXCEPT ![t].at = "wait", ![t].file = "log",
                                ![t].items = <<<<t, operations>>>>]
    /\ UNCHANGED <<files, lock, returned, crashes>>

(* A recorder is made with the tool calls there are. *)
NewRecorder(t) ==
    /\ thread[t].at = "idle" /\ lock = None
    /\ thread' = [thread EXCEPT ![t].list = files.calls]
    /\ UNCHANGED <<files, lock, returned, operations, crashes>>

(* ToolRegistry.call of a registered tool, which ends in either way; a     *)
(* tool that is not registered raises before anything is recorded.         *)
CallTool(t) ==
    /\ Begins(t)
    /\ \E tool \in Registered, ends \in {"completed", "failed"} :
          thread' = [thread EXCEPT ![t].at = "wait", ![t].file = "calls",
                        ![t].list = Append(@, [by |-> t, number |-> operations, tool |-> tool, status |-> ends])]
    /\ UNCHANGED <<files, lock, returned, crashes>>

-----------------------------------------------------------------------------
(* append_many and save_many. *)

\* Fault: append_many and save_many do not take the lock.
AcquireFaulty(t) ==
    /\ thread[t].at = "wait"
    /\ lock' = t
    /\ thread' = [thread EXCEPT ![t].at = "locked"]
    /\ UNCHANGED <<files, returned, operations, crashes>>

Acquire(t) ==
    /\ thread[t].at = "wait" /\ lock = None
    /\ lock' = t
    /\ thread' = [thread EXCEPT ![t].at = "locked"]
    /\ UNCHANGED <<files, returned, operations, crashes>>

(* append_many reads the file now; a recorder's list is what it is. *)
Payload(t) ==
    IF thread[t].file = "log" THEN files.log \o thread[t].items ELSE thread[t].list

WriteTemporary(t) ==
    /\ thread[t].at = "locked"
    /\ thread' = [thread EXCEPT ![t].at = "written", ![t].payload = Payload(t)]
    /\ UNCHANGED <<files, lock, returned, operations, crashes>>

Replace(t) ==
    /\ thread[t].at = "written"
    /\ files' = [files EXCEPT ![thread[t].file] = thread[t].payload]
    /\ thread' = [thread EXCEPT ![t].at = "replaced"]
    /\ UNCHANGED <<lock, returned, operations, crashes>>

(* The replacement is denied.  What Windows denies is tried again, under   *)
(* the lock; the last denial, and any other, raises and leaves the         *)
(* temporary file behind.                                                  *)
Denied(t) ==
    /\ thread[t].at = "written"
    /\ \/ /\ thread[t].denied < Retries
          /\ thread' = [thread EXCEPT ![t].denied = @ + 1]
          /\ UNCHANGED lock
       \/ /\ thread' = [thread EXCEPT ![t] = [Idle EXCEPT !.list = thread[t].list]]
          /\ lock' = None
    /\ UNCHANGED <<files, returned, operations, crashes>>

Return(t) ==
    /\ thread[t].at = "replaced"
    /\ thread' = [thread EXCEPT ![t] = [Idle EXCEPT !.list = thread[t].list]]
    /\ lock' = None
    /\ returned' = returned \cup ToSet(thread[t].items)
    /\ UNCHANGED <<files, operations, crashes>>

Crash ==
    /\ crashes < MaxCrashes
    /\ crashes' = crashes + 1
    /\ thread' = [t \in Threads |-> Idle]
    /\ lock' = None
    /\ UNCHANGED <<files, returned, operations>>

Next ==
    \/ \E t \in Threads :
          \/ BeginAppend(t) \/ NewRecorder(t) \/ CallTool(t)
          \/ Acquire(t) \/ WriteTemporary(t) \/ Replace(t) \/ Denied(t) \/ Return(t)
    \/ Crash

Spec == Init /\ [][Next]_vars

-----------------------------------------------------------------------------

Doing(t, file) == thread[t].at # "idle" /\ thread[t].file = file

(* What append_many has added stays, once, whatever other threads append   *)
(* or save, whatever is denied and whenever the process is killed; an      *)
(* append that has not returned is in the log whole or not at all, and one *)
(* that raised is not.  The file of the tool calls is the list of one      *)
(* recorder, with each of its calls once and in their order.  (The calls   *)
(* of another recorder may be gone from it.)                               *)
AppendedIsKept ==
    /\ returned \subseteq ToSet(files.log)
    /\ \A item \in ToSet(files.log) \ returned :
          crashes > 0 \/ \E t \in Threads : Doing(t, "log") /\ item \in ToSet(thread[t].items)
    /\ Cardinality(ToSet(files.log)) = Len(files.log)
    /\ \A i, j \in DOMAIN files.calls : i < j => files.calls[i].number < files.calls[j].number
=============================================================================
