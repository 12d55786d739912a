------------------------------ MODULE EventStream ------------------------------
(***************************************************************************)
(* The pipeline's log on its way to the page: the event stream of the API  *)
(* (api/main.py, stream_research_pipeline_events) and the page that reads  *)
(* it (frontend/src/app.js), composed with PipelineLog.                     *)
(*                                                                         *)
(* The page starts or resumes a run in two ways, from the console and from *)
(* the product's brief, opens a stream that tells it the events after a    *)
(* number, closes it at the first terminal status an event carries, and    *)
(* reads the saved state again 0.8 seconds after a stream broke.           *)
(***************************************************************************)
EXTENDS PipelineLog, FiniteSetsExt

CONSTANTS
    Console,    \* whether the console's button is used, and not only the brief's
    MaxLoads,   \* bound: page loads and stop requests of the user
    MaxResumes, \* bound: how often the run is submitted again
    MaxCrashes, \* bound: how often the process dies
    MaxEvents   \* bound: when the log is no longer added to but by ends

(* What the constants have to be; the instance is assumed to keep it. *)
StreamAssumption ==
    /\ Console \in BOOLEAN
    /\ MaxLoads \in Nat /\ MaxResumes \in Nat /\ MaxCrashes \in Nat /\ MaxEvents \in Nat

VARIABLES
    sse,      \* the generator of the open stream: where it is, cursor, batch
    page,     \* what the page holds: status, cursor, known events, connection
    misled,   \* the page left a stream on a status the run did not have
    loads, resumes, crashes

bounds == <<loads, resumes, crashes>>
streamVars == <<sse, page, misled, bounds>>
vars == <<logVars, streamVars>>

NoStream == [at |-> "off", cursor |-> 0, batch |-> <<>>, fresh |-> FALSE]
NoPage   == [view |-> "none", cursor |-> 0, known |-> {}, conn |-> "none", after |-> 0]

Init ==
    /\ LogInit
    /\ sse = NoStream /\ page = NoPage /\ misled = FALSE
    /\ loads = 0 /\ resumes = 0 /\ crashes = 0

Numbered(k) == [i \in 1..(Len(log) - k) |-> [number |-> k + i, event |-> log[k + i]]]

-----------------------------------------------------------------------------
(* The server's side: project, read, send, look whether the run has ended. *)

Opened(after) == [NoStream EXCEPT !.at = "open", !.cursor = after]

StreamOpens ==
    /\ sse.at = "open"
    /\ LogReconciled
    /\ sse' = [sse EXCEPT !.at = "read"]
    /\ UNCHANGED <<page, misled, bounds>>

StreamReads ==
    /\ sse.at = "read"
    /\ sse' = [sse EXCEPT !.at = "send", !.batch = Numbered(sse.cursor),
                          !.fresh = Len(log) > sse.cursor]
    /\ UNCHANGED <<logVars, page, misled, bounds>>


(* It ends when the poll found nothing and the run has ended. *)
StreamLooks ==
    /\ sse.at = "send" /\ sse.batch = <<>>
    /\ sse' = [sse EXCEPT !.at = IF status \in Terminal /\ ~sse.fresh THEN "ended"
                                 ELSE "read"]
    /\ UNCHANGED <<logVars, page, misled, bounds>>

-----------------------------------------------------------------------------
(* The page. *)

Connected(after) == [page EXCEPT !.conn = "open", !.after = after]

LastOf(S) == IF S = {} THEN 0 ELSE Max(S)

(* Events of the evidence are not among the page's known events. *)
Shows(k) == {i \in 1..k : log[i].kind # "evidence"}

(* connectResearchLoopEventStream: on from its cursor, or from the last     *)
(* event it knows.                                                         *)
From(cursor, known) == IF cursor # 0 THEN cursor ELSE LastOf(known)

(* The "pipeline" listener.  An event of the evidence, or one the page      *)
(* knows, changes nothing; a terminal status closes the stream.             *)
PageReceives ==
    /\ sse.at = "send" /\ sse.batch # <<>>
    /\ LET n == Head(sse.batch).number
           e == Head(sse.batch).event
           news == e.kind # "evidence" /\ n \notin page.known
           over == news /\ e.status \in Terminal
       IN
       /\ page' = [page EXCEPT !.cursor = IF n > @ THEN n ELSE @,
                               !.known = IF news THEN @ \cup {n} ELSE @,
                               !.view = IF news THEN e.status ELSE @,
                               !.conn = IF over THEN "none" ELSE @]
       /\ sse' = IF over THEN NoStream
                 ELSE [sse EXCEPT !.cursor = n, !.batch = Tail(@)]
       /\ misled' = IF over THEN status # e.status ELSE misled
    /\ UNCHANGED <<logVars, bounds>>

\* Fault: a stream that broke is not opened again.
PageErrorFaulty ==
    /\ page.conn = "open" /\ sse.at \in {"off", "ended"}
    /\ page' = [page EXCEPT !.conn = "none"]
    /\ sse' = NoStream
    /\ UNCHANGED <<logVars, misled, bounds>>

(* onerror: the server has ended the stream, or died.  A page that shows an *)
(* end leaves it to the browser, which connects again as before.            *)
PageError ==
    /\ page.conn = "open" /\ sse.at \in {"off", "ended"}
    /\ IF page.view \in Terminal
       THEN sse' = Opened(page.after) /\ UNCHANGED page
       ELSE sse' = NoStream /\ page' = [page EXCEPT !.conn = "waiting"]
    /\ UNCHANGED <<logVars, misled, bounds>>

(* loadResearchLoopStatus: the status page closes a lost run and reads the  *)
(* run, and then its events.                                                *)
PageLoadsRun ==
    /\ \/ page.conn = "waiting" /\ UNCHANGED loads
       \/ page.conn = "none" /\ loads < MaxLoads /\ loads' = loads + 1
    /\ status # "none"
    /\ LogReconciled
    /\ page' = [page EXCEPT !.conn = "loading", !.view = status']
    /\ UNCHANGED <<sse, misled, resumes, crashes>>

PageLoadsEvents ==
    /\ page.conn = "loading"
    /\ page' = [page EXCEPT !.cursor = Len(log), !.known = Shows(Len(log)),
                            !.conn = IF page.view \in Terminal THEN "none" ELSE "open",
                            !.after = From(Len(log), Shows(Len(log)))]
    /\ sse' = IF page.view \in Terminal THEN NoStream
              ELSE Opened(From(Len(log), Shows(Len(log))))
    /\ misled' = FALSE
    /\ UNCHANGED <<logVars, bounds>>

Submits ==
    /\ status = "none" \/ resumes < MaxResumes
    /\ resumes' = IF status = "none" THEN resumes ELSE resumes + 1
    /\ LogSubmit

(* startResearchLoop, the console's button: nothing is known and the        *)
(* stream starts at the first event.                                        *)
ConsoleStarts ==
    /\ Console /\ page.view \notin Active /\ page.conn \in {"none", "open"}
    /\ Submits
    /\ page' = [view |-> "queued", cursor |-> 0, known |-> {}, conn |-> "open", after |-> 0]
    /\ sse' = Opened(0)
    /\ misled' = FALSE /\ UNCHANGED <<loads, crashes>>

(* launchProductResearch, the brief's: it goes on from the answer's events. *)
BriefStarts ==
    /\ page.view \notin Active /\ page.conn \in {"none", "open"}
    /\ Submits
    /\ LET known == Shows(Len(log)) \cup {Len(log')} IN
       /\ page' = [view |-> "queued", cursor |-> 0, known |-> known, conn |-> "open",
                   after |-> From(0, known)]
       /\ sse' = Opened(From(0, known))
    /\ misled' = FALSE /\ UNCHANGED <<loads, crashes>>

(* stopResearchLoop: the answer is shown, and the stream opened again. *)
PageStops ==
    /\ page.view \in {"queued", "running"} /\ page.conn = "open"
    /\ loads < MaxLoads /\ loads' = loads + 1
    /\ LogRequestStop
    /\ page' = IF status' \in Terminal THEN [page EXCEPT !.view = status']
               ELSE [Connected(From(page.cursor, page.known)) EXCEPT !.view = status']
    /\ sse' = IF status' \in Terminal THEN sse ELSE Opened(From(page.cursor, page.known))
    /\ UNCHANGED <<misled, resumes, crashes>>

Crash ==
    /\ crashes < MaxCrashes /\ crashes' = crashes + 1
    /\ LogCrash
    /\ sse' = NoStream
    /\ UNCHANGED <<page, misled, loads, resumes>>

Page == PageReceives \/ PageError \/ PageLoadsEvents
Stream == StreamOpens \/ StreamReads \/ StreamLooks

Told == Len(log) < MaxEvents /\ (LogAppends \/ LogForwards)
HarnessStarts == LogStarts /\ UNCHANGED streamVars
HarnessEnds == LogEnds /\ UNCHANGED streamVars
HarnessTellsEnd == LogTellsEnd /\ UNCHANGED streamVars
Harness ==
    \/ HarnessStarts \/ HarnessEnds \/ HarnessTellsEnd
    \/ (LogSaves \/ Told) /\ UNCHANGED streamVars

Next ==
    \/ Harness \/ Stream \/ Page \/ PageLoadsRun
    \/ ConsoleStarts \/ BriefStarts \/ PageStops \/ Crash

(* The worker ends (PipelineHarness), the generator and the page's timers  *)
(* run; users, restarts and page loads are not fair.                       *)
Fairness ==
    /\ WF_vars(HarnessStarts) /\ WF_vars(HarnessEnds) /\ WF_vars(HarnessTellsEnd)
    /\ WF_vars(Stream) /\ WF_vars(Page)
    /\ WF_vars(page.conn = "waiting" /\ PageLoadsRun)

Spec == Init /\ [][Next]_vars /\ Fairness

-----------------------------------------------------------------------------
(* The page comes to show how the run ended, through broken streams, lost  *)
(* final events and restarts, unless it left its stream on the end of an   *)
(* earlier attempt.                                                        *)
PageShowsTheEnd == misled \/ (page.view = status /\ status \notin Active)
PageFollows == []<>PageShowsTheEnd
=============================================================================
