------------------------------- MODULE RunPage -------------------------------
(***************************************************************************)
(* A page of the web front end that shows a review run (useReviewRunSSE,   *)
(* useReviewRun, RunDetailsPage), and the run it shows (ReviewRuns).  The  *)
(* page asks for the status once and then follows the event stream; when   *)
(* the stream breaks it connects again after a while, at the Threshold-th  *)
(* break in a row it polls.  Asked again or late, answers may overtake one *)
(* another, and one to a page that was left for this one may come to it.   *)
(*                                                                         *)
(* A change of isPolling makes the effect of the hook run again, which     *)
(* puts the page back to its start; of the two requests of its two runs    *)
(* one is kept.  Bounds: MaxAsks requests at once (the page waits with the *)
(* next), MaxCuts breaks of a live connection and failures of a request.   *)
(***************************************************************************)
EXTENDS ReviewRuns, SequencesExt

CONSTANTS
  Watch,        \* the stream that is the page's
  Threshold,    \* fallbackThreshold
  MaxAsks,
  MaxCuts

ASSUME PageAssumption == Watch \in Streams /\ Threshold \in Nat \ {0} /\ MaxAsks \in Nat

VARIABLES
  page,         \* the state of the hooks
  ask,          \* requests for the status under way
  misled,       \* history: an answer came that was out of date, or another run's
  cuts

pageVars == <<page, ask, misled, cuts>>
watched  == <<vars, pageVars>>

-----------------------------------------------------------------------------
Slots == 1 .. MaxAsks
Statuses == Active \cup Terminal

\* shown: state.run.status; link: the EventSource; event: what it brought and the page has
\* not handled; timer: the reconnect and polling timeouts that are set.
Fresh ==
  [open |-> TRUE, shown |-> "none", link |-> FALSE, event |-> "none", breaks |-> 0,
   timers |-> {}, result |-> "idle"]

NoPage == [Fresh EXCEPT !.open = FALSE]

NoAsk == [reply |-> "none", poll |-> FALSE, here |-> TRUE]
Asked(poll) == [NoAsk EXCEPT !.reply = "sent", !.poll = poll]

PageInit ==
  /\ page = NoPage
  /\ ask = [k \in Slots |-> NoAsk]
  /\ misled = FALSE
  /\ cuts = 0

Cut == cuts < MaxCuts /\ cuts' = cuts + 1

Free == {k \in Slots : ask[k].reply = "none"}

\* refreshStatus, fetchReviewStatus; which slots the requests take makes no difference.
AskAnew(asks) ==
  LET slot == SetToSortSeq(Free, LAMBDA i, j : i < j)
  IN  /\ Len(asks) <= Cardinality(Free)
      /\ ask' = [k \in Slots |-> IF \E i \in DOMAIN asks : slot[i] = k
                               THEN asks[CHOOSE i \in DOMAIN asks : slot[i] = k] ELSE ask[k]]

\* The effect of useReviewRunSSE: the page starts, perhaps with a request under way that a
\* page of another run made.
OpenPage ==
  /\ ~ page.open /\ snap # "none" /\ stream[Watch] = "closed"
  /\ page' = [Fresh EXCEPT !.link = TRUE]
  /\ \E there \in {NoAsk} \cup {[reply |-> r, poll |-> FALSE, here |-> FALSE] : r \in Statuses} :
       ask' = [k \in Slots |-> IF k = 1 THEN Asked(FALSE) ELSE IF k = 2 THEN there ELSE NoAsk]
  /\ UNCHANGED <<vars, misled, cuts>>

\* The page is left; stopStreaming.
LeavePage ==
  /\ page.open
  /\ page' = NoPage
  /\ ask' = [k \in Slots |-> NoAsk]
  /\ stream' = [stream EXCEPT ![Watch] = "closed"]
  /\ UNCHANGED <<server, files, told, lost, crashes, errors, misled, cuts>>

\* connect: the server opens a stream (onopen), or there is none.
Connect ==
  /\ page.link /\ stream[Watch] = "closed" /\ page.event = "none"
  /\ \/ Open(Watch) /\ page' = [page EXCEPT !.breaks = 0]
     \/ ~ (up /\ snap # "none") /\ page' = [page EXCEPT !.event = "broken"] /\ UNCHANGED vars
  /\ UNCHANGED <<ask, misled, cuts>>

\* The generator of the stream starts; a run that is over is told at once, and one whose files
\* cannot be read breaks the stream.
BeginWatch ==
  /\ Begin(Watch)
  /\ page' = IF page.open /\ stream'[Watch] = "closed"
             THEN [page EXCEPT !.event = IF Readable THEN Answer ELSE "broken"] ELSE page
  /\ UNCHANGED <<ask, misled, cuts>>

\* onmessage of a node's event, mergeSseProgressPayload.
Progress ==
  /\ task = "running" /\ stream[Watch] = "subscribed"
  /\ page.shown \in {"none", "queued"}
  /\ page' = [page EXCEPT !.shown = "running"]
  /\ UNCHANGED <<vars, ask, misled, cuts>>

\* The connection breaks.
Break ==
  /\ Disconnect(Watch) /\ Cut
  /\ page' = [page EXCEPT !.event = "broken"]
  /\ UNCHANGED <<ask, misled>>

\* handleTerminalPayload: the outcome is shown, all else stops, the status is asked again.
Terminate ==
  /\ page.link /\ page.event \in Terminal
  /\ AskAnew(<<Asked(FALSE)>>)
  /\ page' = [page EXCEPT !.shown = page.event, !.event = "none", !.link = FALSE, !.timers = {}]
  /\ UNCHANGED <<vars, misled, cuts>>

\* onerror, short of the threshold: connect again, later.
ConnectLater ==
  /\ page.event = "broken" /\ page.breaks + 1 < Threshold
  /\ page' = [page EXCEPT !.event = "none", !.link = FALSE, !.breaks = @ + 1, !.timers = @ \cup {"connect"}]
  /\ UNCHANGED <<vars, ask, misled, cuts>>

\* Mutation: of a timeout the page only takes note.
Reconnect_Never ==
  /\ "connect" \in page.timers
  /\ page' = [page EXCEPT !.timers = @ \ {"connect"}]
  /\ UNCHANGED <<vars, ask, misled, cuts>>

\* The timeout set by onerror.
Reconnect ==
  /\ "connect" \in page.timers
  /\ page' = [page EXCEPT !.timers = @ \ {"connect"}, !.link = TRUE]
  /\ UNCHANGED <<vars, ask, misled, cuts>>

\* enablePollingFallback, and the effect that isPolling sets off: the page is as it was
\* opened, connects anew, and the request that is to begin the polling is under way.
FallBack ==
  /\ page.event = "broken" /\ page.breaks + 1 >= Threshold
  /\ AskAnew(<<Asked(TRUE), Asked(FALSE)>>)
  /\ page' = [Fresh EXCEPT !.link = TRUE, !.result = page.result]
  /\ UNCHANGED <<vars, misled, cuts>>

\* schedulePolling, the timeout.
Poll ==
  /\ "poll" \in page.timers
  /\ AskAnew(<<Asked(TRUE)>>)
  /\ page' = [page EXCEPT !.timers = @ \ {"poll"}]
  /\ UNCHANGED <<vars, misled, cuts>>

\* _project_get_review_status; or no answer: the server is not there or fails, or by a cut.
Reply(k) ==
  /\ ask[k].reply = "sent"
  /\ \/ AskStatus /\ ask' = [ask EXCEPT ![k].reply = Answer] /\ UNCHANGED cuts
     \/ ask' = [ask EXCEPT ![k].reply = "error"] /\ UNCHANGED vars
        /\ IF up /\ snap # "none" /\ Readable THEN Cut ELSE UNCHANGED cuts
  /\ UNCHANGED <<page, misled>>

\* Nothing follows "completed", and nothing but that follows "failed".
Outdated(reply) ==
  page.shown \in Terminal /\ reply \notin {page.shown, "completed"}

\* refreshStatus when the answer comes; an outcome stops what else goes on (the effect on
\* state.run), and a request that polls goes on with it unless it failed or all is over.
Receive(k) ==
  LET reply == ask[k].reply
      ends == reply \in Terminal
  IN  /\ reply \in Statuses \cup {"error"}
      /\ ask' = [ask EXCEPT ![k] = NoAsk]
      /\ misled' = (misled \/ (reply # "error" /\ (~ ask[k].here \/ Outdated(reply))))
      /\ page' = [page EXCEPT
           !.shown = IF reply = "error" THEN @ ELSE reply,
           !.link = @ /\ ~ ends,
           !.event = IF ends THEN "none" ELSE @,
           !.timers = IF ends THEN {}
                      ELSE IF ask[k].poll /\ reply # "error" THEN @ \cup {"poll"} ELSE @]
      /\ stream' = IF ends THEN [stream EXCEPT ![Watch] = "closed"] ELSE stream
      /\ UNCHANGED <<server, files, told, lost, crashes, errors, cuts>>

\* fetchCompletedResult, _project_get_review_result: as long as it fails, again at once.
FetchResult ==
  /\ page.shown = "completed" /\ page.result # "ready"
  /\ page' = [page EXCEPT !.result = IF up /\ report = "whole" THEN "ready" ELSE "error"]
  /\ UNCHANGED <<vars, ask, misled, cuts>>

-----------------------------------------------------------------------------
\* What a step of the run does to the page: its stream ends with the outcome, or with the
\* process.
Followed ==
  /\ page' = IF page.open /\ stream[Watch] # "closed" /\ stream'[Watch] = "closed"
             THEN [page EXCEPT !.event = IF up' THEN job' ELSE "broken"] ELSE page
  /\ UNCHANGED <<ask, misled, cuts>>

RunStep ==
  /\ \/ Submit \/ Start \/ End \/ AskStatus \/ Crash \/ Restart \/ StartFails
     \/ \E s \in Streams \ {Watch} : Open(s) \/ Begin(s) \/ Disconnect(s)
  /\ Followed

PageNext ==
  \/ RunStep
  \/ OpenPage \/ LeavePage \/ Connect \/ BeginWatch \/ Progress \/ Break
  \/ Terminate \/ ConnectLater \/ Reconnect \/ FallBack \/ Poll \/ FetchResult
  \/ \E k \in Slots : Reply(k) \/ Receive(k)

\* The fairness of the run; what the browser does by itself it does, and a request has a
\* timeout.
PageFairness ==
  /\ WF_watched(Start /\ Followed) /\ WF_watched(End /\ Followed) /\ WF_watched(Restart /\ Followed)
  /\ \A s \in Streams \ {Watch} : WF_watched(Begin(s) /\ Followed)
  /\ WF_watched(Connect) /\ WF_watched(BeginWatch) /\ WF_watched(Terminate)
  /\ WF_watched(ConnectLater) /\ WF_watched(Reconnect) /\ WF_watched(FallBack)
  /\ WF_watched(Poll) /\ WF_watched(FetchResult)
  /\ \A k \in Slots : WF_watched(Reply(k)) /\ WF_watched(Receive(k))

PageSpec == Init /\ PageInit /\ [][PageNext]_watched /\ PageFairness

-----------------------------------------------------------------------------
\* A page that stays open shows the outcome of its run in the end, and the report if it is
\* completed and there is one, whatever connections break, requests fail and crashes come
\* between; unless the outcome was not told for a failed write, the process cannot start with
\* the files of the run, or an answer overtook a later one or came from the page before.
OutcomeShown ==
  /\ (page.open /\ up /\ Answer \in Terminal) ~>
        (page.shown \in Terminal \/ misled \/ lost \/ garbled \/ ~ page.open \/ ~ up)
  /\ (page.open /\ page.shown = "completed" /\ report = "whole") ~>
        (page.result = "ready" \/ misled \/ garbled \/ ~ page.open)
=============================================================================
