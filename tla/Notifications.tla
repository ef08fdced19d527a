---------------------------- MODULE Notifications ----------------------------
(***************************************************************************)
(* The notifications of one run (notifications/dispatcher.py, feishu.py,   *)
(* monitoring/retry.py): an event is sent over every channel in turn, each *)
(* attempt leaves a record, and a retry sends the failed ones again, over  *)
(* every channel.  The id of a notification is made of its type and the    *)
(* run, so that the tasks of a run share it, and a retry takes one failed  *)
(* record per id.                                                          *)
(*                                                                         *)
(* The web server and the MCP server dispatch concurrently for one run     *)
(* directory; each may die, an answer may be lost after the channel took   *)
(* the notification.  Bounds: MaxRecords, MaxRetries, MaxCuts.             *)
(***************************************************************************)
EXTENDS Naturals, SequencesExt, FiniteSetsExt

CONSTANTS
  Notes,          \* what there is to tell
  Types,          \* the ids of the run's notifications
  TypeOf,         \* the id of each note
  Channels,       \* the notifiers, in the order of their use
  DryRun,         \* the channels that only record
  Dispatchers,    \* processes
  MaxRecords,
  MaxRetries,
  MaxCuts,        \* deaths in the middle of a dispatch
  Idle

VARIABLES
  notices,        \* notifications.jsonl
  accepted,       \* how often each channel took each note
  messages,       \* the messages it made of them
  keyed,          \* the channels that are sent the id, as the notifiers are configured
  sending,        \* the dispatch that a process is in, or Idle
  retries,        \* retries begun
  cut             \* dispatches that a death cut off

noticeVars == <<notices, accepted, messages, keyed, sending, retries, cut>>

-----------------------------------------------------------------------------
\* What comes of one attempt; "lost": the channel took it and the answer did not come;
\* "refused": an answer whose body has a code.
Results == {"none", "taken", "dry", "refused", "lost"}

Notices == [note : Notes, channel : Range(Channels), status : {"dispatched", "failed"}, dry : BOOLEAN]

\* A dispatch: the notes still to send, the channel that is next, what its attempt came
\* to, the records there were when the dispatch began, whether it is a retry.
Dispatches ==
  [queue : Seq(Notes), at : 1 .. Len(Channels), result : Results,
   from : 0 .. MaxRecords, retry : BOOLEAN]

ASSUME NotificationsAssumption ==
  /\ TypeOf \in [Notes -> Types]
  /\ Channels \in Seq(Range(Channels)) /\ Channels # << >>
  /\ DryRun \subseteq Range(Channels)
  /\ IsFiniteSet(Dispatchers) /\ Idle \notin Dispatches
  /\ MaxRecords \in Nat /\ MaxRetries \in Nat /\ MaxCuts \in Nat

NoticesInit ==
  /\ notices = << >>
  /\ accepted = [c \in Range(Channels) |-> [n \in Notes |-> 0]]
  /\ messages = accepted
  /\ keyed \in SUBSET (Range(Channels) \ DryRun)
  /\ sending = [d \in Dispatchers |-> Idle]
  /\ retries = 0
  /\ cut = 0

FailedAt(i) == i \in DOMAIN notices /\ notices[i].status = "failed"

FailedOf(t) == {i \in DOMAIN notices : FailedAt(i) /\ TypeOf[notices[i].note] = t}

\* The failed records that are the first of their id.
FirstFailed ==
  {i \in DOMAIN notices :
     /\ FailedAt(i)
     /\ \A j \in FailedOf(TypeOf[notices[i].note]) : i <= j}

\* _latest_failed_notification_records: of each id the last record that failed, whatever
\* was dispatched since, in the order in which the ids failed first.
LatestFailed ==
  LET ids[i \in 0 .. Len(notices)] ==
        IF i = 0 THEN << >>
        ELSE IF i \in FirstFailed THEN Append(ids[i - 1], TypeOf[notices[i].note]) ELSE ids[i - 1]
      order == ids[Len(notices)]
  IN  [k \in DOMAIN order |-> notices[Max(FailedOf(order[k]))].note]

BeginDispatch(d, queue, retry) ==
  /\ sending[d] = Idle
  /\ Len(notices) < MaxRecords
  /\ sending' = [sending EXCEPT ![d] =
       [queue |-> queue, at |-> 1, result |-> "none", from |-> Len(notices), retry |-> retry]]

\* dispatch_notification.
Dispatch(d, note) ==
  /\ BeginDispatch(d, <<note>>, FALSE)
  /\ UNCHANGED <<notices, accepted, messages, keyed, retries, cut>>

\* _retry_notification_dispatch, unless nothing failed.
Retry(d) ==
  /\ LatestFailed # << >>
  /\ retries < MaxRetries
  /\ BeginDispatch(d, LatestFailed, TRUE)
  /\ retries' = retries + 1
  /\ UNCHANGED <<notices, accepted, messages, keyed, cut>>

Sending(d) == sending[d] # Idle

SameId(n) == {m \in Notes : TypeOf[m] = TypeOf[n]}

\* A channel makes a message of what it takes; one that is sent the id may take it for the
\* repetition of a note it has a message of, and makes none (FeishuOpenAPISender, uuid).
MakeMessage(c, n) ==
  \/ messages' = [messages EXCEPT ![c][n] = @ + 1]
  \/ c \in keyed /\ (\E m \in SameId(n) : messages[c][m] > 0) /\ UNCHANGED messages

\* send_payload of the next channel.
Send(d) ==
  /\ Sending(d) /\ sending[d].result = "none"
  /\ LET c == Channels[sending[d].at]
         n == Head(sending[d].queue)
     IN  \E r \in Results \ {"none"} :
           /\ (r = "dry") = (c \in DryRun)
           /\ sending' = [sending EXCEPT ![d].result = r]
           /\ IF r \in {"taken", "lost"}
              THEN accepted' = [accepted EXCEPT ![c][n] = @ + 1] /\ MakeMessage(c, n)
              ELSE UNCHANGED <<accepted, messages>>
  /\ UNCHANGED <<notices, keyed, retries, cut>>

\* Mutation: the code in the body of an answer is not looked at.
StatusOf_HttpOnly(result) ==
  IF result \in {"taken", "dry", "refused"} THEN "dispatched" ELSE "failed"

\* FeishuWebhookSender.send, FeishuOpenAPISender.send: an answer other than 2xx and a code
\* other than 0 raise, like a timeout.
StatusOf(result) == IF result \in {"taken", "dry"} THEN "dispatched" ELSE "failed"

\* What is left to do after a record.
Onward(s) ==
  IF s.at < Len(Channels) THEN [s EXCEPT !.at = @ + 1, !.result = "none"]
  ELSE IF Len(s.queue) > 1 THEN [s EXCEPT !.queue = Tail(@), !.at = 1, !.result = "none"]
  ELSE Idle

\* append_notification_record.
RecordNotice(d) ==
  /\ Sending(d) /\ sending[d].result # "none"
  /\ Len(notices) < MaxRecords
  /\ notices' = Append(notices,
       [note |-> Head(sending[d].queue), channel |-> Channels[sending[d].at],
        status |-> StatusOf(sending[d].result), dry |-> sending[d].result = "dry"])
  /\ sending' = [sending EXCEPT ![d] = Onward(@)]
  /\ UNCHANGED <<accepted, messages, keyed, retries, cut>>

\* The process dies in the middle of a dispatch; nothing takes it up again.
DieSending(d) ==
  /\ Sending(d)
  /\ cut < MaxCuts
  /\ cut' = cut + 1
  /\ sending' = [sending EXCEPT ![d] = Idle]
  /\ UNCHANGED <<notices, accepted, messages, keyed, retries>>

NoticesNext ==
  \E d \in Dispatchers :
    \/ \E note \in Notes : Dispatch(d, note)
    \/ Retry(d) \/ Send(d) \/ RecordNotice(d) \/ DieSending(d)

NoticesSpec == NoticesInit /\ [][NoticesNext]_noticeVars

-----------------------------------------------------------------------------
\* The values the variables range over.
NoticesTypeOK ==
  /\ notices \in Seq(Notices) /\ Len(notices) <= MaxRecords
  /\ accepted \in [Range(Channels) -> [Notes -> Nat]]
  /\ messages \in [Range(Channels) -> [Notes -> Nat]]
  /\ keyed \subseteq Range(Channels) \ DryRun
  /\ sending \in [Dispatchers -> Dispatches \cup {Idle}]
  /\ retries \in 0 .. MaxRetries
  /\ cut \in 0 .. MaxCuts

RecordsOf(c, n, status) ==
  Cardinality({i \in DOMAIN notices :
                 notices[i].channel = c /\ notices[i].note = n /\ notices[i].status = status})

Underway(c, n) ==
  Cardinality({d \in Dispatchers : /\ Sending(d) /\ Channels[sending[d].at] = c
                                   /\ Head(sending[d].queue) = n
                                   /\ sending[d].result \in {"taken", "lost"}})

\* Whatever two processes dispatch and retry, which answers are lost and where a process
\* dies: a channel that is not a dry run made of a note at least as many messages as the
\* records say, or one with its id if it is sent the ids; and no more than they say,
\* counting each failure as a delivery that may have happened, and each death as another;
\* and a channel of dry runs made none.
RecordsTellDelivery ==
  \A c \in Range(Channels), n \in Notes :
    IF c \in DryRun THEN messages[c][n] = 0
    ELSE /\ c \notin keyed => RecordsOf(c, n, "dispatched") <= messages[c][n]
         /\ RecordsOf(c, n, "dispatched") > 0 => \E m \in SameId(n) : messages[c][m] > 0
         /\ messages[c][n] <=
              RecordsOf(c, n, "dispatched") + RecordsOf(c, n, "failed") + Underway(c, n) + cut
=============================================================================
