------------------------------ MODULE ReviewRuns ------------------------------
(***************************************************************************)
(* One review run in the API process: its job record, its task, the files  *)
(* of its directory, the event streams of the clients that watch it, and   *)
(* what is made of it all when the process is started again                *)
(* (server/job_state.py, job_registry.py, sse.py, app.py).                 *)
(*                                                                         *)
(* Between two awaits a coroutine cannot be interrupted by another, only   *)
(* by the death of the process; so the way from the last await of a review *)
(* to the event that ends its streams (write_outputs, finalize_artifacts,  *)
(* the end of run_job) is one step, and Crash says what it may leave       *)
(* behind.  The nodes of a review and their progress are left out.         *)
(*                                                                         *)
(* Bounds: Streams, MaxCrashes, MaxErrors (failed writes to the disk).     *)
(***************************************************************************)
EXTENDS Naturals

CONSTANTS
  Streams,      \* event streams that may be open at once
  MaxCrashes,
  MaxErrors

ASSUME BoundsAssumption == MaxCrashes \in Nat /\ MaxErrors \in Nat

VARIABLES
  up,           \* the process is there and has recovered
  task,         \* the coroutine of run_job
  job,          \* status of the JobRecord in the registry
  snap,         \* status in run_progress.json; "none": no run directory yet
  report,       \* report.json (report.md is written before it)
  garbled,      \* run_progress.json or run_trace.json ends inside a character
  stream,       \* the event streams
  told,         \* history: the outcomes that clients were told
  lost,         \* history: run_job could not write its snapshot and died of it
  crashes,
  errors

server  == <<up, task, job>>
files   == <<snap, report, garbled>>
vars    == <<up, task, job, snap, report, garbled, stream, told, lost, crashes, errors>>

-----------------------------------------------------------------------------
Active   == {"queued", "running"}
Terminal == {"completed", "failed"}

Error   == errors < MaxErrors /\ errors' = errors + 1
NoError == errors' = errors

\* A write is cut short, perhaps inside a character of several bytes: then reading the file
\* raises an exception that read_progress_snapshot and read_trace_progress do not catch.
Torn  == garbled' \in {garbled, TRUE}
Whole == UNCHANGED garbled

\* Mutation: a run that was interrupted gets a status of its own.
Persisted_Interrupted ==
  IF report # "none" THEN "completed"
  ELSE IF snap = "failed" THEN "failed" ELSE "interrupted"

\* Mutation: the snapshot decides, and a report is not looked for.
Persisted_Snapshot == IF snap = "completed" THEN "completed" ELSE "failed"

\* persisted_status_payload: a run with a report is completed, whatever else was
\* said; any other that is not there any more has failed.
Persisted == IF report # "none" THEN "completed" ELSE "failed"

\* A run with a record, or with files that can be read.
Readable == job # "none" \/ ~ garbled

\* What the status endpoint, a new stream and the answer to who asks for a result that is
\* not there go by.
Answer == IF job # "none" THEN job ELSE Persisted

Tell(status) == told' = told \cup ({status} \cap Terminal)

Init ==
  /\ up = TRUE
  /\ task = "none" /\ job = "none"
  /\ snap = "none" /\ report = "none" /\ garbled = FALSE
  /\ stream = [s \in Streams |-> "closed"]
  /\ told = {}
  /\ lost = FALSE
  /\ crashes = 0 /\ errors = 0

\* _enqueue_review_run: directory, snapshot, task and record.
Submit ==
  /\ up /\ snap = "none"
  /\ \/ snap' = "queued" /\ job' = "queued" /\ task' = "queued" /\ NoError /\ Whole
     \/ snap' = "torn" /\ Error /\ Torn /\ UNCHANGED <<job, task>>
  /\ UNCHANGED <<up, report, stream, told, lost, crashes>>

\* The first snapshot of run_job is written outside of its try.
Start ==
  /\ task = "queued"
  /\ job' = "running"
  /\ \/ snap' = "running" /\ task' = "running" /\ NoError /\ Whole /\ UNCHANGED lost
     \/ snap' = "torn" /\ task' = "none" /\ Error /\ Torn /\ lost' = TRUE
  /\ UNCHANGED <<up, report, stream, told, crashes>>

\* ProgressBroadcaster.publish of the terminal event; the queues are drained.
Publish(status) ==
  /\ stream' = [s \in Streams |-> IF stream[s] = "subscribed" THEN "closed" ELSE stream[s]]
  /\ IF \E s \in Streams : stream[s] = "subscribed" THEN Tell(status) ELSE UNCHANGED told

\* Mutation: an exception of the review is not caught.
End_Raise ==
  /\ task = "running"
  /\ task' = "none"
  /\ \/ /\ job' = "completed" /\ snap' = "completed" /\ report' = "whole"
        /\ Publish("completed")
     \/ UNCHANGED <<job, snap, report, stream, told>>
  /\ NoError /\ Whole
  /\ UNCHANGED <<up, lost, crashes>>

\* How review_prd_text_async ends: it fails before it writes anything, while it
\* writes, or after, in finalize_artifacts or by a node that _derive_status does not
\* forgive; or it succeeds.
Endings ==
  {e \in [outcome : Terminal, report : {"none", "torn", "whole"}] :
     e.outcome = "completed" => e.report = "whole"}

\* The end of run_job.  The report may not be written, or the trace after it; if it is the
\* snapshot that cannot be written, the terminal event is not published.
End ==
  /\ task = "running"
  /\ task' = "none"
  /\ \E e \in Endings :
       /\ report' = e.report
       /\ job' = e.outcome
       /\ \/ snap' = e.outcome /\ Publish(e.outcome) /\ UNCHANGED lost
             /\ \/ e.report = "torn" /\ Error /\ Whole
                \/ e.report # "torn" /\ NoError /\ Whole
                \/ e.report = "whole" /\ e.outcome = "failed" /\ Error /\ Torn
          \/ snap' = "torn" /\ lost' = TRUE /\ Error /\ Torn /\ UNCHANGED <<stream, told>>
  /\ UNCHANGED <<up, crashes>>

-----------------------------------------------------------------------------
\* _project_stream_review_progress finds the run; its generator starts later.
Open(s) ==
  /\ up /\ snap # "none"
  /\ stream[s] = "closed"
  /\ stream' = [stream EXCEPT ![s] = "opening"]
  /\ UNCHANGED <<server, files, told, lost, crashes, errors>>

\* Mutation: a stream subscribes without a look at a run that may be over.
Begin_Subscribe(s) ==
  /\ stream[s] = "opening"
  /\ stream' = [stream EXCEPT ![s] = "subscribed"]
  /\ UNCHANGED <<server, files, told, lost, crashes, errors>>

\* event_stream: the status is looked at and the queue subscribed without an await; or the
\* files cannot be read, and the stream breaks off.
Begin(s) ==
  /\ stream[s] = "opening"
  /\ \/ Readable /\ Answer \in Terminal /\ stream' = [stream EXCEPT ![s] = "closed"] /\ Tell(Answer)
     \/ ~ Readable /\ stream' = [stream EXCEPT ![s] = "closed"] /\ UNCHANGED told
     \/ Answer \in Active /\ stream' = [stream EXCEPT ![s] = "subscribed"] /\ UNCHANGED told
  /\ UNCHANGED <<server, files, lost, crashes, errors>>

\* The client goes away.
Disconnect(s) ==
  /\ stream[s] # "closed"
  /\ stream' = [stream EXCEPT ![s] = "closed"]
  /\ UNCHANGED <<server, files, told, lost, crashes, errors>>

\* _project_get_review_status.
AskStatus ==
  /\ up /\ snap # "none" /\ Readable
  /\ Tell(Answer)
  /\ UNCHANGED <<server, files, stream, lost, crashes, errors>>

\* The process dies: perhaps while it writes the snapshot (run_job, or recover), or
\* anywhere in the step that End is.
Crash ==
  /\ up /\ crashes < MaxCrashes
  /\ crashes' = crashes + 1
  /\ up' = FALSE /\ task' = "none" /\ job' = "none"
  /\ snap' \in {snap, "torn"}
  /\ report' \in {report} \cup (IF task = "running" THEN {"torn", "whole"} ELSE {})
  /\ IF snap' = "torn" \/ report' # report THEN Torn ELSE Whole
  /\ stream' = [s \in Streams |-> "closed"]
  /\ UNCHANGED <<told, lost, errors>>

\* Mutation: recover takes the snapshot as it is.
Restart_Raw ==
  /\ ~ up /\ ~ garbled
  /\ up' = TRUE
  /\ job' = IF snap \in {"none", "torn"} THEN "none" ELSE snap
  /\ lost' = FALSE
  /\ UNCHANGED <<task, files, stream, told, crashes, errors>>

\* normalize_persisted_job, hydrate_job_record: the status that is made of the files is
\* written to the snapshot and given to a new record.
Recovered == job' = Persisted /\ snap' = Persisted

\* _app_lifespan, JobRegistry.recover: each run directory gives a record again.
Restart ==
  /\ ~ up /\ ~ garbled
  /\ up' = TRUE
  /\ \/ snap = "none" /\ UNCHANGED <<job, snap>>
     \/ snap # "none" /\ Recovered
  /\ lost' = FALSE
  /\ UNCHANGED <<task, report, garbled, stream, told, crashes, errors>>

\* A directory that cannot be read ends the start of the process, and every further one.
StartFails ==
  /\ ~ up /\ garbled
  /\ UNCHANGED vars

Next ==
  \/ Submit \/ Start \/ End \/ AskStatus \/ Crash \/ Restart \/ StartFails
  \/ \E s \in Streams : Open(s) \/ Begin(s) \/ Disconnect(s)

\* The event loop is fair, the calls of a review return or time out, and the process
\* is started again.  Nothing is assumed of clients and of the disk.
Fairness ==
  /\ WF_vars(Start) /\ WF_vars(End) /\ WF_vars(Restart)
  /\ \A s \in Streams : WF_vars(Begin(s))

Spec == Init /\ [][Next]_vars /\ Fairness

-----------------------------------------------------------------------------
\* The values the variables range over.
TypeOK ==
  /\ up \in BOOLEAN /\ lost \in BOOLEAN /\ garbled \in BOOLEAN
  /\ task \in {"none"} \cup Active
  /\ job \in {"none"} \cup Active \cup Terminal
  /\ snap \in {"none", "torn"} \cup Active \cup Terminal
  /\ report \in {"none", "torn", "whole"}
  /\ stream \in [Streams -> {"closed", "opening", "subscribed"}]
  /\ told \subseteq Terminal
  /\ crashes \in 0..MaxCrashes
  /\ errors \in 0..MaxErrors

\* A run is shown as queued or running exactly while its coroutine is there, also
\* after a restart (recover, run_job); only a snapshot that could not be written
\* kills the coroutine behind the back of its record.
NoZombie == up /\ ~ lost => (Answer \in Active <=> task # "none")

\* A client that was told "completed" is never told anything else, whatever crashes
\* and failed writes follow (persisted_status_payload).
CompletedStands == up /\ "completed" \in told => Answer = "completed"

\* A stream ends, with a terminal event or with the process, even if it is opened
\* while the run ends (event_stream, publish), unless the terminal event was lost.
EveryStreamEnds ==
  \A s \in Streams : stream[s] # "closed" ~> (stream[s] = "closed" \/ lost)

\* Every run that was accepted has an outcome in the end, with crashes at any point
\* (recover); unless a write that was cut short left files the process cannot start with.
OutcomeReached == snap # "none" ~> (garbled \/ (up /\ (Answer \in Terminal \/ lost)))
=============================================================================
