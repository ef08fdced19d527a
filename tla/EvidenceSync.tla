---------------------------- MODULE EvidenceSync ----------------------------
(***************************************************************************)
(* The daily evidence sync of one source: EvidenceSyncService              *)
(* (product_decision/sync_service.py) on the idempotent LocalJobQueue      *)
(* (platform/local.py), driven by DailyEvidenceSyncScheduler at 02:00, by  *)
(* manual refreshes and by adapters that hand in records, over the tables  *)
(* of ProductDecisionRepository and the pages of FeishuEvidenceClient.     *)
(*                                                                         *)
(* The queue changes its record in memory and writes it as a row without   *)
(* awaiting between the two, but the write stands outside its try: one     *)
(* that fails raises to the caller and leaves the record ahead of the row. *)
(* A run of the handler awaits one repository call after the other; a step *)
(* of a worker is one such call with the local code after it.              *)
(*                                                                         *)
(* Bounds: Workers (runs in flight), PageCount, Confirmable, MaxVersion    *)
(* (edits of a page), MaxFaults (failed calls and crashes).  Days are used *)
(* in turn: no run lasts so long that its day comes round again.           *)
(***************************************************************************)
EXTENDS Naturals, FiniteSets

CONSTANTS
  Workers,       \* coroutines that may run a sync
  Loop,          \* the worker that is the scheduler's loop
  Kinds,         \* source types considered; meeting notes are a document
  PageCount,     \* pages of a bitable
  DayCount,      \* job keys in use at a time
  Confirmable,   \* pages whose records people may confirm
  MaxAttempts,   \* LocalJobQueue.max_attempts
  MaxVersion,
  MaxFaults

ASSUME LoopAssumption == Loop \in Workers
ASSUME KindsAssumption == Kinds \subseteq {"bitable", "document"}
ASSUME NumbersAssumption ==
  /\ PageCount \in Nat \ {0} /\ DayCount \in Nat \ {0, 1}
  /\ Confirmable \subseteq 1..PageCount
  /\ MaxAttempts \in Nat \ {0} /\ MaxVersion \in Nat \ {0} /\ MaxFaults \in Nat

VARIABLES
  kind,        \* source_type of the source
  remote,      \* the version every page has in Feishu
  source,      \* decision_evidence_source: sync_cursor and sync_status
  stored,      \* decision_evidence: the version imported, 0 if none
  confirmed,   \* the records a product manager confirmed
  job,         \* the queue's records in memory, by day of the idempotency key
  row,         \* platform_job, their rows on disk
  looping,     \* the task of the scheduler's loop has not ended
  run,         \* the worker's call of sync_source in flight
  today,
  due,         \* the loop still waits for 02:00 of today
  up,          \* the process runs
  faults

evidence == <<source, stored>>
queue    == <<job, row, looping>>
calendar == <<today, due>>
vars == <<kind, remote, source, stored, confirmed, job, row, looping, run,
          today, due, up, faults>>

-----------------------------------------------------------------------------
Pages    == 1..PageCount
Days     == 0..(DayCount - 1)
Versions == 0..MaxVersion
Statuses == {"idle", "succeeded", "failed"}

\* sync_cursor as _parse_cursor reads it.  The watermark is left out: it is
\* compared only for a document whose cursor is not done, and such a cursor
\* never holds a watermark the client wrote.
Cursor == [page : Pages, done : BOOLEAN]
Start  == [page |-> 1, done |-> FALSE]
Done   == [page |-> 1, done |-> TRUE]

NoJob  == [status |-> "none", attempts |-> 0]
Job    == [status : {"none", "running", "completed", "failed"}, attempts : Nat]

\* Of an adapter's call, which has no job.
NoDay  == DayCount
Steps  == {"load", "fetch", "import", "report", "failread", "failwrite", "raise"}
Run    == [day : Days \cup {NoDay}, pc : Steps, cursor : Cursor,
           page : Pages, got : Versions, next : Cursor]
Idle   == [pc |-> "idle"]
NewRun(d) == [day |-> d, pc |-> "load", cursor |-> Start,
              page |-> 1, got |-> 0, next |-> Start]

LastPage == IF kind = "bitable" THEN PageCount ELSE 1

Init ==
  /\ kind \in Kinds
  /\ remote = [p \in Pages |-> 1]
  /\ source = [cursor |-> Start, status |-> "idle"]
  /\ stored = [p \in Pages |-> 0]
  /\ confirmed = {}
  /\ job = [d \in Days |-> NoJob]
  /\ row = job
  /\ looping = TRUE
  /\ run = [w \in Workers |-> Idle]
  /\ today = 0
  /\ due = TRUE
  /\ up = TRUE
  /\ faults = 0

\* A failed call is returned or raised to the run, which goes on from there.
Fault == faults < MaxFaults /\ faults' = faults + 1
Sound == faults' = faults

At(w, step)    == run[w] # Idle /\ run[w].pc = step
Goto(w, step)  == run' = [run EXCEPT ![w].pc = step]

-----------------------------------------------------------------------------
\* LocalJobQueue

\* Mutation: a running job is started once more.
MayStart_Running(d) ==
  \/ job[d].status \in {"none", "running"}
  \/ job[d].status = "failed" /\ job[d].attempts < MaxAttempts

\* Mutation: a completed job is started once more.
MayStart_Completed(d) ==
  \/ job[d].status \in {"none", "completed"}
  \/ job[d].status = "failed" /\ job[d].attempts < MaxAttempts

\* enqueue starts a new job, or a failed one with attempts left; every other
\* job is returned as it is.
MayStart(d) ==
  \/ job[d].status = "none"
  \/ job[d].status = "failed" /\ job[d].attempts < MaxAttempts

\* _persist, which may raise: to the request, or to the scheduler's loop, whose
\* task it ends for good.
Persist(d) == row' = [row EXCEPT ![d] = job'[d]] /\ UNCHANGED looping /\ Sound
Raises(w)  == UNCHANGED row /\ looping' = (looping /\ w # Loop) /\ Fault

\* The record is running before it is persisted; the handler is called after.
StartJob(w, d) ==
  /\ job' = [job EXCEPT ![d] = [status |-> "running", attempts |-> @.attempts + 1]]
  /\ \/ Persist(d) /\ run' = [run EXCEPT ![w] = NewRun(d)]
     \/ Raises(w) /\ UNCHANGED run

\* The record is completed or failed before it is persisted.
EndRun(w, status) ==
  /\ run' = [run EXCEPT ![w] = Idle]
  /\ IF run[w].day = NoDay THEN UNCHANGED queue /\ Sound
     ELSE /\ job' = [job EXCEPT ![run[w].day].status = status]
          /\ Persist(run[w].day) \/ Raises(w)

\* Mutation: only pending jobs are looked at after a restart.
Recovered_PendingOnly(d) == row[d]

\* recover, without handlers: a job that was running is failed, its attempts kept.
Recovered(d) ==
  IF row[d].status = "running" THEN [row[d] EXCEPT !.status = "failed"] ELSE row[d]

-----------------------------------------------------------------------------
\* Who starts a run

\* DailyEvidenceSyncScheduler._run_loop at 02:00.  A failed listing counts as no
\* sources.
ScheduledSync ==
  /\ up /\ looping /\ due
  /\ run[Loop] = Idle
  /\ due' = FALSE
  /\ \/ MayStart(today) /\ StartJob(Loop, today)
     \/ ~MayStart(today) /\ UNCHANGED <<queue, run>> /\ Sound
     \/ UNCHANGED <<queue, run>> /\ Fault
  /\ UNCHANGED <<kind, remote, evidence, confirmed, today, up>>

\* The job of another source, before or after this one's, cannot be persisted.
OtherSourceRaises ==
  /\ up /\ looping
  /\ run[Loop] = Idle
  /\ looping' = FALSE
  /\ due' = FALSE
  /\ Fault
  /\ UNCHANGED <<kind, remote, evidence, confirmed, job, row, run, today, up>>

\* POST /sources/{id}/refresh, of a job that is not returned as it is.
Refresh(w) ==
  /\ up
  /\ w # Loop /\ run[w] = Idle
  /\ MayStart(today)
  /\ StartJob(w, today)
  /\ UNCHANGED <<kind, remote, evidence, confirmed, calendar, up>>

\* POST /sources/{id}/sync: an adapter hands in a record, with the default cursor.
HandIn(w, p) ==
  /\ up
  /\ w # Loop /\ run[w] = Idle
  /\ p <= LastPage
  /\ run' = [run EXCEPT ![w] = [NewRun(NoDay) EXCEPT
       !.pc = "import", !.page = p, !.got = remote[p]]]
  /\ UNCHANGED <<kind, remote, evidence, confirmed, queue, calendar, up, faults>>
-----------------------------------------------------------------------------
\* EvidenceSyncService._run_sync

\* get_source; without it the run ends at once.
Load(w) ==
  /\ At(w, "load")
  /\ \/ /\ run' = [run EXCEPT ![w].pc = "fetch", ![w].cursor = source.cursor]
        /\ Sound
     \/ Goto(w, "raise") /\ Fault
  /\ UNCHANGED <<kind, remote, evidence, confirmed, queue, calendar, up>>

\* Mutation: the last page also says that there is one more.
NextCursor_PastEnd(page) ==
  IF kind = "bitable" THEN [page |-> page + 1, done |-> FALSE] ELSE Done

\* next_cursor of a page: the page token of a bitable is empty after the last.
NextCursor(page) ==
  IF page < LastPage THEN [page |-> page + 1, done |-> FALSE] ELSE Done

\* Mutation: a bitable that is done has nothing to fetch either.
Fetched_NothingWhenDone(r) ==
  IF r.cursor.done
  THEN [r EXCEPT !.got = 0, !.next = r.cursor]
  ELSE [r EXCEPT !.page = r.cursor.page, !.got = remote[r.cursor.page],
                 !.next = NextCursor(r.cursor.page)]

\* fetch_page: a bitable that is done starts over, a document that is done has
\* nothing to fetch.
Fetched(r) ==
  IF kind = "document" /\ r.cursor.done
  THEN [r EXCEPT !.got = 0, !.next = r.cursor]
  ELSE LET page == IF r.cursor.done THEN 1 ELSE r.cursor.page
       IN [r EXCEPT !.page = page, !.got = remote[page], !.next = NextCursor(page)]

\* fetch_page blocks the event loop; a connector error ends the run.
Fetch(w) ==
  /\ At(w, "fetch")
  /\ \/ /\ run' = [run EXCEPT ![w] = [Fetched(run[w]) EXCEPT !.pc = "import"]]
        /\ Sound
     \/ Goto(w, "failread") /\ Fault
  /\ UNCHANGED <<kind, remote, evidence, confirmed, queue, calendar, up>>

\* Mutation: confirmed records are overwritten as well.
Import_Confirmed(r) == [stored EXCEPT ![r.page] = IF r.got = 0 THEN @ ELSE r.got]

\* The records after sync_evidence: confirmed content is kept.
Import(r) ==
  [stored EXCEPT ![r.page] = IF r.got = 0 \/ r.page \in confirmed THEN @ ELSE r.got]

\* What a run does after a page: the next one, or its report.  An adapter's call
\* is over.
AfterPage(w) ==
  LET r == run[w]
  IN run' = [run EXCEPT ![w] =
       IF r.day = NoDay THEN Idle
       ELSE [NewRun(r.day) EXCEPT !.pc = IF r.next.done THEN "report" ELSE "fetch",
                                  !.cursor = r.next]]

\* Mutation: the result is not looked at, as for an empty page.
ImportPage_IgnoreError(w) ==
  /\ At(w, "import")
  /\ \/ /\ stored' = Import(run[w])
        /\ source' = [cursor |-> run[w].next, status |-> "succeeded"]
        /\ Sound
     \/ UNCHANGED evidence /\ Fault
  /\ AfterPage(w)
  /\ UNCHANGED <<kind, remote, confirmed, queue, calendar, up>>

\* sync_evidence: the records, the cursor and the status in one transaction.
\* Only the failure of an empty page is not looked at.
ImportPage(w) ==
  /\ At(w, "import")
  /\ \/ /\ stored' = Import(run[w])
        /\ source' = [cursor |-> run[w].next, status |-> "succeeded"]
        /\ AfterPage(w)
        /\ Sound
     \/ /\ UNCHANGED evidence
        /\ IF run[w].got = 0 THEN AfterPage(w) ELSE Goto(w, "failread")
        /\ Fault
  /\ UNCHANGED <<kind, remote, confirmed, queue, calendar, up>>

\* The success audit; if it cannot be written, the run fails.
Report(w) ==
  /\ At(w, "report")
  /\ \/ EndRun(w, "completed")
     \/ Goto(w, "failread") /\ UNCHANGED queue /\ Fault
  /\ UNCHANGED <<kind, remote, evidence, confirmed, calendar, up>>

\* mark_sync_failed reads the source's row ...
FailRead(w) ==
  /\ At(w, "failread")
  /\ \/ /\ run' = [run EXCEPT ![w] = [NewRun(@.day) EXCEPT
             !.pc = "failwrite", !.cursor = source.cursor]]
        /\ Sound
     \/ Goto(w, "raise") /\ Fault
  /\ UNCHANGED <<kind, remote, evidence, confirmed, queue, calendar, up>>

\* ... and writes all of it back, the cursor included.
FailWrite(w) ==
  /\ At(w, "failwrite")
  /\ \/ source' = [cursor |-> run[w].cursor, status |-> "failed"] /\ Sound
     \/ UNCHANGED source /\ Fault
  /\ Goto(w, "raise")
  /\ UNCHANGED <<kind, remote, stored, confirmed, queue, calendar, up>>

\* The failure audit and notification; the exception reaches the queue.
Raise(w) ==
  /\ At(w, "raise")
  /\ EndRun(w, "failed")
  /\ UNCHANGED <<kind, remote, evidence, confirmed, calendar, up>>

Step(w) ==
  \/ Load(w)   \/ Fetch(w)    \/ ImportPage(w) \/ Report(w)
  \/ FailRead(w) \/ FailWrite(w) \/ Raise(w)

-----------------------------------------------------------------------------
\* People, time and the process

\* Somebody edits a page in Feishu.
Edit(p) ==
  /\ remote[p] < MaxVersion
  /\ remote' = [remote EXCEPT ![p] = @ + 1]
  /\ UNCHANGED <<kind, evidence, confirmed, queue, run, calendar, up, faults>>

\* mark_evidence_confirmed.
Confirm(p) ==
  /\ up
  /\ p \in Confirmable /\ stored[p] # 0
  /\ confirmed' = confirmed \cup {p}
  /\ UNCHANGED <<kind, remote, evidence, queue, run, calendar, up, faults>>

\* Midnight, and with it a new key.  A loop that waits has fired at 02:00; one
\* that still runs may be too late for the next 02:00.
NewDay ==
  /\ ~ (up /\ looping /\ due /\ run[Loop] = Idle)
  /\ today' = (today + 1) % DayCount
  /\ \A w \in Workers : run[w] # Idle => run[w].day # today'
  /\ job' = [job EXCEPT ![today'] = NoJob]
  /\ row' = [row EXCEPT ![today'] = NoJob]
  /\ due' \in IF up /\ run[Loop] # Idle THEN BOOLEAN ELSE {TRUE}
  /\ UNCHANGED <<kind, remote, evidence, confirmed, looping, run, up, faults>>

\* The process dies, or shuts down and cancels its tasks.
Crash ==
  /\ up /\ Fault
  /\ up' = FALSE
  /\ looping' = FALSE
  /\ run' = [w \in Workers |-> Idle]
  /\ job' = [d \in Days |-> NoJob]
  /\ UNCHANGED <<kind, remote, evidence, confirmed, row, calendar>>

\* _app_lifespan: load the jobs, recover them, start the loop, which waits for
\* the next 02:00, of today or of tomorrow.
Restart ==
  /\ ~up
  /\ up' = TRUE
  /\ looping' = TRUE
  /\ row' = [d \in Days |-> Recovered(d)]
  /\ job' = row'
  /\ due' \in {due, FALSE}
  /\ UNCHANGED <<kind, remote, evidence, confirmed, run, today, faults>>

\* A write of recover fails, and the start with it; the rows before it are written.
FailedRestart ==
  /\ ~up /\ Fault
  /\ \E written \in SUBSET Days :
       row' = [d \in Days |-> IF d \in written THEN Recovered(d) ELSE row[d]]
  /\ UNCHANGED <<kind, remote, evidence, confirmed, job, looping, run, calendar, up>>

Next ==
  \/ ScheduledSync \/ OtherSourceRaises
  \/ \E w \in Workers : Refresh(w) \/ Step(w)
  \/ \E w \in Workers, p \in Pages : HandIn(w, p)
  \/ \E p \in Pages : Edit(p) \/ Confirm(p)
  \/ NewDay \/ Crash \/ Restart \/ FailedRestart

\* Coroutines go on, time goes on, 02:00 comes while the loop waits for it, and a
\* process that died is started again.  Nobody has to refresh, edit or confirm.
Fairness ==
  /\ WF_vars(ScheduledSync) /\ WF_vars(NewDay) /\ WF_vars(Restart)
  /\ \A w \in Workers : WF_vars(Step(w))

Spec     == Init /\ [][Next]_vars
FairSpec == Spec /\ Fairness

-----------------------------------------------------------------------------
\* The values the variables range over.
TypeOK ==
  /\ kind \in Kinds
  /\ remote \in [Pages -> Versions]
  /\ source \in [cursor : Cursor, status : Statuses]
  /\ stored \in [Pages -> Versions]
  /\ confirmed \subseteq Pages
  /\ job \in [Days -> Job]
  /\ row \in [Days -> Job]
  /\ looping \in BOOLEAN
  /\ run \in [Workers -> Run \cup {Idle}]
  /\ today \in Days
  /\ due \in BOOLEAN
  /\ up \in BOOLEAN
  /\ faults \in 0..MaxFaults

On(w, d) == run[w] # Idle /\ run[w].day = d

\* Scheduler, manual refreshes and restarts share one job per source and day: no
\* two runs of its handler are ever under way, none without its record and its row
\* saying so, and no job is started more than MaxAttempts times.  A job hangs as
\* running in a process that is up only when the write of its start failed, which
\* leaves the row an attempt behind the record (enqueue, recover).
OneRunPerJob ==
  /\ \A d \in Days : job[d].attempts <= MaxAttempts /\ row[d].attempts <= MaxAttempts
  /\ \A d \in Days : \A w, x \in Workers : On(w, d) /\ On(x, d) => w = x
  /\ \A d \in Days, w \in Workers :
       On(w, d) => job[d] = row[d] /\ job[d].status = "running"
  /\ up => \A d \in Days :
       job[d].status = "running" /\ row[d].attempts = job[d].attempts =>
         \E w \in Workers : On(w, d)

\* Passed(c, p): a sync that starts from the cursor c takes page p as imported.
Passed(c, p) == p <= LastPage /\ (c.done \/ p < c.page)

\* The cursor never skips a page that was not imported, although a run that fails
\* writes back the cursor it read before others advanced it, a later day goes on
\* from an unfinished pagination, and calls fail at any point (_run_sync,
\* mark_sync_failed).
ImportedBeforeCursor ==
  \A p \in Pages : Passed(source.cursor, p) => stored[p] # 0

\* Confirmed evidence keeps its content, also when it is confirmed between the
\* fetch of a page and its import (sync_evidence).
ConfirmedKept ==
  [][\A p \in confirmed : stored'[p] = stored[p] /\ p \in confirmed']_vars

Finished(r) ==
  r.status = "completed" \/ (r.status = "failed" /\ r.attempts >= MaxAttempts)

Starts(d) == \E w \in Workers : ~On(w, d) /\ On(w, d)'

\* A job that is known to have completed, or used up its attempts, is over for the
\* day, whoever asks again: while the process is up its record tells, and the row
\* tells however often the process restarts.  A completed job is run again only
\* after a restart that found no word of its completion (enqueue, recover).
OverForTheDay ==
  [][\A d \in Days : today' = today \/ d # today' =>
       /\ Finished(job[d]) \/ Finished(row[d]) => ~Starts(d)
       /\ Finished(row[d]) => row'[d] = row[d]]_vars

UpToDate == \A p \in 1..LastPage : p \in confirmed \/ stored[p] = remote[p]

\* Once edits and faults have ceased, every record of a bitable that is not
\* confirmed is imported in its last version: a failed day, a missed 02:00, a job
\* that hangs, a pagination left half-way or an old page imported late only delays
\* it.  The loop's task must not have ended for good: nothing but a restart of the
\* process starts it again.
BitableCatchesUp == kind = "bitable" /\ []<>looping => <>[]UpToDate

\* The same of a document; there are no failed calls that could end the loop.  ProductDecisionRepository.sync_evidence: "source
\* content updates still advance the watermark for unconfirmed rows".
DocumentCatchesUp == kind = "document" => <>[]UpToDate
=============================================================================
