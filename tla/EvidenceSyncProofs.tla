------------------------- MODULE EvidenceSyncProofs -------------------------
(***************************************************************************)
(* Theorems of EvidenceSync, for any number of workers, pages, days,       *)
(* attempts, edits and faults.                                             *)
(***************************************************************************)
EXTENDS EvidenceSync, TLAPS

-----------------------------------------------------------------------------
(* The inductive invariant. *)

\* What a run may rely on: the pages its cursor passed are imported, and so are
\* those the next cursor passes, but for the page it is about to import.
Covered(r, s) ==
  \A p \in Pages :
    /\ Passed(r.cursor, p) => s[p] # 0
    /\ r.pc = "import" /\ Passed(r.next, p) => s[p] # 0 \/ (p = r.page /\ r.got # 0)

RunsCovered == \A w \in Workers : run[w] # Idle => Covered(run[w], stored)

\* How the record and the row of a job may differ in a process that is up: the
\* write of its start, or of its end, failed.
Hangs(d) ==
  /\ job[d].status = "running"
  /\ job[d].attempts = row[d].attempts + 1
  /\ row[d].status # "completed"
EndUnwritten(d) ==
  /\ job[d].status \in {"completed", "failed"} /\ row[d].status = "running"
  /\ job[d].attempts = row[d].attempts

JobsInv ==
  /\ OneRunPerJob
  /\ \A d \in Days : up => job[d] = row[d] \/ Hangs(d) \/ EndUnwritten(d)
  /\ \A d \in Days : ~up => job[d] = NoJob
  /\ \A d \in Days : row[d].status = "none" => row[d].attempts = 0
  /\ ~up => \A w \in Workers : run[w] = Idle

PagesInv ==
  /\ \A p \in Pages : remote[p] # 0
  /\ \A p \in confirmed : stored[p] # 0
  /\ ImportedBeforeCursor
  /\ RunsCovered

IInv == TypeOK /\ JobsInv /\ PagesInv

-----------------------------------------------------------------------------
(* Runs and their types. *)

LEMMA IdleIsNoRun == Idle \notin Run
BY DEF Idle, Run, Steps

\* The first page and the last day exist.
LEMMA FirstAndLast == 1 \in Pages /\ NoDay \notin Days /\ Start \in Cursor /\ Done \in Cursor
BY NumbersAssumption DEF Pages, NoDay, Days, Start, Done, Cursor

LEMMA NewRunIsRun ==
  ASSUME NEW d \in Days \cup {NoDay}
  PROVE  NewRun(d) \in Run
BY FirstAndLast, NumbersAssumption DEF NewRun, Run, Steps, Versions

LEMMA LastPageIsPage == kind \in Kinds => LastPage \in Pages
BY NumbersAssumption, KindsAssumption DEF LastPage, Pages

\* The next cursor is a cursor, and passes no page but the one fetched and those
\* before it.
LEMMA NextCursorPasses ==
  ASSUME TypeOK, NEW page \in Pages
  PROVE  /\ NextCursor(page) \in Cursor
         /\ \A p \in Pages : p < page \/ p = page \/ ~Passed(NextCursor(page), p)
                               \/ page >= LastPage
<1>1. LastPage \in Pages BY LastPageIsPage DEF TypeOK
<1>2. CASE page < LastPage
  <2>1. NextCursor(page) = [page |-> page + 1, done |-> FALSE]
    BY <1>2 DEF NextCursor
  <2>2. page + 1 \in Pages BY <1>1, <1>2, NumbersAssumption DEF Pages
  <2> QED BY <2>1, <2>2 DEF Cursor, Passed, Pages
<1>3. CASE ~(page < LastPage)
  BY <1>1, <1>3, FirstAndLast DEF NextCursor, Pages
<1> QED BY <1>2, <1>3

-----------------------------------------------------------------------------
(* Jobs: what a change of one worker does to OneRunPerJob. *)

LEMMA SameJobs ==
  ASSUME TypeOK, JobsInv, NEW w \in Workers, run[w] # Idle, NEW r \in Run,
         r.day = run[w].day, run' = [run EXCEPT ![w] = r], UNCHANGED queue, up' = up
  PROVE  JobsInv'
<1>1. \A x \in Workers, d \in Days : On(x, d)' <=> On(x, d)
  BY IdleIsNoRun DEF On, TypeOK
<1>2. up BY DEF JobsInv
<1> QED BY <1>1, <1>2 DEF JobsInv, OneRunPerJob, queue, Hangs, EndUnwritten

\* What a write of the queue leaves, whether it succeeds or raises.
LEMMA PersistType ==
  ASSUME TypeOK, NEW w \in Workers, NEW d \in Days, job' \in [Days -> Job],
         Persist(d) \/ Raises(w)
  PROVE  row' \in [Days -> Job] /\ looping' \in BOOLEAN /\ (Fault \/ Sound)
<1>1. CASE Persist(d) BY <1>1 DEF Persist, TypeOK
<1>2. CASE Raises(w) BY <1>2 DEF Raises, TypeOK
<1> QED BY <1>1, <1>2

LEMMA StartedJob ==
  ASSUME TypeOK, JobsInv, up, up' = up, NEW w \in Workers, run[w] = Idle,
         MayStart(today), StartJob(w, today)
  PROVE  /\ JobsInv' /\ job' \in [Days -> Job] /\ row' \in [Days -> Job]
         /\ looping' \in BOOLEAN /\ run' \in [Workers -> Run \cup {Idle}]
         /\ Fault \/ Sound
<1>1. today \in Days /\ job \in [Days -> Job] /\ row \in [Days -> Job] BY DEF TypeOK
<1>2. NewRun(today) \in Run BY <1>1, NewRunIsRun
<1>3. job' \in [Days -> Job] BY <1>1 DEF StartJob, TypeOK, Job
<1>4. run' \in [Workers -> Run \cup {Idle}] BY <1>2 DEF StartJob, TypeOK
<1>5. \A x \in Workers : ~On(x, today)
  BY <1>1 DEF JobsInv, OneRunPerJob, MayStart
<1>6. /\ job'[today].status = "running"
      /\ job'[today].attempts = job[today].attempts + 1
      /\ \A d \in Days : d # today => job'[d] = job[d]
  BY <1>1 DEF StartJob, TypeOK
<1>7. job[today].attempts \in Nat /\ row[today].attempts \in Nat BY <1>1 DEF Job
<1>8. job[today].attempts = row[today].attempts /\ row[today].status # "completed"
  BY <1>1 DEF MayStart, JobsInv, Hangs, EndUnwritten
<1>9. job[today].attempts < MaxAttempts
  <2>1. CASE job[today].status = "none"
    BY <1>1, <1>7, <2>1, NumbersAssumption DEF JobsInv, Hangs, EndUnwritten
  <2> QED BY <2>1 DEF MayStart
<1>10. \A d \in Days : job'[d].attempts <= MaxAttempts
  BY <1>6, <1>7, <1>9, NumbersAssumption DEF JobsInv, OneRunPerJob
<1>11. \A d \in Days : d # today => row'[d] = row[d]
  BY <1>1 DEF StartJob, Persist, Raises
<1>12. ASSUME Persist(today), run' = [run EXCEPT ![w] = NewRun(today)]
       PROVE  JobsInv'
  <2>1. \A x \in Workers, d \in Days : On(x, d)' <=> On(x, d) \/ (x = w /\ d = today)
    BY <1>2, <1>12, IdleIsNoRun DEF On, TypeOK, NewRun
  <2>2. row'[today] = job'[today] BY <1>1, <1>12 DEF Persist
  <2>3. OneRunPerJob'
    BY <1>5, <1>6, <1>10, <1>11, <2>1, <2>2 DEF JobsInv, OneRunPerJob
  <2>4. \A d \in Days : (job[d] = row[d] \/ Hangs(d) \/ EndUnwritten(d))'
    BY <1>6, <1>11, <2>2 DEF JobsInv, Hangs, EndUnwritten
  <2>5. \A d \in Days : row'[d].status = "none" => row'[d].attempts = 0
    BY <1>6, <1>11, <2>2 DEF JobsInv
  <2> QED BY <2>3, <2>4, <2>5 DEF JobsInv
<1>13. ASSUME Raises(w), UNCHANGED run PROVE JobsInv'
  <2>1. \A x \in Workers, d \in Days : On(x, d)' <=> On(x, d) BY <1>13 DEF On
  <2>2. row' = row BY <1>13 DEF Raises
  <2>3. \A d \in Days : d = today => Hangs(d)' BY <1>6, <1>8, <2>2 DEF Hangs
  <2>4. OneRunPerJob'
    <3>1. \A d \in Days : row'[d].attempts <= MaxAttempts
      BY <2>2 DEF JobsInv, OneRunPerJob
    <3>2. \A d \in Days, x \in Workers :
            On(x, d)' => job'[d] = row'[d] /\ job'[d].status = "running"
      BY <1>5, <1>6, <2>1, <2>2 DEF JobsInv, OneRunPerJob
    <3>3. \A d \in Days : job'[d].status = "running" /\ row'[d].attempts = job'[d].attempts =>
            d # today
      BY <1>6, <1>7, <1>8, <2>2
    <3> QED BY <1>6, <1>10, <2>1, <2>2, <3>1, <3>2, <3>3 DEF JobsInv, OneRunPerJob
  <2>5. \A d \in Days : (job[d] = row[d] \/ Hangs(d) \/ EndUnwritten(d))'
    BY <1>6, <2>2, <2>3 DEF JobsInv, Hangs, EndUnwritten
  <2> QED BY <2>2, <2>4, <2>5 DEF JobsInv
<1>14. row' \in [Days -> Job] /\ looping' \in BOOLEAN /\ (Fault \/ Sound)
  BY <1>1, <1>3, PersistType DEF StartJob
<1> QED BY <1>3, <1>4, <1>12, <1>13, <1>14 DEF StartJob

LEMMA EndedJob ==
  ASSUME TypeOK, JobsInv, up' = up, NEW w \in Workers, run[w] # Idle,
         NEW status \in {"completed", "failed"}, EndRun(w, status)
  PROVE  /\ JobsInv' /\ job' \in [Days -> Job] /\ row' \in [Days -> Job]
         /\ looping' \in BOOLEAN /\ run' \in [Workers -> Run \cup {Idle}]
         /\ Fault \/ Sound
<1> DEFINE day == run[w].day
<1>1. run[w] \in Run /\ day \in Days \cup {NoDay} /\ up
  BY DEF TypeOK, Run, JobsInv
<1>2. run' = [run EXCEPT ![w] = Idle] /\ run' \in [Workers -> Run \cup {Idle}]
  BY DEF EndRun, TypeOK
<1>3. \A x \in Workers, d \in Days : On(x, d)' <=> On(x, d) /\ x # w
  BY <1>2 DEF On, TypeOK
<1>4. \A d \in Days : On(w, d) <=> d = day
  BY DEF On
<1>5. CASE day = NoDay
  <2>1. UNCHANGED queue /\ Sound BY <1>5 DEF EndRun
  <2>2. \A x \in Workers, d \in Days : On(x, d)' <=> On(x, d)
    BY <1>3, <1>4, <1>5, FirstAndLast
  <2>3. JobsInv'
    BY <1>1, <2>1, <2>2 DEF JobsInv, OneRunPerJob, queue, Hangs, EndUnwritten
  <2> QED BY <1>2, <2>1, <2>3 DEF TypeOK, queue
<1>6. CASE day # NoDay
  <2>1. /\ day \in Days /\ job' = [job EXCEPT ![day].status = status]
        /\ Persist(day) \/ Raises(w)
    BY <1>1, <1>6 DEF EndRun
  <2>2. job \in [Days -> Job] /\ row \in [Days -> Job] BY DEF TypeOK
  <2>3. job' \in [Days -> Job] BY <2>1, <2>2 DEF Job
  <2>4. \A d \in Days : d # day => job'[d] = job[d] /\ row'[d] = row[d]
    BY <2>1, <2>2 DEF Persist, Raises
  <2>5. job[day] = row[day] /\ job[day].status = "running"
    BY <1>4, <2>1 DEF JobsInv, OneRunPerJob
  <2>6. /\ job'[day].status = status /\ job'[day].attempts = job[day].attempts
        /\ row'[day] = job'[day] \/ row'[day] = row[day]
    BY <2>1, <2>2 DEF Persist, Raises, Job
  <2>7. \A d \in Days : d = day => (job[d] = row[d] \/ EndUnwritten(d))'
    BY <2>5, <2>6 DEF EndUnwritten
  <2>8. \A d \in Days : (job[d] = row[d] \/ Hangs(d) \/ EndUnwritten(d))'
    BY <1>1, <2>4, <2>7 DEF JobsInv, Hangs, EndUnwritten
  <2>9. \A d \in Days : row'[d].status = "none" => row'[d].attempts = 0
    BY <2>4, <2>5, <2>6 DEF JobsInv
  <2>10. OneRunPerJob'
    <3>1. \A d \in Days : job'[d].attempts <= MaxAttempts /\ row'[d].attempts <= MaxAttempts
      BY <2>4, <2>5, <2>6 DEF JobsInv, OneRunPerJob
    <3>2. \A d \in Days, x \in Workers :
            On(x, d)' => job'[d] = row'[d] /\ job'[d].status = "running"
      BY <1>3, <1>4, <2>4 DEF JobsInv, OneRunPerJob
    <3>3. \A d \in Days : job'[d].status = "running" => d # day
      BY <2>6
    <3> QED BY <1>1, <1>3, <1>4, <2>4, <3>1, <3>2, <3>3 DEF JobsInv, OneRunPerJob
  <2>11. row' \in [Days -> Job] /\ looping' \in BOOLEAN /\ (Fault \/ Sound)
    BY <2>1, <2>3, PersistType
  <2> QED BY <1>1, <1>2, <2>3, <2>8, <2>9, <2>10, <2>11 DEF JobsInv
<1> QED BY <1>5, <1>6

-----------------------------------------------------------------------------
(* Pages: what a change of one worker does to PagesInv. *)

\* Imported pages stay imported, and covered runs stay covered.
LEMMA OneRunCovered ==
  ASSUME TypeOK, RunsCovered, kind' = kind, NEW w \in Workers, NEW r,
         run' = [run EXCEPT ![w] = r], r # Idle => Covered(r, stored'),
         \A p \in Pages : stored[p] # 0 => stored'[p] # 0
  PROVE  RunsCovered'
BY DEF RunsCovered, TypeOK, Covered, Passed, LastPage

\* A step that leaves the pages and the cursor alone and changes one worker.
LEMMA OnlyRun ==
  ASSUME TypeOK, PagesInv, UNCHANGED <<kind, remote, evidence, confirmed>>,
         NEW w \in Workers, NEW r, run' = [run EXCEPT ![w] = r],
         r # Idle => Covered(r, stored)
  PROVE  PagesInv'
<1>1. RunsCovered' BY OneRunCovered DEF PagesInv, evidence
<1> QED BY <1>1 DEF PagesInv, ImportedBeforeCursor, Passed, LastPage, evidence

\* A run at its start, or with a cursor that was persisted, is covered.
LEMMA PersistedIsCovered ==
  ASSUME TypeOK, PagesInv, NEW r, r.pc # "import",
         r.cursor = Start \/ r.cursor = source.cursor
  PROVE  Covered(r, stored)
<1>1. \A p \in Pages : ~Passed(Start, p) BY DEF Passed, Start, Pages
<1> QED BY <1>1 DEF Covered, PagesInv, ImportedBeforeCursor

LEMMA InitOK == Init => IInv
<1> SUFFICES ASSUME Init PROVE IInv OBVIOUS
<1>1. TypeOK
  BY NumbersAssumption, FirstAndLast
  DEF Init, TypeOK, Versions, Statuses, NoJob, Job, Days
<1>2. JobsInv BY NumbersAssumption DEF Init, JobsInv, OneRunPerJob, On, NoJob
<1>3. PagesInv
  BY DEF Init, PagesInv, ImportedBeforeCursor, RunsCovered, Passed, Start, Pages
<1> QED BY <1>1, <1>2, <1>3 DEF IInv

-----------------------------------------------------------------------------
(* One lemma per action. *)

LEMMA FaultCount ==
  ASSUME TypeOK, Fault \/ Sound
  PROVE  faults' \in 0..MaxFaults
BY NumbersAssumption DEF TypeOK, Fault, Sound

\* The pages and their runs stay as they are.
LEMMA SamePages ==
  ASSUME PagesInv, UNCHANGED <<kind, evidence, confirmed, run>>,
         \A p \in Pages : remote'[p] # 0
  PROVE  PagesInv'
BY DEF PagesInv, ImportedBeforeCursor, RunsCovered, Covered, Passed, LastPage, evidence

LEMMA StartStep ==
  ASSUME IInv, NEW w \in Workers, up, run[w] = Idle, MayStart(today),
         StartJob(w, today), up' = up, due' \in BOOLEAN, today' = today,
         UNCHANGED <<kind, remote, evidence, confirmed>>
  PROVE  IInv'
<1>1. /\ JobsInv' /\ job' \in [Days -> Job] /\ row' \in [Days -> Job]
      /\ looping' \in BOOLEAN /\ run' \in [Workers -> Run \cup {Idle}]
      /\ Fault \/ Sound
  BY StartedJob DEF IInv
<1>2. Covered(NewRun(today), stored)
  BY PersistedIsCovered DEF IInv, NewRun
<1>3. PagesInv'
  <2>1. CASE UNCHANGED run BY <2>1, SamePages DEF IInv, PagesInv
  <2>2. CASE run' = [run EXCEPT ![w] = NewRun(today)] BY <1>2, <2>2, OnlyRun DEF IInv
  <2> QED BY <2>1, <2>2 DEF StartJob
<1>4. TypeOK' BY <1>1, FaultCount DEF IInv, TypeOK, evidence
<1> QED BY <1>1, <1>3, <1>4 DEF IInv

\* Nothing that the jobs and the pages depend on changes.
LEMMA NoRunChanges ==
  ASSUME IInv, TypeOK', UNCHANGED <<kind, evidence, confirmed, job, row, run, up>>,
         \A p \in Pages : remote'[p] # 0
  PROVE  IInv'
<1>1. \A x \in Workers, d \in Days : On(x, d)' <=> On(x, d) BY DEF On
<1>2. JobsInv' BY <1>1 DEF IInv, JobsInv, OneRunPerJob, Hangs, EndUnwritten
<1> QED BY <1>2, SamePages DEF IInv

LEMMA ScheduledSyncStep == ASSUME IInv, ScheduledSync PROVE IInv'
<1>1. CASE MayStart(today) /\ StartJob(Loop, today)
  BY <1>1, StartStep, LoopAssumption DEF ScheduledSync
<1>2. CASE UNCHANGED <<queue, run>> /\ (Fault \/ Sound)
  <2>1. TypeOK' BY <1>2, FaultCount DEF ScheduledSync, evidence, queue, IInv, TypeOK
  <2> QED BY <1>2, <2>1, NoRunChanges DEF ScheduledSync, IInv, PagesInv, queue
<1> QED BY <1>1, <1>2 DEF ScheduledSync

LEMMA OtherSourceRaisesStep == ASSUME IInv, OtherSourceRaises PROVE IInv'
<1>1. TypeOK' BY FaultCount DEF OtherSourceRaises, evidence, IInv, TypeOK
<1> QED BY <1>1, NoRunChanges DEF OtherSourceRaises, IInv, PagesInv

LEMMA RefreshStep == ASSUME IInv, NEW w \in Workers, Refresh(w) PROVE IInv'
BY StartStep DEF Refresh, calendar, IInv, TypeOK

LEMMA HandInStep ==
  ASSUME IInv, NEW w \in Workers, NEW p \in Pages, HandIn(w, p)
  PROVE  IInv'
<1> DEFINE r == [NewRun(NoDay) EXCEPT !.pc = "import", !.page = p, !.got = remote[p]]
<1>1. /\ r.day = NoDay /\ r.pc = "import" /\ r.cursor = Start /\ r.next = Start
      /\ run' = [run EXCEPT ![w] = r]
  BY DEF HandIn, NewRun
<1>2. r \in Run
  BY NewRunIsRun, FirstAndLast DEF NewRun, Run, Steps, IInv, TypeOK
<1> HIDE DEF r
<1>3. Covered(r, stored)
  BY <1>1 DEF Covered, Passed, Start, Pages
<1>4. PagesInv' BY <1>1, <1>3, OnlyRun DEF IInv, HandIn
<1>5. TypeOK' BY <1>1, <1>2 DEF IInv, TypeOK, HandIn, evidence, calendar, queue
<1>6. \A x \in Workers, d \in Days : On(x, d)' <=> On(x, d)
  BY <1>1, FirstAndLast DEF On, HandIn, IInv, TypeOK
<1>7. JobsInv'
  BY <1>6 DEF IInv, JobsInv, OneRunPerJob, HandIn, queue, Hangs, EndUnwritten
<1> QED BY <1>4, <1>5, <1>7 DEF IInv

\* A worker goes on: its job, the pages and the cursor stay as they are.
LEMMA GoOn ==
  ASSUME IInv, NEW w \in Workers, run[w] # Idle, NEW r \in Run, r.day = run[w].day,
         run' = [run EXCEPT ![w] = r], Covered(r, stored), faults' \in 0..MaxFaults,
         UNCHANGED <<kind, remote, evidence, confirmed, queue, calendar, up>>
  PROVE  IInv'
<1>1. JobsInv' BY SameJobs DEF IInv
<1>2. PagesInv' BY OnlyRun, IdleIsNoRun DEF IInv
<1>3. TypeOK' BY DEF IInv, TypeOK, evidence, calendar, queue
<1> QED BY <1>1, <1>2, <1>3 DEF IInv

\* Going to a step that is no import needs no more than the run had.
LEMMA GoesOn ==
  ASSUME IInv, NEW w \in Workers, run[w] # Idle, NEW step \in Steps \ {"import"},
         Goto(w, step), Fault \/ Sound,
         UNCHANGED <<kind, remote, evidence, confirmed, queue, calendar, up>>
  PROVE  IInv'
<1>1. run[w] \in Run BY DEF IInv, TypeOK
<1>2. PICK r \in Run : r = [run[w] EXCEPT !.pc = step] BY <1>1 DEF Run
<1>3. run' = [run EXCEPT ![w] = r] BY <1>2 DEF Goto
<1>4. r.day = run[w].day /\ r.cursor = run[w].cursor /\ r.pc = step
  BY <1>1, <1>2 DEF Run
<1>5. Covered(r, stored) BY <1>4 DEF IInv, PagesInv, RunsCovered, Covered
<1>6. faults' \in 0..MaxFaults BY FaultCount DEF IInv
<1> QED BY <1>3, <1>4, <1>5, <1>6, GoOn

LEMMA LoadStep == ASSUME IInv, NEW w \in Workers, Load(w) PROVE IInv'
<1>1. run[w] \in Run /\ run[w] # Idle BY DEF Load, At, IInv, TypeOK
<1>2. CASE /\ run' = [run EXCEPT ![w].pc = "fetch", ![w].cursor = source.cursor]
           /\ Sound
  <2>1. source.cursor \in Cursor BY DEF IInv, TypeOK
  <2>2. PICK r \in Run : r = [run[w] EXCEPT !.pc = "fetch", !.cursor = source.cursor]
    BY <1>1, <2>1 DEF Run, Steps
  <2>3. run' = [run EXCEPT ![w] = r] BY <1>1, <1>2, <2>2 DEF IInv, TypeOK
  <2>4. r.day = run[w].day /\ r.cursor = source.cursor /\ r.pc = "fetch"
    BY <1>1, <2>2 DEF Run
  <2>5. Covered(r, stored) BY <2>4, PersistedIsCovered DEF IInv
  <2>6. faults' \in 0..MaxFaults BY <1>2, FaultCount DEF IInv
  <2> QED BY <1>1, <2>3, <2>4, <2>5, <2>6, GoOn DEF Load
<1>3. CASE Goto(w, "raise") /\ Fault
  BY <1>1, <1>3, GoesOn DEF Load, Steps
<1> QED BY <1>2, <1>3 DEF Load
\* What fetch_page returns fits the run that asked for it.
LEMMA FetchedFits ==
  ASSUME IInv, NEW r \in Run, r # Idle, Covered(r, stored),
         NEW f, f = [Fetched(r) EXCEPT !.pc = "import"]
  PROVE  f \in Run /\ f.day = r.day /\ f.pc = "import" /\ Covered(f, stored)
<1>1. CASE kind = "document" /\ r.cursor.done
  <2>1. /\ f \in Run /\ f.day = r.day /\ f.pc = "import"
        /\ f.cursor = r.cursor /\ f.next = r.cursor
    <3>1. f = [r EXCEPT !.got = 0, !.next = r.cursor, !.pc = "import"]
      BY <1>1 DEF Fetched
    <3>2. 0 \in Versions BY NumbersAssumption DEF Versions
    <3> QED BY <3>1, <3>2 DEF Run, Steps
  <2> QED BY <2>1 DEF Covered
<1>2. CASE ~ (kind = "document" /\ r.cursor.done)
  <2> DEFINE page == IF r.cursor.done THEN 1 ELSE r.cursor.page
  <2>1. page \in Pages BY FirstAndLast DEF Run, Cursor
  <2>2. /\ NextCursor(page) \in Cursor
        /\ \A p \in Pages : p < page \/ p = page \/ ~Passed(NextCursor(page), p)
                              \/ page >= LastPage
    BY <2>1, NextCursorPasses DEF IInv
  <2>3. remote[page] \in Versions /\ remote[page] # 0
    BY <2>1 DEF IInv, TypeOK, PagesInv
  <2>4. f = [r EXCEPT !.page = page, !.got = remote[page],
                      !.next = NextCursor(page), !.pc = "import"]
    BY <1>2 DEF Fetched
  <2>5. /\ f \in Run /\ f.day = r.day /\ f.pc = "import" /\ f.cursor = r.cursor
        /\ f.next = NextCursor(page) /\ f.page = page /\ f.got = remote[page]
    BY <2>1, <2>2, <2>3, <2>4 DEF Run, Steps
  <2>6. ASSUME NEW p \in Pages, Passed(NextCursor(page), p), p # page
        PROVE  stored[p] # 0
    <3>1. r.cursor.page \in Pages BY DEF Run, Cursor
    <3>2. CASE r.cursor.done
      BY <3>2, <2>6 DEF Covered, Passed
    <3>3. CASE ~r.cursor.done
      <4>1. page = r.cursor.page BY <3>3
      <4>2. p < page
        BY <2>1, <2>2, <2>6, <4>1, NumbersAssumption DEF Passed, Pages, LastPage
      <4> QED BY <4>1, <4>2, <2>6 DEF Covered, Passed
    <3> QED BY <3>2, <3>3
  <2> HIDE DEF page
  <2> QED BY <2>3, <2>5, <2>6 DEF Covered
<1> QED BY <1>1, <1>2

LEMMA FetchStep == ASSUME IInv, NEW w \in Workers, Fetch(w) PROVE IInv'
<1>1. run[w] \in Run /\ run[w] # Idle BY DEF Fetch, At, IInv, TypeOK
<1>2. CASE /\ run' = [run EXCEPT ![w] = [Fetched(run[w]) EXCEPT !.pc = "import"]]
           /\ Sound
  <2>1. Covered(run[w], stored) BY <1>1 DEF IInv, PagesInv, RunsCovered
  <2>2. PICK f : f = [Fetched(run[w]) EXCEPT !.pc = "import"] OBVIOUS
  <2>3. f \in Run /\ f.day = run[w].day /\ Covered(f, stored)
    BY <1>1, <2>1, <2>2, FetchedFits
  <2>4. faults' \in 0..MaxFaults BY <1>2, FaultCount DEF IInv
  <2> QED BY <1>1, <1>2, <2>2, <2>3, <2>4, GoOn DEF Fetch
<1>3. CASE Goto(w, "failread") /\ Fault
  BY <1>1, <1>3, GoesOn DEF Fetch, Steps
<1> QED BY <1>2, <1>3 DEF Fetch

\* The run after a page that was imported, or was empty.
LEMMA AfterPageStep ==
  ASSUME IInv, NEW w \in Workers, run[w] # Idle, AfterPage(w), Fault \/ Sound,
         UNCHANGED <<kind, remote, confirmed, queue, calendar, up>>,
         stored' \in [Pages -> Versions],
         \A p \in Pages : stored[p] # 0 => stored'[p] # 0,
         source' \in [cursor : Cursor, status : Statuses],
         \A p \in Pages : Passed(run[w].next, p) => stored'[p] # 0,
         source'.cursor = source.cursor \/ source'.cursor = run[w].next
  PROVE  IInv'
<1>1. run[w] \in Run /\ run[w].day \in Days \cup {NoDay} BY DEF IInv, TypeOK, Run
<1>2. \A p \in Pages : \A c : Passed(c, p)' <=> Passed(c, p)
  BY DEF Passed, LastPage
<1>3. ImportedBeforeCursor'
  <2>1. ASSUME NEW p \in Pages, Passed(source'.cursor, p) PROVE stored'[p] # 0
    BY <2>1 DEF IInv, PagesInv, ImportedBeforeCursor
  <2> QED BY <2>1 DEF ImportedBeforeCursor, Passed, LastPage
<1>4. CASE run[w].day = NoDay
  <2>1. run' = [run EXCEPT ![w] = Idle] BY <1>4 DEF AfterPage
  <2>2. RunsCovered' BY <2>1, OneRunCovered DEF IInv, PagesInv
  <2>3. PagesInv' BY <1>3, <2>2 DEF IInv, PagesInv, TypeOK
  <2>4. \A x \in Workers, d \in Days : On(x, d)' <=> On(x, d)
    BY <1>4, <2>1, FirstAndLast DEF On, IInv, TypeOK
  <2>5. JobsInv'
    BY <2>1, <2>4 DEF IInv, JobsInv, OneRunPerJob, queue, Hangs, EndUnwritten, TypeOK
  <2>6. TypeOK' BY <2>1, FaultCount DEF IInv, TypeOK, calendar, queue
  <2> QED BY <2>3, <2>5, <2>6 DEF IInv
<1>5. CASE run[w].day # NoDay
  <2> DEFINE next == [NewRun(run[w].day) EXCEPT
             !.pc = IF run[w].next.done THEN "report" ELSE "fetch", !.cursor = run[w].next]
  <2>1. run[w].next \in Cursor BY <1>1 DEF Run
  <2>2. next \in Run BY <1>1, <2>1, NewRunIsRun DEF Run, Steps
  <2>3. /\ next.cursor = run[w].next /\ next.pc \in {"report", "fetch"}
        /\ next.day = run[w].day
    BY DEF NewRun
  <2>4. PICK r \in Run : r = next BY <2>2
  <2>5. run' = [run EXCEPT ![w] = r] BY <1>5, <2>4 DEF AfterPage
  <2> HIDE DEF next
  <2>6. Covered(r, stored') BY <2>3, <2>4 DEF Covered
  <2>7. RunsCovered' BY <2>5, <2>6, OneRunCovered DEF IInv, PagesInv
  <2>8. PagesInv' BY <1>3, <2>7 DEF IInv, PagesInv, TypeOK
  <2>9. JobsInv' BY <2>3, <2>4, <2>5, SameJobs DEF IInv
  <2>10. TypeOK' BY <2>5, FaultCount DEF IInv, TypeOK, calendar, queue
  <2> QED BY <2>8, <2>9, <2>10 DEF IInv
<1> QED BY <1>4, <1>5
LEMMA ImportPageStep == ASSUME IInv, NEW w \in Workers, ImportPage(w) PROVE IInv'
<1>1. run[w] \in Run /\ run[w] # Idle /\ run[w].pc = "import"
  BY DEF ImportPage, At, IInv, TypeOK
<1>2. \A p \in Pages : Passed(run[w].next, p) =>
        stored[p] # 0 \/ (p = run[w].page /\ run[w].got # 0)
  BY <1>1 DEF IInv, PagesInv, RunsCovered, Covered
<1>3. CASE /\ stored' = Import(run[w])
           /\ source' = [cursor |-> run[w].next, status |-> "succeeded"]
           /\ AfterPage(w)
           /\ Sound
  <2>1. /\ run[w].page \in Pages /\ run[w].got \in Versions /\ run[w].next \in Cursor
    BY <1>1 DEF Run
  <2>2. stored' \in [Pages -> Versions]
    BY <1>3, <2>1 DEF Import, IInv, TypeOK
  <2>3. \A p \in Pages : stored[p] # 0 => stored'[p] # 0
    BY <1>3, <2>1 DEF Import, IInv, TypeOK
  <2>4. run[w].got # 0 => stored'[run[w].page] # 0
    BY <1>3, <2>1 DEF Import, IInv, TypeOK, PagesInv
  <2>5. source' \in [cursor : Cursor, status : Statuses]
    BY <1>3, <2>1 DEF Statuses
  <2>6. source'.cursor = run[w].next BY <1>3
  <2>7. \A p \in Pages : Passed(run[w].next, p) => stored'[p] # 0
    BY <1>2, <2>3, <2>4
  <2> QED BY <1>1, <1>3, <2>2, <2>3, <2>5, <2>6, <2>7, AfterPageStep DEF ImportPage
<1>4. CASE UNCHANGED evidence /\ run[w].got = 0 /\ AfterPage(w) /\ Fault
  <2>1. stored' = stored /\ source' = source BY <1>4 DEF evidence
  <2>2. \A p \in Pages : Passed(run[w].next, p) => stored'[p] # 0
    BY <1>2, <1>4, <2>1
  <2> QED BY <1>1, <1>4, <2>1, <2>2, AfterPageStep DEF ImportPage, IInv, TypeOK
<1>5. CASE UNCHANGED evidence /\ Goto(w, "failread") /\ Fault
  BY <1>1, <1>5, GoesOn DEF ImportPage, Steps
<1> QED BY <1>3, <1>4, <1>5 DEF ImportPage

\* A run ends, and with it its job.
LEMMA EndStep ==
  ASSUME IInv, NEW w \in Workers, run[w] # Idle,
         NEW status \in {"completed", "failed"}, EndRun(w, status),
         UNCHANGED <<kind, remote, evidence, confirmed, calendar, up>>
  PROVE  IInv'
<1>1. /\ JobsInv' /\ job' \in [Days -> Job] /\ row' \in [Days -> Job]
      /\ looping' \in BOOLEAN /\ run' \in [Workers -> Run \cup {Idle}]
      /\ Fault \/ Sound
  BY EndedJob DEF IInv
<1>2. PagesInv' BY OnlyRun DEF IInv, EndRun
<1>3. faults' \in 0..MaxFaults BY <1>1, FaultCount DEF IInv
<1>4. TypeOK' BY <1>1, <1>3 DEF IInv, TypeOK, evidence, calendar
<1> QED BY <1>1, <1>2, <1>4 DEF IInv

LEMMA ReportStep == ASSUME IInv, NEW w \in Workers, Report(w) PROVE IInv'
<1>1. run[w] # Idle BY DEF Report, At
<1>2. CASE EndRun(w, "completed") BY <1>1, <1>2, EndStep DEF Report
<1>3. CASE Goto(w, "failread") /\ UNCHANGED queue /\ Fault
  BY <1>1, <1>3, GoesOn DEF Report, Steps
<1> QED BY <1>2, <1>3 DEF Report

LEMMA FailReadStep == ASSUME IInv, NEW w \in Workers, FailRead(w) PROVE IInv'
<1>1. run[w] \in Run /\ run[w] # Idle /\ run[w].day \in Days \cup {NoDay}
  BY DEF FailRead, At, IInv, TypeOK, Run
<1>2. CASE /\ run' = [run EXCEPT ![w] = [NewRun(@.day) EXCEPT
                 !.pc = "failwrite", !.cursor = source.cursor]]
           /\ Sound
  <2> DEFINE next == [NewRun(run[w].day) EXCEPT
             !.pc = "failwrite", !.cursor = source.cursor]
  <2>1. source.cursor \in Cursor BY DEF IInv, TypeOK
  <2>2. next \in Run BY <1>1, <2>1, NewRunIsRun DEF Run, Steps
  <2>3. next.cursor = source.cursor /\ next.pc = "failwrite" /\ next.day = run[w].day
    BY DEF NewRun
  <2>4. run' = [run EXCEPT ![w] = next] BY <1>2
  <2> HIDE DEF next
  <2>5. PICK r \in Run : r = next BY <2>2
  <2>6. Covered(r, stored) BY <2>3, <2>5, PersistedIsCovered DEF IInv
  <2>7. faults' \in 0..MaxFaults BY <1>2, FaultCount DEF IInv
  <2> QED BY <1>1, <2>3, <2>4, <2>5, <2>6, <2>7, GoOn DEF FailRead
<1>3. CASE Goto(w, "raise") /\ Fault BY <1>1, <1>3, GoesOn DEF FailRead, Steps
<1> QED BY <1>2, <1>3 DEF FailRead

LEMMA FailWriteStep == ASSUME IInv, NEW w \in Workers, FailWrite(w) PROVE IInv'
<1>1. run[w] \in Run /\ run[w] # Idle BY DEF FailWrite, At, IInv, TypeOK
<1>2. CASE UNCHANGED source /\ Fault
  BY <1>1, <1>2, GoesOn DEF FailWrite, evidence, Steps
<1>3. CASE source' = [cursor |-> run[w].cursor, status |-> "failed"] /\ Sound
  <2>1. PICK r \in Run : r = [run[w] EXCEPT !.pc = "raise"]
    BY <1>1 DEF Run, Steps
  <2>2. run' = [run EXCEPT ![w] = r] BY <2>1 DEF FailWrite, Goto
  <2>3. r.day = run[w].day /\ r.cursor = run[w].cursor /\ r.pc = "raise"
    BY <1>1, <2>1 DEF Run
  <2>4. Covered(run[w], stored) BY <1>1 DEF IInv, PagesInv, RunsCovered
  <2>5. Covered(r, stored') BY <2>3, <2>4 DEF Covered, FailWrite
  <2>6. RunsCovered' BY <2>2, <2>5, OneRunCovered DEF IInv, PagesInv, FailWrite
  <2>7. ImportedBeforeCursor'
    BY <1>3, <2>4 DEF ImportedBeforeCursor, Covered, Passed, LastPage, FailWrite
  <2>8. PagesInv' BY <2>6, <2>7 DEF IInv, PagesInv, FailWrite
  <2>9. JobsInv' BY <1>1, <2>2, <2>3, SameJobs DEF IInv, FailWrite
  <2>10. source' \in [cursor : Cursor, status : Statuses]
    BY <1>1, <1>3 DEF Run, Statuses
  <2>11. TypeOK'
    BY <1>3, <2>2, <2>10, FaultCount DEF IInv, TypeOK, FailWrite, calendar, queue
  <2> QED BY <2>8, <2>9, <2>11 DEF IInv
<1> QED BY <1>2, <1>3 DEF FailWrite

LEMMA RaiseStep == ASSUME IInv, NEW w \in Workers, Raise(w) PROVE IInv'
BY EndStep DEF Raise, At

LEMMA EditStep == ASSUME IInv, NEW p \in Pages, Edit(p) PROVE IInv'
<1>1. remote[p] \in Versions /\ remote[p] + 1 \in Versions \ {0}
  BY NumbersAssumption DEF Edit, IInv, TypeOK, Versions
<1>2. TypeOK' BY <1>1 DEF Edit, IInv, TypeOK, evidence, calendar, queue
<1>3. \A q \in Pages : remote'[q] # 0 BY <1>1 DEF Edit, IInv, TypeOK, PagesInv
<1> QED BY <1>2, <1>3, NoRunChanges DEF Edit, queue

LEMMA ConfirmStep == ASSUME IInv, NEW p \in Pages, Confirm(p) PROVE IInv'
<1>1. TypeOK' BY DEF Confirm, IInv, TypeOK, evidence, calendar, queue
<1>2. \A x \in Workers, d \in Days : On(x, d)' <=> On(x, d) BY DEF On, Confirm
<1>3. JobsInv'
  BY <1>2 DEF IInv, JobsInv, OneRunPerJob, Confirm, queue, Hangs, EndUnwritten
<1>4. PagesInv'
  BY DEF IInv, PagesInv, ImportedBeforeCursor, RunsCovered, Covered, Passed,
     LastPage, Confirm, evidence
<1> QED BY <1>1, <1>3, <1>4 DEF IInv

LEMMA NewDayStep == ASSUME IInv, NewDay PROVE IInv'
<1>1. today' \in Days BY NumbersAssumption DEF NewDay, IInv, TypeOK, Days
<1>2. job' \in [Days -> Job] /\ row' \in [Days -> Job]
  BY <1>1 DEF NewDay, IInv, TypeOK, NoJob, Job
<1>3. due' \in BOOLEAN BY DEF NewDay
<1>4. TypeOK' BY <1>1, <1>2, <1>3 DEF NewDay, IInv, TypeOK, evidence
<1>5. PagesInv' BY SamePages DEF IInv, PagesInv, NewDay
<1>6. \A x \in Workers, d \in Days : On(x, d)' <=> On(x, d) BY DEF On, NewDay
<1>7. \A x \in Workers : ~On(x, today') BY DEF On, NewDay
<1>8. /\ job'[today'] = NoJob /\ row'[today'] = NoJob
      /\ \A d \in Days : d # today' => job'[d] = job[d] /\ row'[d] = row[d]
  BY <1>1 DEF NewDay, IInv, TypeOK
<1>9. JobsInv'
  <2>1. \A d \in Days : job'[d].attempts <= MaxAttempts /\ row'[d].attempts <= MaxAttempts
    BY <1>8, NumbersAssumption DEF NoJob, IInv, JobsInv, OneRunPerJob
  <2>2. \A d \in Days : row'[d].status = "none" => row'[d].attempts = 0
    BY <1>8 DEF NoJob, IInv, JobsInv
  <2>3. OneRunPerJob'
    BY <1>6, <1>7, <1>8, <2>1 DEF NoJob, IInv, JobsInv, OneRunPerJob, NewDay
  <2>4. \A d \in Days : /\ up' => (job[d] = row[d] \/ Hangs(d) \/ EndUnwritten(d))'
                        /\ ~up' => job'[d] = NoJob
    BY <1>8 DEF IInv, JobsInv, NewDay, Hangs, EndUnwritten
  <2> QED BY <2>2, <2>3, <2>4 DEF JobsInv, IInv, NewDay
<1> QED BY <1>4, <1>5, <1>9 DEF IInv

LEMMA CrashStep == ASSUME IInv, Crash PROVE IInv'
<1>1. \A w \in Workers : run'[w] = Idle BY DEF Crash
<1>2. faults' \in 0..MaxFaults BY FaultCount DEF Crash, IInv
<1>3. TypeOK'
  BY <1>2, NumbersAssumption DEF Crash, IInv, TypeOK, evidence, calendar, NoJob, Job
<1>4. PagesInv'
  BY <1>1 DEF IInv, PagesInv, ImportedBeforeCursor, RunsCovered, Passed, LastPage,
     Crash, evidence
<1>5. \A d \in Days : job'[d] = NoJob /\ row'[d] = row[d] BY DEF Crash
<1>6. JobsInv'
  BY <1>1, <1>5, NumbersAssumption DEF IInv, JobsInv, OneRunPerJob, On, Crash, NoJob
<1> QED BY <1>3, <1>4, <1>6 DEF IInv

\* A row that is recovered: finished as it was, or failed.
LEMMA RecoveredRow ==
  ASSUME TypeOK, NEW d \in Days
  PROVE  /\ Recovered(d) \in Job /\ Recovered(d).status # "running"
         /\ Recovered(d).attempts = row[d].attempts
         /\ Recovered(d).status = "none" => row[d].status = "none"
BY DEF Recovered, TypeOK, Job

LEMMA RestartStep == ASSUME IInv, Restart PROVE IInv'
<1>1. \A d \in Days : /\ job'[d] = row'[d] /\ row'[d] \in Job
                      /\ row'[d].status # "running"
                      /\ row'[d].attempts = row[d].attempts
                      /\ row'[d].status = "none" => row[d].status = "none"
  BY RecoveredRow DEF Restart, IInv
<1>2. job' \in [Days -> Job] /\ row' \in [Days -> Job] BY <1>1 DEF Restart
<1>3. TypeOK' BY <1>2 DEF Restart, IInv, TypeOK, evidence
<1>4. PagesInv' BY SamePages DEF IInv, PagesInv, Restart
<1>5. \A w \in Workers : run'[w] = Idle BY DEF Restart, IInv, JobsInv
<1>6. JobsInv' BY <1>1, <1>5 DEF IInv, JobsInv, OneRunPerJob, On, Restart
<1> QED BY <1>3, <1>4, <1>6 DEF IInv

LEMMA FailedRestartStep == ASSUME IInv, FailedRestart PROVE IInv'
<1>1. PICK written \in SUBSET Days :
        row' = [d \in Days |-> IF d \in written THEN Recovered(d) ELSE row[d]]
  BY DEF FailedRestart
<1>2. \A d \in Days : /\ row'[d] \in Job
                      /\ row'[d].attempts = row[d].attempts
                      /\ row'[d].status = "none" => row[d].status = "none"
  BY <1>1, RecoveredRow DEF IInv, TypeOK
<1>3. row' \in [Days -> Job] BY <1>1, <1>2
<1>4. TypeOK' BY <1>3, FaultCount DEF FailedRestart, IInv, TypeOK, evidence, calendar
<1>5. PagesInv' BY SamePages DEF IInv, PagesInv, FailedRestart
<1>6. \A w \in Workers : run'[w] = Idle BY DEF FailedRestart, IInv, JobsInv
<1>7. JobsInv' BY <1>2, <1>6 DEF IInv, JobsInv, OneRunPerJob, On, FailedRestart
<1> QED BY <1>4, <1>5, <1>7 DEF IInv

-----------------------------------------------------------------------------
\* The inductive invariant holds in every reachable state.
LEMMA Invariance == Spec => []IInv
<1>1. ASSUME IInv, [Next]_vars PROVE IInv'
  <2>1. CASE UNCHANGED vars
    BY <1>1, <2>1, NoRunChanges DEF vars, IInv, TypeOK, PagesInv, evidence
  <2>2. CASE ScheduledSync \/ OtherSourceRaises
    BY <1>1, <2>2, ScheduledSyncStep, OtherSourceRaisesStep
  <2>3. ASSUME NEW w \in Workers, Refresh(w) PROVE IInv' BY <1>1, <2>3, RefreshStep
  <2>4. ASSUME NEW w \in Workers, Step(w) PROVE IInv'
    BY <1>1, <2>4, LoadStep, FetchStep, ImportPageStep, ReportStep, FailReadStep,
       FailWriteStep, RaiseStep DEF Step
  <2>5. ASSUME NEW w \in Workers, NEW p \in Pages, HandIn(w, p) PROVE IInv'
    BY <1>1, <2>5, HandInStep
  <2>6. ASSUME NEW p \in Pages, Edit(p) \/ Confirm(p) PROVE IInv'
    BY <1>1, <2>6, EditStep, ConfirmStep
  <2>7. CASE NewDay \/ Crash \/ Restart \/ FailedRestart
    BY <1>1, <2>7, NewDayStep, CrashStep, RestartStep, FailedRestartStep
  <2> QED BY <1>1, <2>1, <2>2, <2>3, <2>4, <2>5, <2>6, <2>7 DEF Next
<1> QED BY <1>1, InitOK, PTL DEF Spec

\* Every variable stays within its type, for any instance.
THEOREM TypeCorrect == Spec => []TypeOK
BY Invariance, PTL DEF IInv

\* A day's job has at most one run of its handler under way, recorded in memory and
\* on disk, is started at most MaxAttempts times, and hangs as running only after a
\* failed write of its start, whatever restarts, refreshes and schedules do
\* (LocalJobQueue.enqueue, recover).
THEOREM JobsAndRunsAgree == Spec => []OneRunPerJob
BY Invariance, PTL DEF IInv, JobsInv

\* The persisted cursor passes no page that was not imported, for any number of
\* pages, concurrent runs, failures and crashes (_run_sync, mark_sync_failed).
THEOREM CursorIsSound == Spec => []ImportedBeforeCursor
BY Invariance, PTL DEF IInv, PagesInv
-----------------------------------------------------------------------------
(* Action properties. *)

\* Confirmed evidence keeps its content in every step, the import of a page that
\* was fetched before the confirmation included (sync_evidence).
THEOREM ConfirmedIsKept == Spec => ConfirmedKept
<1>1. ASSUME IInv, [Next]_vars, NEW p \in confirmed
      PROVE  stored'[p] = stored[p] /\ p \in confirmed'
  <2>1. CASE \E w \in Workers : ImportPage(w)
    <3>1. PICK w \in Workers : ImportPage(w) BY <2>1
    <3>2. stored' = Import(run[w]) \/ stored' = stored
      BY <3>1 DEF ImportPage, evidence
    <3>3. run[w] \in Run
      BY <1>1, <3>1 DEF ImportPage, At, IInv, TypeOK
    <3>4. p \in Pages BY <1>1 DEF IInv, TypeOK
    <3>5. stored'[p] = stored[p]
      BY <1>1, <3>2, <3>3, <3>4 DEF Import, IInv, TypeOK, Run
    <3> QED BY <1>1, <3>1, <3>5 DEF ImportPage
  <2>2. CASE \E q \in Pages : Confirm(q)
    BY <1>1, <2>2 DEF Confirm, evidence
  <2>3. CASE UNCHANGED <<stored, confirmed>>
    BY <1>1, <2>3
  <2>4. (\E w \in Workers : ImportPage(w)) \/ (\E q \in Pages : Confirm(q))
          \/ UNCHANGED <<stored, confirmed>>
    BY <1>1 DEF Next, vars, evidence, ScheduledSync, Refresh, Step, Load, Fetch,
       Report, FailRead, FailWrite, Raise, HandIn, Edit, NewDay, Crash, Restart,
       FailedRestart, OtherSourceRaises
  <2> QED BY <2>1, <2>2, <2>3, <2>4
<1>2. IInv /\ [Next]_vars =>
        [\A p \in confirmed : stored'[p] = stored[p] /\ p \in confirmed']_vars
  BY <1>1
<1> QED BY <1>2, Invariance, PTL DEF Spec, ConfirmedKept

\* The day of a key is over at midnight, and the next key is another one.
LEMMA AnotherDay ==
  ASSUME TypeOK, NewDay
  PROVE  today' # today
<1>1. /\ today \in Nat /\ today < DayCount
      /\ DayCount \in Nat /\ DayCount > 1 /\ today' = (today + 1) % DayCount
  BY NumbersAssumption DEF TypeOK, NewDay, Days
<1>2. CASE today + 1 = DayCount
  <2>1. DayCount % DayCount = 0 BY <1>1
  <2> QED BY <1>1, <1>2, <2>1
<1>3. CASE today + 1 < DayCount
  <2>1. (today + 1) % DayCount = today + 1 BY <1>1, <1>3
  <2> QED BY <1>1, <2>1
<1> QED BY <1>1, <1>2, <1>3

\* While the process is up no job is started over a record that says it is finished,
\* and none ever over a row that says so, for any number of restarts, failed writes
\* and callers (enqueue, recover).
THEOREM DayIsOver == Spec => OverForTheDay
<1> DEFINE A == \A d \in Days : today' = today \/ d # today' =>
                  /\ Finished(job[d]) \/ Finished(row[d]) => ~Starts(d)
                  /\ Finished(row[d]) => row'[d] = row[d]
<1>1. ASSUME IInv, Next, NEW d \in Days, Finished(job[d]) \/ Finished(row[d]),
             today' = today \/ d # today'
      PROVE  ~Starts(d) /\ (Finished(row[d]) => row'[d] = row[d])
  <2>1. /\ job \in [Days -> Job] /\ row \in [Days -> Job] /\ today \in Days
        /\ run \in [Workers -> Run \cup {Idle}]
    BY <1>1 DEF IInv, TypeOK
  <2>2. job[d].attempts \in Nat /\ row[d].attempts \in Nat BY <2>1 DEF Job
  <2>3. ASSUME up PROVE job[d].status \in {"completed", "failed"}
                        /\ (d = today => ~MayStart(d))
                        /\ (Finished(row[d]) => job[d] = row[d])
    <3>1. job[d].attempts <= MaxAttempts BY <1>1 DEF IInv, JobsInv, OneRunPerJob
    <3>2. job[d] = row[d] \/ Hangs(d) \/ EndUnwritten(d)
      BY <1>1, <2>3 DEF IInv, JobsInv
    <3>3. ~(Finished(row[d]) /\ Hangs(d))
      BY <2>2, <3>1, NumbersAssumption DEF Finished, Hangs
    <3>4. ~(Finished(row[d]) /\ EndUnwritten(d)) BY DEF Finished, EndUnwritten
    <3>5. Finished(job[d]) BY <1>1, <3>2, <3>3, <3>4
    <3> QED BY <2>2, <3>2, <3>3, <3>4, <3>5, NumbersAssumption DEF Finished, MayStart
  <2>4. \A w \in Workers : ~On(w, d)
    BY <1>1, <2>3, NumbersAssumption DEF IInv, JobsInv, OneRunPerJob, On
  <2>5. ASSUME up, NEW w \in Workers, MayStart(today), StartJob(w, today)
        PROVE  ~Starts(d) /\ row'[d] = row[d]
    <3>1. d # today BY <2>3, <2>5
    <3>2. row'[d] = row[d] BY <2>1, <2>5, <3>1 DEF StartJob, Persist, Raises
    <3>3. \A x \in Workers : ~On(x, d)'
      BY <2>1, <2>4, <2>5, <3>1 DEF StartJob, On, NewRun
    <3> QED BY <3>2, <3>3 DEF Starts
  <2>6. ASSUME NEW w \in Workers, run[w] # Idle, NEW status, EndRun(w, status)
        PROVE  ~Starts(d) /\ row'[d] = row[d]
    <3>1. run[w].day # d BY <2>4, <2>6 DEF On
    <3>2. row'[d] = row[d]
      BY <2>1, <2>6, <3>1 DEF EndRun, Persist, Raises, queue
    <3>3. \A x \in Workers : ~On(x, d)'
      BY <2>1, <2>4, <2>6 DEF EndRun, On
    <3> QED BY <3>2, <3>3 DEF Starts
  <2>7. ASSUME UNCHANGED row, \A x \in Workers : On(x, d)' => On(x, d)
        PROVE  ~Starts(d) /\ row'[d] = row[d]
    BY <2>7 DEF Starts
  <2>8. CASE ScheduledSync
    <3>1. CASE MayStart(today) /\ StartJob(Loop, today)
      BY <2>5, <2>8, <3>1, LoopAssumption DEF ScheduledSync
    <3>2. CASE UNCHANGED <<queue, run>> BY <2>7, <3>2 DEF queue, On
    <3> QED BY <2>8, <3>1, <3>2 DEF ScheduledSync
  <2>9. CASE \E w \in Workers : Refresh(w) BY <2>5, <2>9 DEF Refresh
  <2>10. CASE \E w \in Workers : Report(w) \/ Raise(w)
    <3>1. PICK w \in Workers : Report(w) \/ Raise(w) BY <2>10
    <3>2. CASE \E status : EndRun(w, status)
      BY <2>6, <3>1, <3>2 DEF Report, Raise, At
    <3>3. CASE Goto(w, "failread") /\ UNCHANGED queue
      BY <2>1, <2>7, <3>1, <3>3 DEF Report, Raise, At, Goto, On, queue, Run
    <3> QED BY <3>1, <3>2, <3>3 DEF Report, Raise
  <2>11. ASSUME NEW w \in Workers, NEW r, run[w] # Idle, r = Idle \/ r.day = run[w].day,
                run' = [run EXCEPT ![w] = r]
         PROVE  \A x \in Workers : On(x, d)' => On(x, d)
    BY <2>1, <2>11 DEF On
  <2>12. CASE \E w \in Workers : Load(w) \/ Fetch(w) \/ ImportPage(w) \/ FailRead(w)
                                   \/ FailWrite(w)
    <3>1. PICK w \in Workers : Load(w) \/ Fetch(w) \/ ImportPage(w) \/ FailRead(w)
                                   \/ FailWrite(w)
      BY <2>12
    <3>2. run[w] \in Run /\ run[w] # Idle
      BY <2>1, <3>1 DEF Load, Fetch, ImportPage, FailRead, FailWrite, At
    <3>3. UNCHANGED row
      BY <3>1 DEF Load, Fetch, ImportPage, FailRead, FailWrite, queue
    <3>4. \E r : (r = Idle \/ r.day = run[w].day) /\ run' = [run EXCEPT ![w] = r]
      <4>1. \A step : LET r == [run[w] EXCEPT !.pc = step] IN r.day = run[w].day
        BY <3>2 DEF Run
      <4>2. CASE \E step : Goto(w, step) BY <4>1, <4>2 DEF Goto
      <4>3. CASE run' = [run EXCEPT ![w].pc = "fetch", ![w].cursor = source.cursor]
        <5>1. run' = [run EXCEPT ![w] = [run[w] EXCEPT !.pc = "fetch", !.cursor = source.cursor]]
          BY <2>1, <3>2, <4>3
        <5> QED BY <3>2, <5>1 DEF Run
      <4>4. CASE run' = [run EXCEPT ![w] = [Fetched(run[w]) EXCEPT !.pc = "import"]]
        BY <3>2, <4>4 DEF Fetched, Run
      <4>5. CASE AfterPage(w) BY <4>5 DEF AfterPage, NewRun
      <4>6. CASE run' = [run EXCEPT ![w] = [NewRun(@.day) EXCEPT
                           !.pc = "failwrite", !.cursor = source.cursor]]
        BY <4>6 DEF NewRun
      <4> QED BY <3>1, <4>2, <4>3, <4>4, <4>5, <4>6
              DEF Load, Fetch, ImportPage, FailRead, FailWrite
    <3> QED BY <2>7, <2>11, <3>2, <3>3, <3>4
  <2>13. CASE \E w \in Workers, p \in Pages : HandIn(w, p)
    BY <2>1, <2>7, <2>13, FirstAndLast DEF HandIn, queue, On, NewRun
  <2>14. CASE NewDay
    <3>1. row'[d] = row[d] BY <1>1, <2>1, <2>14, AnotherDay DEF NewDay, IInv
    <3> QED BY <2>14, <3>1 DEF NewDay, Starts, On
  <2>15. CASE Crash \/ OtherSourceRaises \/ \E p \in Pages : Edit(p) \/ Confirm(p)
    BY <2>7, <2>15 DEF Crash, OtherSourceRaises, Edit, Confirm, queue, On
  <2>16. CASE Restart \/ FailedRestart
    <3>1. Finished(row[d]) => Recovered(d) = row[d] BY DEF Finished, Recovered
    <3>2. row'[d] = Recovered(d) \/ row'[d] = row[d]
      BY <2>16 DEF Restart, FailedRestart
    <3> QED BY <2>16, <3>1, <3>2 DEF Restart, FailedRestart, Starts, On
  <2> QED BY <1>1, <2>8, <2>9, <2>10, <2>12, <2>13, <2>14, <2>15, <2>16 DEF Next, Step
<1>2. IInv /\ [Next]_vars => [A]_vars
  BY <1>1
<1> QED BY <1>2, Invariance, PTL DEF Spec, OverForTheDay
=============================================================================
