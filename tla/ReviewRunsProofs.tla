--------------------------- MODULE ReviewRunsProofs ---------------------------
(***************************************************************************)
(* Theorems of ReviewRuns, for any number of streams, crashes and failed   *)
(* writes.                                                                 *)
(***************************************************************************)
EXTENDS ReviewRuns, TLAPS

-----------------------------------------------------------------------------
(* The inductive invariant. *)

\* A coroutine has a record of its status, a directory, and no report yet; there is
\* no other record of an active run, unless a lost snapshot left it behind.
TaskInv ==
  /\ task # "none" => up /\ job = task /\ snap # "none" /\ report = "none"
  /\ job \in Active /\ ~ lost => task = job

\* Nothing of a process outlives it, and a run that was never submitted has nothing.
ProcessInv ==
  /\ ~ up => task = "none" /\ job = "none" /\ \A s \in Streams : stream[s] = "closed"
  /\ snap = "none" => job = "none" /\ report = "none"
  /\ \A s \in Streams : stream[s] # "closed" => snap # "none"

\* "completed" is only said of a run with a report, and then as long as it is there.
ReportInv ==
  /\ job = "completed" => report # "none"
  /\ "completed" \in told => report # "none" /\ task = "none" /\ Answer = "completed"

IInv == TypeOK /\ TaskInv /\ ProcessInv /\ ReportInv

-----------------------------------------------------------------------------
LEMMA ErrorType ==
  ASSUME TypeOK, Error \/ NoError
  PROVE  errors' \in 0..MaxErrors
BY BoundsAssumption DEF TypeOK, Error, NoError

LEMMA FileType ==
  ASSUME TypeOK, Torn \/ Whole
  PROVE  garbled' \in BOOLEAN
BY DEF TypeOK, Torn, Whole

LEMMA SubmitStep ==
  ASSUME IInv, Submit
  PROVE  IInv'
<1>1. TypeOK'
  <2>1. errors' \in 0..MaxErrors BY ErrorType DEF IInv, Submit
  <2>2. garbled' \in BOOLEAN BY FileType DEF IInv, Submit
  <2> QED BY <2>1, <2>2 DEF IInv, TypeOK, Submit, Active, Terminal
<1>2. task = "none" /\ job = "none" /\ report = "none" /\ "completed" \notin told
  BY DEF IInv, TaskInv, ProcessInv, ReportInv, Submit
<1>3. ProcessInv'
  BY <1>2 DEF IInv, TypeOK, ProcessInv, Submit
<1> QED BY <1>1, <1>2, <1>3 DEF IInv, TaskInv, ReportInv, Submit, Active

LEMMA StartStep ==
  ASSUME IInv, Start
  PROVE  IInv'
<1>1. TypeOK'
  <2>1. errors' \in 0..MaxErrors BY ErrorType DEF IInv, Start
  <2>2. garbled' \in BOOLEAN BY FileType DEF IInv, Start
  <2> QED BY <2>1, <2>2 DEF IInv, TypeOK, Start, Active, Terminal
<1>2. up /\ snap # "none" /\ report = "none" /\ "completed" \notin told
  BY DEF IInv, TaskInv, ReportInv, Start
<1> QED BY <1>1, <1>2 DEF IInv, TaskInv, ProcessInv, ReportInv, Start, Active

LEMMA EndStep ==
  ASSUME IInv, End
  PROVE  IInv'
<1>1. PICK outcome \in Terminal, written \in {"none", "torn", "whole"} :
        /\ outcome = "completed" => written = "whole"
        /\ report' = written
        /\ job' = outcome
        /\ Torn \/ Whole
        /\ \/ /\ snap' = outcome /\ Publish(outcome) /\ UNCHANGED lost
              /\ Error \/ NoError
           \/ snap' = "torn" /\ lost' = TRUE /\ Error /\ UNCHANGED <<stream, told>>
  <2>1. PICK e \in Endings :
          /\ report' = e.report
          /\ job' = e.outcome
          /\ Torn \/ Whole
          /\ \/ /\ snap' = e.outcome /\ Publish(e.outcome) /\ UNCHANGED lost
                /\ Error \/ NoError
             \/ snap' = "torn" /\ lost' = TRUE /\ Error /\ UNCHANGED <<stream, told>>
    BY DEF End
  <2>2. /\ e.outcome \in Terminal /\ e.report \in {"none", "torn", "whole"}
        /\ e.outcome = "completed" => e.report = "whole"
    BY DEF Endings
  <2> QED BY <2>1, <2>2
<1>2. /\ stream' \in [Streams -> {"closed", "opening", "subscribed"}]
      /\ told' \subseteq told \cup {outcome}
  BY <1>1 DEF Publish, Tell, IInv, TypeOK
<1>3. errors' \in 0..MaxErrors /\ garbled' \in BOOLEAN
  BY <1>1, ErrorType, FileType DEF IInv
<1>4. TypeOK' BY <1>1, <1>2, <1>3 DEF IInv, TypeOK, End, Active, Terminal
<1>5. up /\ snap # "none" /\ "completed" \notin told /\ task' = "none" /\ up' = up
  BY DEF IInv, TaskInv, ReportInv, End
<1>6. snap' # "none" /\ job' \notin Active BY <1>1 DEF Terminal, Active
<1>7. TaskInv' BY <1>5, <1>6 DEF TaskInv
<1>8. ProcessInv' BY <1>5, <1>6 DEF ProcessInv
<1>9. "completed" \in told' => outcome = "completed" BY <1>2, <1>5
<1>10. ReportInv' BY <1>1, <1>5, <1>9 DEF ReportInv, Answer
<1> QED BY <1>4, <1>7, <1>8, <1>10 DEF IInv

\* A step that only changes streams, or what clients were told.
LEMMA ClientStep ==
  ASSUME IInv, UNCHANGED <<server, files, lost, crashes>>, errors' = errors, up,
         snap # "none", stream' \in [Streams -> {"closed", "opening", "subscribed"}],
         told' = told \/ Tell(Answer)
  PROVE  IInv'
<1>1. told' \subseteq Terminal BY DEF IInv, TypeOK, Tell
<1>2. TypeOK' BY <1>1 DEF IInv, TypeOK, server, files
<1>3. TaskInv' /\ ProcessInv' BY DEF IInv, TaskInv, ProcessInv, server, files
<1>4. Answer' = Answer BY DEF Answer, Persisted, server, files
<1>5. Answer = "completed" => report # "none" /\ task = "none"
  <2>1. CASE job # "none"
    BY <2>1 DEF Answer, IInv, TypeOK, ReportInv, TaskInv, Active
  <2>2. CASE job = "none"
    BY <2>2 DEF Answer, Persisted, IInv, TypeOK, TaskInv, Active
  <2> QED BY <2>1, <2>2
<1>6. "completed" \in told' => "completed" \in told \/ Answer = "completed"
  BY DEF Tell
<1>7. ReportInv' BY <1>4, <1>5, <1>6 DEF IInv, ReportInv, server, files
<1> QED BY <1>2, <1>3, <1>7 DEF IInv

LEMMA StreamStep ==
  ASSUME IInv, NEW s \in Streams, Open(s) \/ Begin(s) \/ Disconnect(s)
  PROVE  IInv'
<1>1. up /\ snap # "none"
  BY DEF IInv, ProcessInv, Open, Begin, Disconnect
<1>2. stream' \in [Streams -> {"closed", "opening", "subscribed"}]
  BY DEF IInv, TypeOK, Open, Begin, Disconnect
<1>3. UNCHANGED <<server, files, lost, crashes>> /\ errors' = errors
  BY DEF Open, Begin, Disconnect
<1>4. told' = told \/ Tell(Answer) BY DEF Open, Begin, Disconnect
<1> QED BY <1>1, <1>2, <1>3, <1>4, ClientStep

LEMMA AskStatusStep ==
  ASSUME IInv, AskStatus
  PROVE  IInv'
<1>1. stream' \in [Streams -> {"closed", "opening", "subscribed"}]
  BY DEF IInv, TypeOK, AskStatus
<1> QED BY <1>1, ClientStep DEF AskStatus

LEMMA CrashStep ==
  ASSUME IInv, Crash
  PROVE  IInv'
<1>1. /\ report' \in {"none", "torn", "whole"}
      /\ report # "none" => report' # "none"
      /\ task = "none" => report' = report
  BY DEF IInv, TypeOK, Crash
<1>2. snap' \in {snap, "torn"} BY DEF Crash
<1>3. crashes' \in 0..MaxCrashes /\ garbled' \in BOOLEAN
  BY BoundsAssumption, FileType DEF IInv, TypeOK, Crash
<1>4. TypeOK' BY <1>1, <1>2, <1>3 DEF IInv, TypeOK, Crash
<1>5. snap = "none" => report' = "none"
  BY <1>1 DEF IInv, TaskInv, ProcessInv
<1>6. TaskInv' BY DEF TaskInv, Crash, Active
<1>7. ProcessInv' BY <1>2, <1>5 DEF ProcessInv, Crash
<1>8. ReportInv' BY <1>1 DEF IInv, ReportInv, Crash, Answer, Persisted
<1> QED BY <1>4, <1>6, <1>7, <1>8 DEF IInv

LEMMA RestartStep ==
  ASSUME IInv, Restart
  PROVE  IInv'
<1>1. task = "none" /\ job = "none" /\ \A s \in Streams : stream[s] = "closed"
  BY DEF IInv, ProcessInv, Restart, Recovered
<1>2. Persisted \in Terminal BY DEF Persisted, Terminal
<1>3. TypeOK' BY <1>2 DEF IInv, TypeOK, Restart, Recovered, Terminal, Active
<1>4. TaskInv' BY <1>1, <1>2 DEF TaskInv, Restart, Recovered, Active, Terminal
<1>5. ProcessInv' BY <1>1, <1>2 DEF IInv, ProcessInv, Restart, Recovered, Terminal
<1>6. ReportInv' BY <1>1 DEF IInv, ReportInv, Restart, Recovered, Answer, Persisted
<1> QED BY <1>3, <1>4, <1>5, <1>6 DEF IInv

-----------------------------------------------------------------------------
LEMMA InitHolds == Init => IInv
<1> SUFFICES ASSUME Init PROVE IInv OBVIOUS
<1>1. 0 \in 0..MaxCrashes /\ 0 \in 0..MaxErrors BY BoundsAssumption
<1>2. stream \in [Streams -> {"closed", "opening", "subscribed"}] BY DEF Init
<1>3. TypeOK BY <1>1, <1>2 DEF Init, TypeOK
<1>4. TaskInv /\ ReportInv BY DEF Init, TaskInv, ReportInv, Active
<1>5. ProcessInv BY DEF Init, ProcessInv
<1> QED BY <1>3, <1>4, <1>5 DEF IInv

LEMMA NextPreserves == IInv /\ [Next]_vars => IInv'
<1> SUFFICES ASSUME IInv, [Next]_vars PROVE IInv' OBVIOUS
<1>1. CASE Submit BY <1>1, SubmitStep
<1>2. CASE Start BY <1>2, StartStep
<1>3. CASE End BY <1>3, EndStep
<1>4. CASE AskStatus BY <1>4, AskStatusStep
<1>5. CASE Crash BY <1>5, CrashStep
<1>6. CASE Restart BY <1>6, RestartStep
<1>7. CASE StartFails
  BY <1>7 DEF IInv, TypeOK, TaskInv, ProcessInv, ReportInv, Answer, Persisted, StartFails, vars
<1>8. ASSUME NEW s \in Streams, Open(s) \/ Begin(s) \/ Disconnect(s) PROVE IInv'
  BY <1>8, StreamStep
<1>9. CASE UNCHANGED vars
  BY <1>9 DEF IInv, TypeOK, TaskInv, ProcessInv, ReportInv, Answer, Persisted, vars
<1> QED BY <1>1, <1>2, <1>3, <1>4, <1>5, <1>6, <1>7, <1>8, <1>9 DEF Next

\* The invariant holds in every reachable state of the run.
THEOREM Invariance == Spec => []IInv
BY InitHolds, NextPreserves, PTL DEF Spec

\* Every reachable state of the run is well typed.
THEOREM TypeCorrect == Spec => []TypeOK
<1>1. IInv => TypeOK BY DEF IInv
<1> QED BY <1>1, Invariance, PTL

\* A run is shown as active exactly while it is, through any crashes (recover).
THEOREM NoRunIsAZombie == Spec => []NoZombie
<1>1. IInv => NoZombie
  BY DEF IInv, TypeOK, TaskInv, NoZombie, Answer, Persisted, Active
<1> QED BY <1>1, Invariance, PTL

\* Once told "completed", always told "completed" (persisted_status_payload).
THEOREM CompletedIsFinal == Spec => []CompletedStands
<1>1. IInv => CompletedStands BY DEF IInv, ReportInv, CompletedStands
<1> QED BY <1>1, Invariance, PTL
=============================================================================
