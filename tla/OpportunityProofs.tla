-------------------------- MODULE OpportunityProofs --------------------------
(***************************************************************************)
(* Theorems of Opportunity, for any number of handlers in flight, any      *)
(* owners, any evidence and any number of failures and crashes.            *)
(***************************************************************************)
EXTENDS Opportunity, FiniteSetTheorems, TLAPS

-----------------------------------------------------------------------------
(* The inductive invariant. *)

\* What holds of a copy of the row for ever, once it was read.
Known(copy) ==
  /\ copy \in Row
  /\ copy.refs # {} /\ copy.refs \subseteq evidence
  /\ copy.status = "pending_approval" => submitted
  /\ copy.status = "approved" => approvals # {}

\* What a handler in flight may rely on, however old its copies are.
HandlerInv(h) ==
  /\ h.pc # "read" =>
       /\ Known(h.first) /\ Known(h.seen)
       /\ h.refs # {} /\ h.refs \subseteq evidence
       /\ h.op = "prd" => h.first.status = "approved"
       /\ h.op = "submit" => h.first.status = "proposed"
       /\ h.op \in {"edit", "evaluate"} => h.seen = h.first
  /\ h.pc = "load" => h.op = "edit"
  /\ h.pc = "authorize" => h.op \in {"approve", "prd"} /\ h.seen = h.first
  /\ h.pc = "reread" => h.op \in {"submit", "approve"}
  /\ h.pc = "check" => h.op = "approve"
  /\ h.pc = "insert" => h.op = "prd"
  /\ h.pc \in {"check", "reread", "write"} /\ h.op = "approve" =>
       h.actor \in Owners /\ h.first.status = "pending_approval"
  /\ h.pc = "write" =>
       h.op # "prd" /\ \A e \in h.seen.refs \ h.refs : e \notin Visible

SlotsInv == \A s \in Slots : slot[s] # Idle => HandlerInv(slot[s])

DecisionInv ==
  /\ Known(opp)
  /\ approvals # {} => submitted
  /\ approvals \subseteq Owners
  /\ prds # {} => approvals # {}
  /\ \A refs \in prds : refs # {} /\ refs \subseteq evidence

IInv == TypeOK /\ SlotsInv /\ DecisionInv

-----------------------------------------------------------------------------
\* Nothing a handler relies on is ever taken away again.
Grows ==
  /\ evidence \subseteq evidence' /\ evidence' \subseteq Evidence
  /\ submitted => submitted'
  /\ approvals \subseteq approvals'

\* A record that the listing no longer reaches is not reached again.
LEMMA VisibleShrinks ==
  ASSUME TypeOK, Grows, NEW e \in evidence, e \notin Visible
  PROVE  (e \notin Visible)'
<1> DEFINE later == {f \in evidence : f > e}
           later2 == {f \in evidence' : f > e}
<1>1. IsFiniteSet(Evidence) BY NumbersAssumption, FS_Interval DEF Evidence
<1>2. IsFiniteSet(evidence') BY <1>1, FS_Subset DEF Grows
<1>3. IsFiniteSet(later2) BY <1>2, FS_Subset
<1>4. later \subseteq later2 BY DEF Grows
<1>5. Cardinality(later) <= Cardinality(later2) BY <1>3, <1>4, FS_Subset
<1>6. IsFiniteSet(later) BY <1>3, <1>4, FS_Subset
<1>7. Cardinality(later) \in Nat /\ Cardinality(later2) \in Nat
  BY <1>3, <1>6, FS_CardinalityType
<1>8. ~ (Cardinality(later) < Window) BY DEF Visible
<1>9. ~ (Cardinality(later2) < Window) BY <1>5, <1>7, <1>8, NumbersAssumption
<1> HIDE DEF later2
<1>10. (e \in Visible)' => Cardinality(later2) < Window BY DEF Visible, later2
<1> QED BY <1>9, <1>10

LEMMA HandlerKept ==
  ASSUME TypeOK, Grows, NEW h \in Handler, HandlerInv(h)
  PROVE  HandlerInv(h)'
<1>1. ASSUME NEW copy, Known(copy) PROVE Known(copy)'
  BY <1>1 DEF Known, Grows
<1>2. h.pc = "write" => \A e \in h.seen.refs \ h.refs : (e \notin Visible)'
  <2> SUFFICES ASSUME h.pc = "write", NEW e \in h.seen.refs \ h.refs
               PROVE  (e \notin Visible)'
    OBVIOUS
  <2>1. e \in evidence /\ e \notin Visible BY DEF HandlerInv, Known
  <2> QED BY <2>1, VisibleShrinks
<1>3. h.refs \subseteq evidence => h.refs \subseteq evidence' BY DEF Grows
<1> QED BY <1>1, <1>2, <1>3 DEF HandlerInv

\* One slot changes, to a handler that satisfies its part; the others keep theirs.
LEMMA OneSlot ==
  ASSUME TypeOK, SlotsInv, Grows, NEW s \in Slots, NEW h \in Handler \cup {Idle},
         slot' = [slot EXCEPT ![s] = h], h # Idle => HandlerInv(h)'
  PROVE  SlotsInv' /\ slot' \in [Slots -> Handler \cup {Idle}]
<1>1. slot' \in [Slots -> Handler \cup {Idle}] BY DEF TypeOK
<1>2. ASSUME NEW z \in Slots, slot'[z] # Idle
      PROVE  HandlerInv(slot[z])'
  <2>1. CASE z = s BY <2>1, <1>2 DEF TypeOK
  <2>2. CASE z # s
    <3>1. slot'[z] = slot[z] BY <2>2 DEF TypeOK
    <3>2. slot[z] \in Handler BY <3>1, <1>2 DEF TypeOK
    <3>3. HandlerInv(slot[z]) BY <3>1, <1>2 DEF SlotsInv
    <3>4. ASSUME NEW x \in Handler, x = slot[z] PROVE HandlerInv(x)'
      BY <3>3, <3>4, HandlerKept
    <3> QED BY <3>1, <3>2, <3>4
  <2> QED BY <2>1, <2>2
<1> QED BY <1>1, <1>2 DEF SlotsInv

\* The row, the PRDs and the history are left alone.
LEMMA OnlySlots ==
  ASSUME IInv, Grows, SlotsInv', UNCHANGED <<opp, prds, history>>
  PROVE  SlotsInv' /\ DecisionInv'
<1>1. Known(opp)' BY DEF IInv, DecisionInv, Known, Grows, history
<1>2. \A refs \in prds' : refs # {} /\ refs \subseteq evidence'
  BY DEF IInv, DecisionInv, Grows
<1> QED BY <1>1, <1>2 DEF IInv, DecisionInv, history

\* A handler in its slot.
LEMMA InFlight ==
  ASSUME IInv, NEW s \in Slots, NEW step, At(s, step)
  PROVE  slot[s] \in Handler /\ slot[s].pc = step /\ HandlerInv(slot[s])
BY DEF IInv, TypeOK, SlotsInv, At

\* A handler that ends, or was refused, gives its slot back.
LEMMA ReplyStep ==
  ASSUME TypeOK, SlotsInv, Grows, NEW s \in Slots, Reply(s)
  PROVE  SlotsInv' /\ slot' \in [Slots -> Handler \cup {Idle}]
<1>1. PICK h \in Handler \cup {Idle} : h = Idle OBVIOUS
<1>2. slot' = [slot EXCEPT ![s] = h] BY <1>1 DEF Reply
<1> QED BY <1>1, <1>2, OneSlot

LEMMA FaultType ==
  ASSUME TypeOK, Fault \/ Sound
  PROVE  faults' \in 0..MaxFaults
BY NumbersAssumption DEF TypeOK, Fault, Sound

\* A step of s that leaves the database and the history alone and puts h into s.
LEMMA LocalStep ==
  ASSUME IInv, NEW s \in Slots, NEW h \in Handler,
         slot' = [slot EXCEPT ![s] = h], HandlerInv(h),
         UNCHANGED <<opp, evidence, prds, history, requests>>, Fault \/ Sound
  PROVE  IInv'
<1>1. Grows BY DEF IInv, TypeOK, Grows, history
<1>2. HandlerInv(h)' BY <1>1, HandlerKept DEF IInv
<1>3. SlotsInv' /\ slot' \in [Slots -> Handler \cup {Idle}]
  BY <1>1, <1>2, OneSlot DEF IInv
<1>4. SlotsInv' /\ DecisionInv' BY <1>1, <1>3, OnlySlots
<1>5. faults' \in 0..MaxFaults BY FaultType DEF IInv
<1>6. TypeOK' BY <1>3, <1>5 DEF IInv, TypeOK, history
<1> QED BY <1>4, <1>6 DEF IInv

\* The same when s becomes idle.
LEMMA LocalReply ==
  ASSUME IInv, NEW s \in Slots, Reply(s),
         UNCHANGED <<opp, evidence, prds, history, requests>>, Fault \/ Sound
  PROVE  IInv'
<1>1. Grows BY DEF IInv, TypeOK, Grows, history
<1>2. SlotsInv' /\ slot' \in [Slots -> Handler \cup {Idle}]
  BY <1>1, ReplyStep DEF IInv
<1>3. SlotsInv' /\ DecisionInv' BY <1>1, <1>2, OnlySlots
<1>4. faults' \in 0..MaxFaults BY FaultType DEF IInv
<1>5. TypeOK' BY <1>2, <1>4 DEF IInv, TypeOK, history
<1> QED BY <1>3, <1>5 DEF IInv

-----------------------------------------------------------------------------
(* The actions, one by one. *)

LEMMA ArriveStep ==
  ASSUME IInv, NEW s \in Slots, NEW op \in Ops, NEW who \in Actors, NEW e \in Evidence,
         Arrive(s, op, who, e)
  PROVE  IInv'
<1>1. PICK h \in Handler :
        h = [op |-> op, actor |-> who, add |-> e, pc |-> "read",
             first |-> NoRow, seen |-> NoRow, refs |-> {}]
  BY DEF Handler, Steps
<1>2. slot' = [slot EXCEPT ![s] = h] BY <1>1 DEF Arrive
<1>3. Grows BY DEF Arrive, IInv, TypeOK, Grows, history
<1>4. HandlerInv(h)' BY <1>1 DEF HandlerInv
<1>5. SlotsInv' /\ slot' \in [Slots -> Handler \cup {Idle}]
  BY <1>2, <1>3, <1>4, OneSlot DEF IInv
<1>6. SlotsInv' /\ DecisionInv' BY <1>3, <1>5, OnlySlots DEF Arrive
<1>7. requests' \in 0..MaxRequests BY NumbersAssumption DEF Arrive, IInv, TypeOK
<1>8. TypeOK' BY <1>5, <1>7 DEF Arrive, IInv, TypeOK, history
<1> QED BY <1>6, <1>8 DEF IInv

LEMMA ReadStep ==
  ASSUME IInv, NEW s \in Slots, Read(s)
  PROVE  IInv'
<1> DEFINE h == slot[s]
           next == AfterRead(h.op, h.actor, opp)
           read == [h EXCEPT !.pc = next, !.first = opp, !.seen = opp, !.refs = opp.refs]
<1>1. h \in Handler /\ HandlerInv(h) BY InFlight DEF Read
<1>2. UNCHANGED <<opp, evidence, prds, history, requests>> BY DEF Read
<1>3. CASE next # "refuse" /\ slot' = [slot EXCEPT ![s] = read] /\ Sound
  <2>1. opp \in Row /\ Known(opp) BY DEF IInv, DecisionInv, TypeOK
  <2>2. next \in {"load", "reread", "write", "authorize", "insert"}
    BY <1>3 DEF AfterRead
  <2>3. read \in Handler BY <1>1, <2>1, <2>2 DEF Handler, Steps, Row
  <2>4. /\ read.op = h.op /\ read.actor = h.actor /\ read.pc = next
        /\ read.first = opp /\ read.seen = opp /\ read.refs = opp.refs
    BY <1>1 DEF Handler
  <2>5. /\ next = "load" => h.op = "edit"
        /\ next = "authorize" => h.op \in {"approve", "prd"}
        /\ next = "reread" => h.op = "submit"
        /\ next = "insert" => h.op = "prd"
        /\ next = "write" => h.op \in {"reject", "evaluate"}
        /\ h.op = "prd" => opp.status = "approved"
        /\ h.op = "submit" => opp.status = "proposed"
    BY <1>3 DEF AfterRead
  <2> HIDE DEF read, next
  <2>6. HandlerInv(read) BY <2>1, <2>2, <2>4, <2>5 DEF HandlerInv, Known
  <2> QED BY <1>2, <1>3, <2>3, <2>6, LocalStep
<1>4. CASE Reply(s) /\ (Fault \/ Sound) BY <1>2, <1>4, LocalReply
<1>5. next # "refuse" /\ Sound =>
        (slot' = [slot EXCEPT ![s].pc = next, ![s].first = opp,
                              ![s].seen = opp, ![s].refs = opp.refs]
           => slot' = [slot EXCEPT ![s] = read])
  BY <1>1 DEF Handler, IInv, TypeOK
<1> QED BY <1>3, <1>4, <1>5 DEF Read

LEMMA LoadEvidenceStep ==
  ASSUME IInv, NEW s \in Slots, LoadEvidence(s)
  PROVE  IInv'
<1> DEFINE h == slot[s]
           refs == (h.seen.refs \cup {h.add}) \cap Visible
           loaded == [h EXCEPT !.pc = "write", !.refs = refs]
<1>1. h \in Handler /\ h.pc = "load" /\ HandlerInv(h) BY InFlight DEF LoadEvidence
<1>2. UNCHANGED <<opp, evidence, prds, history, requests>> BY DEF LoadEvidence
<1>3. CASE refs # {} /\ slot' = [slot EXCEPT ![s] = loaded] /\ Sound
  <2>1. refs \subseteq evidence /\ refs \subseteq Evidence
    BY DEF Visible, IInv, TypeOK
  <2>2. loaded \in Handler BY <1>1, <2>1 DEF Handler, Steps
  <2>3. /\ loaded.op = "edit" /\ loaded.actor = h.actor /\ loaded.pc = "write"
        /\ loaded.first = h.first /\ loaded.seen = h.seen /\ loaded.refs = refs
    BY <1>1 DEF Handler, HandlerInv
  <2>4. \A e \in h.seen.refs \ refs : e \notin Visible OBVIOUS
  <2> HIDE DEF loaded, refs
  <2>5. HandlerInv(loaded) BY <1>1, <1>3, <2>1, <2>3, <2>4 DEF HandlerInv
  <2> QED BY <1>2, <1>3, <2>2, <2>5, LocalStep
<1>4. CASE Reply(s) /\ (Fault \/ Sound) BY <1>2, <1>4, LocalReply
<1>5. slot' = [slot EXCEPT ![s].pc = "write", ![s].refs = refs]
        => slot' = [slot EXCEPT ![s] = loaded]
  BY <1>1 DEF Handler, IInv, TypeOK
<1> QED BY <1>3, <1>4, <1>5 DEF LoadEvidence

\* A handler that goes on to another step with the copies it has.
LEMMA GotoStep ==
  ASSUME IInv, NEW s \in Slots, NEW step \in Steps, Goto(s, step),
         slot[s] \in Handler, HandlerInv([slot[s] EXCEPT !.pc = step]),
         UNCHANGED <<opp, evidence, prds, history, requests>>, Fault \/ Sound
  PROVE  IInv'
<1>1. PICK h \in Handler : h = [slot[s] EXCEPT !.pc = step] BY DEF Handler
<1>2. slot' = [slot EXCEPT ![s] = h] BY <1>1 DEF Goto, IInv, TypeOK
<1> QED BY <1>1, <1>2, LocalStep

LEMMA AuthorizeStep ==
  ASSUME IInv, NEW s \in Slots, Authorize(s)
  PROVE  IInv'
<1> DEFINE h == slot[s]
<1>1. h \in Handler /\ h.pc = "authorize" /\ HandlerInv(h) BY InFlight DEF Authorize
<1>2. UNCHANGED <<opp, evidence, prds, history, requests>> BY DEF Authorize
<1>3. CASE h.op = "prd" /\ Goto(s, "insert") /\ Sound
  <2>1. HandlerInv([h EXCEPT !.pc = "insert"]) BY <1>1, <1>3 DEF HandlerInv, Handler
  <2> QED BY <1>1, <1>2, <1>3, <2>1, GotoStep DEF Steps
<1>4. CASE /\ h.op = "approve" /\ h.actor \in Owners
           /\ h.seen.status = "pending_approval" /\ Goto(s, "check") /\ Sound
  <2>1. HandlerInv([h EXCEPT !.pc = "check"]) BY <1>1, <1>4 DEF HandlerInv, Handler
  <2> QED BY <1>1, <1>2, <1>4, <2>1, GotoStep DEF Steps
<1>5. CASE Reply(s) /\ (Fault \/ Sound) BY <1>2, <1>5, LocalReply
<1> QED BY <1>3, <1>4, <1>5 DEF Authorize

LEMMA CheckApprovedStep ==
  ASSUME IInv, NEW s \in Slots, CheckApproved(s)
  PROVE  IInv'
<1> DEFINE h == slot[s]
<1>1. h \in Handler /\ h.pc = "check" /\ HandlerInv(h) BY InFlight DEF CheckApproved
<1>2. UNCHANGED <<opp, evidence, prds, history, requests>> BY DEF CheckApproved
<1>3. CASE Goto(s, "reread") /\ (Fault \/ Sound)
  <2>1. HandlerInv([h EXCEPT !.pc = "reread"]) BY <1>1 DEF HandlerInv, Handler
  <2> QED BY <1>1, <1>2, <1>3, <2>1, GotoStep DEF Steps
<1>4. CASE Reply(s) /\ Sound BY <1>2, <1>4, LocalReply
<1> QED BY <1>3, <1>4 DEF CheckApproved

LEMMA ReReadStep ==
  ASSUME IInv, NEW s \in Slots, ReRead(s)
  PROVE  IInv'
<1> DEFINE h == slot[s]
           read == [h EXCEPT !.pc = "write", !.seen = opp, !.refs = opp.refs]
<1>1. h \in Handler /\ h.pc = "reread" /\ HandlerInv(h) BY InFlight DEF ReRead
<1>2. UNCHANGED <<opp, evidence, prds, history, requests>> BY DEF ReRead
<1>3. CASE slot' = [slot EXCEPT ![s] = read] /\ Sound
  <2>1. opp \in Row /\ Known(opp) BY DEF IInv, DecisionInv, TypeOK
  <2>2. read \in Handler BY <1>1, <2>1 DEF Handler, Steps, Row
  <2>3. /\ read.op = h.op /\ read.actor = h.actor /\ read.pc = "write"
        /\ read.first = h.first /\ read.seen = opp /\ read.refs = opp.refs
    BY <1>1 DEF Handler
  <2> HIDE DEF read
  <2>4. HandlerInv(read) BY <1>1, <2>1, <2>3 DEF HandlerInv, Known
  <2> QED BY <1>2, <1>3, <2>2, <2>4, LocalStep
<1>4. CASE Reply(s) /\ Fault BY <1>2, <1>4, LocalReply
<1>5. slot' = [slot EXCEPT ![s].pc = "write", ![s].seen = opp, ![s].refs = opp.refs]
        => slot' = [slot EXCEPT ![s] = read]
  BY <1>1 DEF Handler, IInv, TypeOK
<1> QED BY <1>3, <1>4, <1>5 DEF ReRead

LEMMA WriteStep ==
  ASSUME IInv, NEW s \in Slots, Write(s)
  PROVE  IInv'
<1> DEFINE h == slot[s]
           written == [status |-> Goal(h), refs |-> h.refs, version |-> h.seen.version + 1]
<1>1. h \in Handler /\ h.pc = "write" /\ HandlerInv(h) BY InFlight DEF Write
<1>2. CASE UNCHANGED <<opp, history>> /\ Fault BY <1>2, LocalReply DEF Write, history
<1>3. CASE /\ opp' = written
           /\ submitted' = (submitted \/ h.op = "submit")
           /\ approvals' = IF h.op = "approve" THEN approvals \cup {h.actor} ELSE approvals
           /\ Sound
  <2>1. Grows BY <1>3 DEF Grows, Write, IInv, TypeOK
  <2>2. SlotsInv' /\ slot' \in [Slots -> Handler \cup {Idle}]
    BY <2>1, ReplyStep DEF IInv, Write
  <2>3. Known(h.first) /\ Known(h.seen) /\ h.refs # {} /\ h.refs \subseteq evidence
    BY <1>1 DEF HandlerInv
  <2>4. Goal(h) \in Status BY <2>3 DEF Goal, Status, Known, Row
  <2>5. written \in Row BY <1>1, <2>3, <2>4 DEF Handler, Row, Known
  <2>6. TypeOK'
    <3>1. faults' \in 0..MaxFaults BY <1>3, FaultType DEF IInv
    <3>2. submitted' \in BOOLEAN /\ approvals' \subseteq Actors
      BY <1>1, <1>3 DEF Handler, IInv, TypeOK
    <3> QED BY <1>3, <2>2, <2>5, <3>1, <3>2 DEF Write, IInv, TypeOK
  <2>7. /\ opp'.status = "pending_approval" => submitted'
        /\ opp'.status = "approved" => approvals' # {}
    BY <1>3, <2>3 DEF Goal, Known
  <2>8. Known(opp)'
    <3>1. evidence' = evidence BY DEF Write
    <3> QED BY <1>3, <2>3, <2>5, <2>7, <3>1 DEF Known
  <2>9. (approvals # {} => submitted) /\ approvals \subseteq Owners
    BY DEF IInv, DecisionInv
  <2>10. h.op = "approve" => submitted /\ h.actor \in Owners
    BY <1>1, <2>3 DEF HandlerInv, Known
  <2>11. (approvals' # {} => submitted') /\ approvals' \subseteq Owners
    BY <1>3, <2>9, <2>10
  <2>12. DecisionInv'
    BY <2>1, <2>8, <2>11 DEF DecisionInv, IInv, Write, Grows
  <2> QED BY <2>2, <2>6, <2>12 DEF IInv
<1> QED BY <1>2, <1>3 DEF Write

LEMMA InsertPrdStep ==
  ASSUME IInv, NEW s \in Slots, InsertPrd(s)
  PROVE  IInv'
<1> DEFINE h == slot[s]
<1>1. h \in Handler /\ h.pc = "insert" /\ HandlerInv(h) BY InFlight DEF InsertPrd
<1>2. Grows BY DEF InsertPrd, Grows, IInv, TypeOK, history
<1>3. SlotsInv' /\ slot' \in [Slots -> Handler \cup {Idle}]
  BY <1>2, ReplyStep DEF IInv, InsertPrd
<1>4. approvals # {} /\ h.refs # {} /\ h.refs \subseteq evidence
  BY <1>1 DEF HandlerInv, Known
<1>5. prds' \subseteq prds \cup {h.refs} BY DEF InsertPrd
<1>6. Known(opp)' BY DEF IInv, DecisionInv, Known, InsertPrd, history
<1>7. DecisionInv' BY <1>4, <1>5, <1>6 DEF IInv, DecisionInv, InsertPrd, history
<1>8. faults' \in 0..MaxFaults BY FaultType DEF IInv, InsertPrd
<1>9. h.refs \subseteq Evidence BY <1>4 DEF IInv, TypeOK
<1>10. TypeOK' BY <1>3, <1>5, <1>8, <1>9 DEF IInv, TypeOK, InsertPrd, history
<1> QED BY <1>3, <1>7, <1>10 DEF IInv

LEMMA NewEvidenceStep ==
  ASSUME IInv, NewEvidence
  PROVE  IInv'
<1>1. Grows BY DEF NewEvidence, Grows, IInv, TypeOK, history
<1>2. SlotsInv'
  <2> SUFFICES ASSUME NEW z \in Slots, slot[z] # Idle PROVE HandlerInv(slot[z])'
    BY DEF SlotsInv, NewEvidence
  <2>1. slot[z] \in Handler /\ HandlerInv(slot[z]) BY DEF IInv, TypeOK, SlotsInv
  <2>2. ASSUME NEW x \in Handler, x = slot[z] PROVE HandlerInv(x)'
    BY <1>1, <2>1, <2>2, HandlerKept DEF IInv
  <2>3. slot' = slot BY DEF NewEvidence
  <2> QED BY <2>1, <2>2, <2>3
<1>3. SlotsInv' /\ DecisionInv' BY <1>1, <1>2, OnlySlots DEF NewEvidence
<1>4. TypeOK' BY DEF NewEvidence, IInv, TypeOK, history
<1> QED BY <1>3, <1>4 DEF IInv

LEMMA CrashStep ==
  ASSUME IInv, Crash
  PROVE  IInv'
<1>1. Grows BY DEF Crash, Grows, IInv, TypeOK, history
<1>2. SlotsInv' BY DEF Crash, SlotsInv
<1>3. SlotsInv' /\ DecisionInv' BY <1>1, <1>2, OnlySlots DEF Crash
<1>4. faults' \in 0..MaxFaults BY FaultType DEF IInv, Crash
<1>5. TypeOK' BY <1>4 DEF Crash, IInv, TypeOK, history
<1> QED BY <1>3, <1>5 DEF IInv

-----------------------------------------------------------------------------
LEMMA InitHolds == Init => IInv
<1> SUFFICES ASSUME Init PROVE IInv OBVIOUS
<1>1. opp \in Row /\ Known(opp) BY DEF Init, Known, Row, Status
<1>2. TypeOK
  <2>1. 0 \in 0..MaxRequests /\ 0 \in 0..MaxFaults BY NumbersAssumption
  <2>2. evidence \subseteq Evidence BY DEF Init
  <2>3. slot \in [Slots -> Handler \cup {Idle}] BY DEF Init
  <2> QED BY <1>1, <2>1, <2>2, <2>3 DEF Init, TypeOK
<1> QED BY <1>1, <1>2 DEF Init, IInv, SlotsInv, DecisionInv

LEMMA NextPreserves == IInv /\ [Next]_vars => IInv'
<1> SUFFICES ASSUME IInv, [Next]_vars PROVE IInv' OBVIOUS
<1>1. ASSUME NEW s \in Slots, NEW op \in Ops, NEW who \in Actors, NEW e \in Evidence,
             Arrive(s, op, who, e)
      PROVE  IInv'
  BY <1>1, ArriveStep
<1>2. ASSUME NEW s \in Slots, Step(s) PROVE IInv'
  BY <1>2, ReadStep, LoadEvidenceStep, AuthorizeStep, CheckApprovedStep, ReReadStep,
     WriteStep, InsertPrdStep DEF Step
<1>3. CASE NewEvidence BY <1>3, NewEvidenceStep
<1>4. CASE Crash BY <1>4, CrashStep
<1>5. CASE UNCHANGED vars
  <2>1. TypeOK' BY <1>5 DEF IInv, TypeOK, vars, history
  <2>2. Grows BY <1>5 DEF Grows, vars, IInv, TypeOK, history
  <2>3. SlotsInv'
    BY <1>5 DEF IInv, SlotsInv, HandlerInv, Known, Visible, vars, history
  <2>4. SlotsInv' /\ DecisionInv' BY <1>5, <2>2, <2>3, OnlySlots DEF vars, history
  <2> QED BY <2>1, <2>4 DEF IInv
<1> QED BY <1>1, <1>2, <1>3, <1>4, <1>5 DEF Next

\* The invariant holds in every reachable state of the opportunity's services.
THEOREM Invariance == Spec => []IInv
BY InitHolds, NextPreserves, PTL DEF Spec

\* Every reachable state of the opportunity's services is well typed.
THEOREM TypeCorrect == Spec => []TypeOK
<1>1. IInv => TypeOK BY DEF IInv
<1> QED BY <1>1, Invariance, PTL

\* An opportunity is approved, and a PRD created from it, only after a submission and
\* an owner's approval (approve_opportunity, create_from_approved_opportunity).
THEOREM ApprovalComesFirst == Spec => []OwnerApproved
<1>1. IInv => OwnerApproved
  BY DEF IInv, DecisionInv, OwnerApproved, Known
<1> QED BY <1>1, Invariance, PTL

\* The opportunity and its PRDs refer to some, and only to existing, evidence
\* (create_candidate, update_candidate, _transition).
THEOREM AlwaysGrounded == Spec => []Grounded
<1>1. IInv => Grounded BY DEF IInv, DecisionInv, Grounded, Known
<1> QED BY <1>1, Invariance, PTL

\* A step that changes the row is the write of one handler.
LEMMA RowIsWritten ==
  ASSUME IInv, [Next]_vars, opp' # opp
  PROVE  \E s \in Slots :
           /\ Writes(s) /\ HandlerInv(slot[s])
           /\ opp'.status = Goal(slot[s]) /\ opp'.refs = slot[s].refs
<1>1. \E s \in Slots : Write(s)
  BY DEF Next, Step, vars, Arrive, Read, LoadEvidence, Authorize, CheckApproved, ReRead,
         InsertPrd, NewEvidence, Crash
<1>2. PICK s \in Slots : Write(s) BY <1>1
<1>3. At(s, "write") /\ HandlerInv(slot[s]) BY <1>2, InFlight DEF Write
<1>4. slot'[s] = Idle BY <1>2 DEF Write, Reply, IInv, TypeOK
<1>5. opp' = [status |-> Goal(slot[s]), refs |-> slot[s].refs,
              version |-> slot[s].seen.version + 1]
  BY <1>2 DEF Write
<1> QED BY <1>3, <1>4, <1>5 DEF Writes

\* A decision is only undone by reject, or by a handler that read the row before it
\* (submit_for_approval, evaluate and update_candidate of services.py).
THEOREM DecisionsAreKept == Spec => DecisionsStand
<1> DEFINE Stands ==
      opp.status \in Decided /\ opp'.status # opp.status =>
        \E s \in Slots : Writes(s) /\ (slot[s].op = "reject" \/ slot[s].first # opp)
<1>1. ASSUME IInv, [Next]_vars PROVE Stands
  <2> SUFFICES ASSUME opp.status \in Decided, opp'.status # opp.status
               PROVE  \E s \in Slots :
                        Writes(s) /\ (slot[s].op = "reject" \/ slot[s].first # opp)
    OBVIOUS
  <2>1. PICK s \in Slots : Writes(s) /\ HandlerInv(slot[s]) /\ opp'.status = Goal(slot[s])
    BY <1>1, RowIsWritten
  <2>2. slot[s] \in Handler /\ slot[s].pc = "write"
    BY <1>1, <2>1, InFlight DEF Writes
  <2>3. slot[s].op \in {"edit", "submit", "reject", "evaluate", "approve"}
    BY <2>1, <2>2 DEF Handler, Ops, HandlerInv
  <2>4. slot[s].op \in {"edit", "evaluate"} => slot[s].first # opp
    BY <2>1, <2>2 DEF HandlerInv, Goal
  <2>5. slot[s].op \in {"submit", "approve"} => slot[s].first # opp
    BY <2>1, <2>2 DEF HandlerInv, Decided
  <2> QED BY <2>1, <2>3, <2>4, <2>5
<1>2. Spec => [][Stands]_vars BY <1>1, Invariance, PTL DEF Spec
<1> QED BY <1>2 DEF DecisionsStand

\* A reference is lost only to a writer with an older copy, or to the limit of the
\* listing of evidence (update_candidate, _load_evidence).
THEOREM ReferencesAreKept == Spec => EvidenceKept
<1> DEFINE Kept ==
      \A e \in opp.refs \ opp'.refs :
        e \notin Visible \/ \E s \in Slots : Writes(s) /\ slot[s].seen # opp
<1>1. ASSUME IInv, [Next]_vars PROVE Kept
  <2> SUFFICES ASSUME NEW e \in opp.refs \ opp'.refs, e \in Visible
               PROVE  \E s \in Slots : Writes(s) /\ slot[s].seen # opp
    OBVIOUS
  <2>1. PICK s \in Slots : Writes(s) /\ HandlerInv(slot[s]) /\ opp'.refs = slot[s].refs
    BY <1>1, RowIsWritten
  <2>2. slot[s].pc = "write" BY <1>1, <2>1, InFlight DEF Writes
  <2>3. \A x \in slot[s].seen.refs \ slot[s].refs : x \notin Visible
    BY <2>1, <2>2 DEF HandlerInv
  <2> QED BY <2>1, <2>3
<1>2. Spec => [][Kept]_vars BY <1>1, Invariance, PTL DEF Spec
<1> QED BY <1>2 DEF EvidenceKept
=============================================================================
