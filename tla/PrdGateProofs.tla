---------------------------- MODULE PrdGateProofs ----------------------------
(***************************************************************************)
(* Theorems of PrdGate, for any number of handlers in flight, any versions *)
(* and any number of failures and crashes; and, for one handler at a time, *)
(* what PrdGateSpec promises.                                              *)
(***************************************************************************)
EXTENDS PrdGate, TLAPS

-----------------------------------------------------------------------------
(* The inductive invariant. *)

\* Any status a version can show was granted by an owner, or needs no grant.
Earned(v, status) ==
  status \in {"approved", "waived", "ready_for_delivery"} => Granted(v, status)

\* A decision shown for a version is that of a stored assessment, and a version
\* shown as quality_checked has one.
Backed(v, shown) ==
  /\ shown.decision # "none" => <<v, shown.decision>> \in assessed
  /\ shown.status = "quality_checked" => shown.decision # "none"

\* What must hold of the database when a handler is about to write its status.
MayGrant(v, op) ==
  /\ op = "approve" => <<v, "pass">> \in assessed
  /\ op = "waive"   => \E d \in Decisions \ {"pass"} : <<v, d>> \in assessed
  /\ op = "ready"   => Granted(v, "approved") \/ Granted(v, "waived")

\* What a handler in flight may rely on, however old what it has read is.
HandlerInv(h) ==
  /\ row[h.version] # NoRow
  /\ h.op = "revise" /\ h.pc # "audit" => h.version < MaxVersion
  /\ h.pc = "authorize" => h.op \in GateOps \cup {"revise"}
  /\ h.pc = "authorize" /\ h.op \in GateOps =>
       Earned(h.version, h.seen.status) /\ Backed(h.version, h.seen)
  /\ h.pc = "reread" => h.op \in GateOps
  /\ h.pc = "write" => h.op \in GateOps \cup {"assess"}
  /\ h.pc \in {"reread", "write"} /\ h.op \in GateOps =>
       h.actor \in Owners /\ MayGrant(h.version, h.op) /\ Backed(h.version, h.seen)
  /\ h.pc = "review" => h.op = "assess"
  /\ h.pc = "save" => h.op = "assess" /\ h.outcome \in Decisions
  /\ h.pc = "write" /\ h.op = "assess" =>
       h.outcome \in Decisions /\ <<h.version, h.outcome>> \in assessed
  /\ h.pc = "insert" => h.op = "revise"
  /\ h.pc \in {"lookup", "post", "record"} =>
       h.op = "export" /\ Granted(h.version, "ready_for_delivery")
  /\ h.pc = "record" => h.outcome \in ExportStates

SlotsInv == \A s \in Slots : slot[s] # Idle => HandlerInv(slot[s])

RowsInv ==
  \A v \in Versions :
    Earned(v, row[v].status) /\ Backed(v, row[v])

GrantsInv ==
  /\ \A g \in grants : g[3] \in Owners
  /\ \A v \in Versions :
       /\ Granted(v, "approved") => <<v, "pass">> \in assessed
       /\ Granted(v, "waived") => \E d \in Decisions \ {"pass"} : <<v, d>> \in assessed
       /\ Granted(v, "ready_for_delivery") =>
            Granted(v, "approved") \/ Granted(v, "waived")

CopiesInv ==
  \A v \in Versions, t \in Targets :
    copies[<<v, t>>] # NoCopy => Granted(v, "ready_for_delivery")

IInv == TypeOK /\ SlotsInv /\ RowsInv /\ GrantsInv /\ CopiesInv

-----------------------------------------------------------------------------
\* Nothing a handler relies on is ever taken away again.
Grows ==
  /\ assessed \subseteq assessed'
  /\ grants \subseteq grants'
  /\ \A v \in Versions : row[v] # NoRow => row'[v] # NoRow

LEMMA GrantsGrow ==
  ASSUME Grows, NEW v, NEW status, Granted(v, status)
  PROVE  Granted(v, status)'
BY DEF Grows, Granted

LEMMA HandlerKept ==
  ASSUME Grows, NEW h \in Handler, HandlerInv(h)
  PROVE  HandlerInv(h)'
<1>1. h.version \in Versions BY DEF Handler
<1>2. row'[h.version] # NoRow BY <1>1 DEF Grows, HandlerInv
<1>3. ASSUME NEW status, Earned(h.version, status)
      PROVE  Earned(h.version, status)'
  BY <1>3, GrantsGrow DEF Earned
<1>4. ASSUME NEW shown, Backed(h.version, shown)
      PROVE  Backed(h.version, shown)'
  BY <1>4 DEF Backed, Grows
<1>5. ASSUME NEW op, MayGrant(h.version, op)
      PROVE  MayGrant(h.version, op)'
  BY <1>5, GrantsGrow DEF MayGrant, Grows
<1>6. Granted(h.version, "ready_for_delivery") => Granted(h.version, "ready_for_delivery")'
  BY GrantsGrow
<1>7. \A d : <<h.version, d>> \in assessed => <<h.version, d>> \in assessed'
  BY DEF Grows
<1> QED BY <1>2, <1>3, <1>4, <1>5, <1>6, <1>7 DEF HandlerInv

\* One slot changes, to a handler that satisfies its part; the others keep theirs.
LEMMA OneSlot ==
  ASSUME TypeOK, SlotsInv, Grows, NEW s \in Slots, NEW h \in Handler \cup {Idle},
         slot' = [slot EXCEPT ![s] = h], h # Idle => HandlerInv(h)'
  PROVE  SlotsInv' /\ slot' \in [Slots -> Handler \cup {Idle}]
<1>1. slot' \in [Slots -> Handler \cup {Idle}] BY DEF TypeOK
<1>2. ASSUME NEW z \in Slots, slot'[z] # Idle
      PROVE  HandlerInv(slot[z])' 
  <2>1. CASE z = s BY <2>1, <1>2 DEF TypeOK
  <2>2. CASE z # s
    <3>1. slot'[z] = slot[z] BY <2>2 DEF TypeOK
    <3>2. slot[z] \in Handler BY <3>1, <1>2 DEF TypeOK
    <3>3. HandlerInv(slot[z]) BY <3>1, <1>2 DEF SlotsInv
    <3>4. ASSUME NEW x \in Handler, x = slot[z] PROVE HandlerInv(x)'
      BY <3>3, <3>4, HandlerKept
    <3> QED BY <3>1, <3>2, <3>4 
  <2> QED BY <2>1, <2>2
<1> QED BY <1>1, <1>2 DEF SlotsInv

\* A step that leaves the history and the database columns of the invariant alone.
LEMMA OnlySlots ==
  ASSUME IInv, UNCHANGED <<row, assessed, grants, copies>>, SlotsInv', TypeOK'
  PROVE  IInv'
BY DEF IInv, RowsInv, GrantsInv, CopiesInv, Earned, Backed, Granted

LEMMA IdleIsNoHandler == Idle \notin Handler
BY DEF Idle, Handler, Ops, GateOps

LEMMA ArriveStep ==
  ASSUME IInv, NEW s \in Slots, NEW op \in Ops, NEW v \in Versions,
         NEW who \in Actors, NEW t \in Targets, Arrive(s, op, v, who, t)
  PROVE  IInv'
<1>1. PICK h \in Handler :
        h = [op |-> op, version |-> v, actor |-> who, target |-> t,
             pc |-> "read", seen |-> NoRow, outcome |-> "none"]
  BY DEF Handler, Steps, ExportStates
<1>2. slot' = [slot EXCEPT ![s] = h] BY <1>1 DEF Arrive
<1>3. Grows BY DEF Arrive, Grows, db
<1>4. HandlerInv(h)' BY <1>1 DEF Arrive, HandlerInv, db
<1>5. SlotsInv' /\ slot' \in [Slots -> Handler \cup {Idle}]
  BY <1>2, <1>3, <1>4, OneSlot DEF IInv
<1>6. TypeOK' BY <1>5 DEF TypeOK, IInv, Arrive, db, external
<1> QED BY <1>5, <1>6, OnlySlots DEF Arrive, db, external

LEMMA FaultType ==
  ASSUME TypeOK, Sound \/ Fault
  PROVE  faults' \in 0..MaxFaults
BY BoundsAssumption DEF TypeOK, Sound, Fault

\* A handler that answers its caller, or dies, leaves an idle slot.
LEMMA ReplyStep ==
  ASSUME IInv, NEW s \in Slots, Reply(s), Sound \/ Fault,
         UNCHANGED <<db, grants, external>>
  PROVE  IInv'
<1>1. Grows BY DEF Grows, db
<1>2. SlotsInv' /\ slot' \in [Slots -> Handler \cup {Idle}]
  BY <1>1, OneSlot DEF IInv, Reply
<1>3. TypeOK' BY <1>2, FaultType DEF TypeOK, IInv, db, external
<1> QED BY <1>2, <1>3, OnlySlots DEF db, external

\* A handler that goes on after a call that only read.
LEMMA GoOnStep ==
  ASSUME IInv, NEW s \in Slots, NEW h \in Handler, HandlerInv(h),
         slot' = [slot EXCEPT ![s] = h], Sound \/ Fault,
         UNCHANGED <<db, grants, external>>
  PROVE  IInv'
<1>1. Grows BY DEF Grows, db
<1>2. HandlerInv(h)' BY <1>1, HandlerKept
<1>3. SlotsInv' /\ slot' \in [Slots -> Handler \cup {Idle}]
  BY <1>1, <1>2, OneSlot DEF IInv
<1>4. TypeOK' BY <1>3, FaultType DEF TypeOK, IInv, db, external
<1> QED BY <1>3, <1>4, OnlySlots DEF db, external

LEMMA HandlerAt ==
  ASSUME IInv, NEW s \in Slots, NEW step, At(s, step)
  PROVE  slot[s] \in Handler /\ slot[s].pc = step /\ HandlerInv(slot[s])
BY DEF IInv, TypeOK, SlotsInv, At

LEMMA ReadVersionStep ==
  ASSUME IInv, NEW s \in Slots, ReadVersion(s)
  PROVE  IInv'
<1>1. slot[s] \in Handler /\ slot[s].pc = "read" /\ HandlerInv(slot[s])
  BY HandlerAt DEF ReadVersion
<1> DEFINE seen == row[slot[s].version]
           next == AfterRead(slot[s].op, slot[s].actor, seen)
           kept == IF slot[s].op \in GateOps \cup {"export"} THEN seen ELSE NoRow
<1>2. CASE next # "refuse" /\ Sound /\ slot' = [slot EXCEPT ![s].pc = next, ![s].seen = kept]
  <2>1. seen \in Row /\ slot[s].version \in Versions
    BY <1>1 DEF IInv, TypeOK, Handler, HandlerInv
  <2>2. next \in Steps BY <1>2 DEF AfterRead, Steps
  <2>3. PICK h \in Handler : h = [slot[s] EXCEPT !.pc = next, !.seen = kept]
    BY <1>1, <2>1, <2>2 DEF Handler
  <2>4. slot' = [slot EXCEPT ![s] = h] BY <2>3, <1>2, <1>1 DEF IInv, TypeOK, Handler
  <2>5. Earned(h.version, seen.status) /\ Backed(h.version, seen)
    BY <1>1, <2>1, <2>3 DEF IInv, RowsInv, Handler
  <2>6. h.op = slot[s].op /\ h.version = slot[s].version /\ h.pc = next /\ h.seen = kept
    BY <1>1, <2>3 DEF Handler
  <2>7. next \in {"authorize", "insert", "review", "lookup"} BY <1>2 DEF AfterRead
  <2>8. /\ next = "authorize" => h.op \in GateOps \cup {"revise"}
        /\ next = "insert" => h.op = "revise"
        /\ next = "review" => h.op = "assess"
        /\ next = "lookup" => h.op = "export" /\ seen.status = "ready_for_delivery"
    BY <1>2, <2>6 DEF AfterRead, MayExport, GateOps
  <2>9. next = "lookup" => Granted(h.version, "ready_for_delivery")
    BY <2>5, <2>8 DEF Earned
  <2>10. HandlerInv(h)
    BY <1>1, <2>5, <2>6, <2>7, <2>8, <2>9 DEF HandlerInv, GateOps
  <2> QED BY <1>2, <2>4, <2>10, GoOnStep DEF ReadVersion
<1>3. CASE Reply(s) /\ (Sound \/ Fault)
  BY <1>3, ReplyStep DEF ReadVersion
<1> QED BY <1>2, <1>3 DEF ReadVersion

LEMMA AuthorizeStep ==
  ASSUME IInv, NEW s \in Slots, Authorize(s)
  PROVE  IInv'
<1>1. slot[s] \in Handler /\ slot[s].pc = "authorize" /\ HandlerInv(slot[s])
  BY HandlerAt DEF Authorize
<1>2. CASE slot[s].op = "revise" /\ Goto(s, "insert") /\ Sound
  <2>1. PICK h \in Handler : h = [slot[s] EXCEPT !.pc = "insert"]
    BY <1>1 DEF Handler, Steps
  <2>2. slot' = [slot EXCEPT ![s] = h] BY <2>1, <1>2, <1>1 DEF IInv, TypeOK, Goto
  <2>3. HandlerInv(h) BY <1>1, <1>2, <2>1 DEF HandlerInv, Handler
  <2> QED BY <1>2, <2>2, <2>3, GoOnStep DEF Authorize
<1>3. CASE /\ slot[s].actor \in Owners /\ slot[s].op \in GateOps
           /\ MayGate(slot[s].op, slot[s].seen) /\ Goto(s, "reread") /\ Sound
  <2>1. PICK h \in Handler : h = [slot[s] EXCEPT !.pc = "reread"]
    BY <1>1 DEF Handler, Steps
  <2>2. slot' = [slot EXCEPT ![s] = h] BY <2>1, <1>3, <1>1 DEF IInv, TypeOK, Goto
  <2>3. /\ h.op = slot[s].op /\ h.version = slot[s].version /\ h.pc = "reread"
        /\ h.seen = slot[s].seen /\ h.actor = slot[s].actor
    BY <1>1, <2>1 DEF Handler
  <2>4. Earned(h.version, h.seen.status) /\ Backed(h.version, h.seen)
    BY <1>1, <1>3, <2>3 DEF HandlerInv
  <2>5. MayGrant(h.version, h.op)
    <3>1. CASE h.op = "approve"
      BY <1>3, <2>3, <2>4, <3>1 DEF MayGate, MayGrant, Backed
    <3>2. CASE h.op = "waive"
      <4>1. h.seen.status = "quality_checked" /\ h.seen.decision # "pass"
        BY <1>3, <2>3, <3>2 DEF MayGate
      <4>2. h.seen \in Row BY <4>1 DEF Handler, NoRow
      <4>3. h.seen.decision # "none" => h.seen.decision \in Decisions \ {"pass"}
        BY <4>1, <4>2 DEF Row
      <4>4. h.seen.decision # "none" BY <2>4, <4>1 DEF Backed
      <4> QED BY <2>4, <3>2, <4>3, <4>4 DEF MayGrant, Backed
    <3>3. CASE h.op = "ready"
      BY <1>3, <2>3, <2>4, <3>3 DEF MayGate, MayGrant, Earned
    <3> QED BY <1>3, <2>3, <3>1, <3>2, <3>3 DEF GateOps
  <2>6. HandlerInv(h) BY <1>1, <1>3, <2>3, <2>4, <2>5 DEF HandlerInv
  <2> QED BY <1>3, <2>2, <2>6, GoOnStep DEF Authorize
<1>4. CASE Reply(s) /\ (Sound \/ Fault)
  BY <1>4, ReplyStep DEF Authorize
<1> QED BY <1>2, <1>3, <1>4 DEF Authorize

LEMMA ReReadStep ==
  ASSUME IInv, NEW s \in Slots, ReRead(s)
  PROVE  IInv'
<1>1. slot[s] \in Handler /\ slot[s].pc = "reread" /\ HandlerInv(slot[s])
  BY HandlerAt DEF ReRead
<1> DEFINE latest == row[slot[s].version]
<1>2. CASE Sound /\ slot' = [slot EXCEPT ![s].seen = latest, ![s].pc = "write"]
  <2>1. latest \in Row /\ slot[s].version \in Versions
    BY <1>1 DEF IInv, TypeOK, Handler, HandlerInv
  <2>2. PICK h \in Handler : h = [slot[s] EXCEPT !.seen = latest, !.pc = "write"]
    BY <1>1, <2>1 DEF Handler, Steps
  <2>3. slot' = [slot EXCEPT ![s] = h] BY <2>2, <1>2, <1>1 DEF IInv, TypeOK
  <2>4. /\ h.op = slot[s].op /\ h.version = slot[s].version /\ h.pc = "write"
        /\ h.seen = latest /\ h.actor = slot[s].actor
    BY <1>1, <2>2 DEF Handler
  <2>5. Backed(h.version, h.seen) BY <2>1, <2>4 DEF IInv, RowsInv
  <2>6. h.op \in GateOps /\ h.actor \in Owners /\ MayGrant(h.version, h.op)
    BY <1>1, <2>4 DEF HandlerInv
  <2>7. h.op # "assess" /\ (h.op = "revise" => FALSE) BY <2>6 DEF GateOps
  <2>8. HandlerInv(h) BY <1>1, <2>4, <2>5, <2>6, <2>7 DEF HandlerInv
  <2> QED BY <1>2, <2>3, <2>8, GoOnStep DEF ReRead
<1>3. CASE Reply(s) /\ (Sound \/ Fault)
  BY <1>3, ReplyStep DEF ReRead
<1> QED BY <1>2, <1>3 DEF ReRead

LEMMA RunQualityStep ==
  ASSUME IInv, NEW s \in Slots, RunQuality(s)
  PROVE  IInv'
<1>1. slot[s] \in Handler /\ slot[s].pc = "review" /\ HandlerInv(slot[s])
  BY HandlerAt DEF RunQuality
<1>2. ASSUME NEW d \in Decisions, slot' = [slot EXCEPT ![s].outcome = d, ![s].pc = "save"]
      PROVE  IInv'
  <2>1. PICK h \in Handler : h = [slot[s] EXCEPT !.outcome = d, !.pc = "save"]
    BY <1>1 DEF Handler, Steps
  <2>2. slot' = [slot EXCEPT ![s] = h] BY <2>1, <1>2, <1>1 DEF IInv, TypeOK
  <2>3. /\ h.op = slot[s].op /\ h.version = slot[s].version /\ h.pc = "save"
        /\ h.outcome = d
    BY <1>1, <2>1 DEF Handler
  <2>4. HandlerInv(h) BY <1>1, <2>3 DEF HandlerInv, GateOps
  <2> QED BY <2>2, <2>4, GoOnStep DEF RunQuality, Sound
<1>3. CASE Reply(s)
  BY <1>3, ReplyStep DEF RunQuality, Sound
<1> QED BY <1>2, <1>3 DEF RunQuality

LEMMA LookUpExportStep ==
  ASSUME IInv, NEW s \in Slots, LookUpExport(s)
  PROVE  IInv'
<1>1. slot[s] \in Handler /\ slot[s].pc = "lookup" /\ HandlerInv(slot[s])
  BY HandlerAt DEF LookUpExport
<1>2. CASE Goto(s, "post") /\ (Sound \/ Fault)
  <2>1. PICK h \in Handler : h = [slot[s] EXCEPT !.pc = "post"]
    BY <1>1 DEF Handler, Steps
  <2>2. slot' = [slot EXCEPT ![s] = h] BY <2>1, <1>2, <1>1 DEF IInv, TypeOK, Goto
  <2>3. h.op = slot[s].op /\ h.version = slot[s].version /\ h.pc = "post"
    BY <1>1, <2>1 DEF Handler
  <2>4. HandlerInv(h) BY <1>1, <2>3 DEF HandlerInv
  <2> QED BY <1>2, <2>2, <2>4, GoOnStep DEF LookUpExport
<1>3. CASE Reply(s) /\ (Sound \/ Fault)
  BY <1>3, ReplyStep DEF LookUpExport
<1> QED BY <1>2, <1>3 DEF LookUpExport

\* What a step that writes has to show, besides its own columns.
LEMMA SlotTo ==
  ASSUME IInv, NEW s \in Slots, NEW step, At(s, step), NEW next \in Steps, Goto(s, next)
  PROVE  \E h \in Handler :
           /\ slot' = [slot EXCEPT ![s] = h]
           /\ h.op = slot[s].op /\ h.version = slot[s].version /\ h.actor = slot[s].actor
           /\ h.outcome = slot[s].outcome /\ h.seen = slot[s].seen /\ h.pc = next
<1>1. slot[s] \in Handler BY HandlerAt
<1>2. PICK h \in Handler : h = [slot[s] EXCEPT !.pc = next] BY <1>1 DEF Handler
<1>3. slot' = [slot EXCEPT ![s] = h] BY <1>1, <1>2 DEF Goto, IInv, TypeOK
<1> QED BY <1>1, <1>2, <1>3 DEF Handler

LEMMA GrantedMeans ==
  ASSUME NEW h \in Handler, h.actor \in Owners, NEW status,
         grants' = grants \cup {<<h.version, status, h.actor>>}
  PROVE  /\ Granted(h.version, status)'
         /\ \A v, other : <<v, other>> # <<h.version, status>> =>
              (Granted(v, other)' <=> Granted(v, other))
BY DEF Granted

\* A decision written by an owner: the guard may be out of date, but what
\* was read when it was checked still holds.
LEMMA WriteGrantStep ==
  ASSUME IInv, NEW s \in Slots, WriteGate(s), slot[s].op \in GateOps, Sound,
         row' = [row EXCEPT ![slot[s].version] = Written(slot[s])],
         grants' = grants \cup {<<slot[s].version, Goal(slot[s].op), slot[s].actor>>}
  PROVE  IInv'
<1>1. slot[s] \in Handler /\ slot[s].pc = "write" /\ HandlerInv(slot[s])
  BY HandlerAt DEF WriteGate
<1>2. PICK h \in Handler :
        /\ slot' = [slot EXCEPT ![s] = h]
        /\ h.op = slot[s].op /\ h.version = slot[s].version /\ h.actor = slot[s].actor
        /\ h.outcome = slot[s].outcome /\ h.seen = slot[s].seen /\ h.pc = "audit"
  BY SlotTo DEF WriteGate, Steps
<1>3. /\ h.version \in Versions /\ h.actor \in Owners /\ h.op \in GateOps
      /\ MayGrant(h.version, h.op) /\ Backed(h.version, h.seen)
      /\ h.seen \in Row \cup {NoRow}
  BY <1>1, <1>2 DEF HandlerInv, Handler
<1> DEFINE new == [h.seen EXCEPT !.status = Goal(h.op)]
<1>4. /\ new \in Row /\ new.status = Goal(h.op) /\ new.decision = h.seen.decision
      /\ Goal(h.op) \in {"approved", "waived", "ready_for_delivery"}
  BY <1>3 DEF Row, NoRow, Goal, GateOps, Status
<1>5. row' = [row EXCEPT ![h.version] = new]
  BY <1>2, <1>3 DEF Written, GateOps
<1>6. grants' = grants \cup {<<h.version, Goal(h.op), h.actor>>} BY <1>2
<1>7. UNCHANGED <<assessed, copies, sent, export, audit, faults>>
  BY DEF WriteGate, external, Sound
<1>8. Granted(h.version, Goal(h.op))' /\
      \A v, other : <<v, other>> # <<h.version, Goal(h.op)>> =>
         (Granted(v, other)' <=> Granted(v, other))
  BY <1>3, <1>6, GrantedMeans
<1>9. Grows BY <1>4, <1>5, <1>6, <1>7 DEF Grows, IInv, TypeOK, Row, NoRow
<1>10. HandlerInv(h)'
  <2>1. HandlerInv(slot[s]) => row[h.version] # NoRow BY <1>2 DEF HandlerInv
  <2>2. row'[h.version] # NoRow BY <2>1, <1>1, <1>3, <1>9 DEF Grows
  <2> QED BY <1>2, <1>3, <2>2 DEF HandlerInv, GateOps
<1>11. SlotsInv' /\ slot' \in [Slots -> Handler \cup {Idle}]
  BY <1>2, <1>9, <1>10, OneSlot DEF IInv
<1>12. RowsInv'
  <2>1. ASSUME NEW v \in Versions PROVE (Earned(v, row[v].status) /\ Backed(v, row[v]))'
    <3>1. CASE v = h.version
      <4>1. row'[v] = new BY <3>1, <1>5 DEF IInv, TypeOK
      <4>2. Backed(v, new)' BY <3>1, <1>3, <1>4, <1>7 DEF Backed
      <4> QED BY <3>1, <4>1, <4>2, <1>4, <1>8 DEF Earned
    <3>2. CASE v # h.version
      <4>1. row'[v] = row[v] BY <3>2, <1>5 DEF IInv, TypeOK
      <4>2. Earned(v, row[v].status) /\ Backed(v, row[v]) BY DEF IInv, RowsInv
      <4> QED BY <4>1, <4>2, <1>7, <1>9, GrantsGrow DEF Earned, Backed
    <3> QED BY <3>1, <3>2
  <2> QED BY <2>1 DEF RowsInv
<1>13. GrantsInv'
  <2>1. \A g \in grants' : g[3] \in Owners BY <1>3, <1>6 DEF IInv, GrantsInv
  <2>2. ASSUME NEW v \in Versions
        PROVE /\ Granted(v, "approved")' => <<v, "pass">> \in assessed'
              /\ Granted(v, "waived")' => \E d \in Decisions \ {"pass"} : <<v, d>> \in assessed'
              /\ Granted(v, "ready_for_delivery")' =>
                   Granted(v, "approved")' \/ Granted(v, "waived")'
    <3>1. /\ Granted(v, "approved") => <<v, "pass">> \in assessed
          /\ Granted(v, "waived") => \E d \in Decisions \ {"pass"} : <<v, d>> \in assessed
          /\ Granted(v, "ready_for_delivery") => Granted(v, "approved") \/ Granted(v, "waived")
      BY DEF IInv, GrantsInv
    <3>2. CASE v # h.version BY <3>1, <3>2, <1>7, <1>8
    <3>3. CASE v = h.version /\ h.op = "approve"
      BY <3>1, <3>3, <1>3, <1>7, <1>8 DEF MayGrant, Goal
    <3>4. CASE v = h.version /\ h.op = "waive"
      BY <3>1, <3>4, <1>3, <1>7, <1>8 DEF MayGrant, Goal
    <3>5. CASE v = h.version /\ h.op = "ready"
      BY <3>1, <3>5, <1>3, <1>7, <1>8 DEF MayGrant, Goal
    <3> QED BY <1>3, <3>2, <3>3, <3>4, <3>5 DEF GateOps
  <2> QED BY <2>1, <2>2 DEF GrantsInv
<1>14. CopiesInv' BY <1>7, <1>9, GrantsGrow DEF IInv, CopiesInv
<1>15. TypeOK'
  <2>1. row' \in [Versions -> Row \cup {NoRow}] BY <1>4, <1>5 DEF IInv, TypeOK
  <2>2. grants' \subseteq Versions \X Status \X Actors
    BY <1>3, <1>4, <1>6, OwnersAssumption DEF IInv, TypeOK, Status
  <2> QED BY <2>1, <2>2, <1>7, <1>11 DEF IInv, TypeOK
<1> QED BY <1>11, <1>12, <1>13, <1>14, <1>15 DEF IInv

\* assess_quality writes its decision over whatever the columns hold by now.
LEMMA WriteAssessedStep ==
  ASSUME IInv, NEW s \in Slots, WriteGate(s), slot[s].op = "assess", Sound,
         row' = [row EXCEPT ![slot[s].version] = Written(slot[s])], grants' = grants
  PROVE  IInv'
<1>1. slot[s] \in Handler /\ slot[s].pc = "write" /\ HandlerInv(slot[s])
  BY HandlerAt DEF WriteGate
<1>2. PICK h \in Handler :
        /\ slot' = [slot EXCEPT ![s] = h]
        /\ h.op = slot[s].op /\ h.version = slot[s].version /\ h.actor = slot[s].actor
        /\ h.outcome = slot[s].outcome /\ h.seen = slot[s].seen /\ h.pc = "audit"
  BY SlotTo DEF WriteGate, Steps
<1> DEFINE new == [status |-> "quality_checked", decision |-> h.outcome]
<1>3. /\ h.version \in Versions /\ h.op = "assess" /\ h.outcome \in Decisions
      /\ <<h.version, h.outcome>> \in assessed
  BY <1>1, <1>2 DEF HandlerInv, Handler
<1>4. row' = [row EXCEPT ![h.version] = new] BY <1>2, <1>3 DEF Written
<1>5. new \in Row /\ new # NoRow BY <1>3 DEF Row, NoRow, Status
<1>6. UNCHANGED <<assessed, grants, copies, sent, export, audit, faults>>
  BY DEF WriteGate, external, Sound
<1>7. Grows BY <1>4, <1>5, <1>6 DEF Grows, IInv, TypeOK
<1>8. HandlerInv(h)'
  BY <1>2, <1>3, <1>4, <1>5 DEF HandlerInv, GateOps, IInv, TypeOK
<1>9. SlotsInv' /\ slot' \in [Slots -> Handler \cup {Idle}]
  BY <1>2, <1>7, <1>8, OneSlot DEF IInv
<1>10. RowsInv'
  <2>1. ASSUME NEW v \in Versions PROVE (Earned(v, row[v].status) /\ Backed(v, row[v]))'
    <3>1. CASE v = h.version
      <4>1. row'[v] = new BY <3>1, <1>4 DEF IInv, TypeOK
      <4> QED BY <3>1, <4>1, <1>3, <1>6 DEF Earned, Backed, Decisions
    <3>2. CASE v # h.version
      <4>1. row'[v] = row[v] BY <3>2, <1>4 DEF IInv, TypeOK
      <4>2. Earned(v, row[v].status) /\ Backed(v, row[v]) BY DEF IInv, RowsInv
      <4> QED BY <4>1, <4>2, <1>6, <1>7, GrantsGrow DEF Earned, Backed
    <3> QED BY <3>1, <3>2
  <2> QED BY <2>1 DEF RowsInv
<1>11. GrantsInv' /\ CopiesInv' BY <1>6 DEF IInv, GrantsInv, CopiesInv, Granted
<1>12. TypeOK'
  <2>1. row' \in [Versions -> Row \cup {NoRow}] BY <1>4, <1>5 DEF IInv, TypeOK
  <2> QED BY <2>1, <1>6, <1>9 DEF IInv, TypeOK
<1> QED BY <1>9, <1>10, <1>11, <1>12 DEF IInv

LEMMA WriteGateStep ==
  ASSUME IInv, NEW s \in Slots, WriteGate(s)
  PROVE  IInv'
<1>1. slot[s] \in Handler /\ slot[s].pc = "write" /\ HandlerInv(slot[s])
  BY HandlerAt DEF WriteGate
<1>2. CASE UNCHANGED <<row, grants>> /\ Fault
  <2>1. PICK h \in Handler :
          /\ slot' = [slot EXCEPT ![s] = h]
          /\ h.op = slot[s].op /\ h.version = slot[s].version /\ h.actor = slot[s].actor
          /\ h.outcome = slot[s].outcome /\ h.seen = slot[s].seen /\ h.pc = "audit"
    BY SlotTo DEF WriteGate, Steps
  <2>2. HandlerInv(h) BY <1>1, <2>1 DEF HandlerInv
  <2> QED BY <1>2, <2>1, <2>2, GoOnStep DEF WriteGate, db
<1>3. CASE ~(UNCHANGED <<row, grants>> /\ Fault)
  <2>1. slot[s].op \in GateOps \cup {"assess"} BY <1>1 DEF HandlerInv
  <2> QED BY <1>3, <2>1, WriteGrantStep, WriteAssessedStep DEF WriteGate, GateOps
<1> QED BY <1>2, <1>3

LEMMA AppendAuditStep ==
  ASSUME IInv, NEW s \in Slots, AppendAudit(s)
  PROVE  IInv'
<1>1. slot[s] \in Handler BY HandlerAt DEF AppendAudit
<1>2. UNCHANGED <<row, assessed, export, grants, sent, copies>> /\ (Sound \/ Fault)
  BY DEF AppendAudit, external
<1>3. audit' \subseteq Versions \X GateOps
  BY <1>1 DEF IInv, TypeOK, AppendAudit, Handler
<1>4. Grows BY <1>2 DEF Grows
<1>5. SlotsInv' /\ slot' \in [Slots -> Handler \cup {Idle}]
  BY <1>4, OneSlot DEF IInv, AppendAudit, Reply
<1>6. TypeOK' BY <1>2, <1>3, <1>5, FaultType DEF TypeOK, IInv
<1> QED BY <1>2, <1>5, <1>6, OnlySlots

LEMMA SaveAssessmentStep ==
  ASSUME IInv, NEW s \in Slots, SaveAssessment(s)
  PROVE  IInv'
<1>1. slot[s] \in Handler /\ slot[s].pc = "save" /\ HandlerInv(slot[s])
  BY HandlerAt DEF SaveAssessment
<1>2. CASE Reply(s) /\ Fault /\ UNCHANGED assessed
  BY <1>2, ReplyStep DEF SaveAssessment, db
<1>3. CASE /\ assessed' = assessed \cup {<<slot[s].version, slot[s].outcome>>}
           /\ Goto(s, "write") /\ Sound
  <2>1. PICK h \in Handler :
          /\ slot' = [slot EXCEPT ![s] = h]
          /\ h.op = slot[s].op /\ h.version = slot[s].version /\ h.actor = slot[s].actor
          /\ h.outcome = slot[s].outcome /\ h.seen = slot[s].seen /\ h.pc = "write"
    BY <1>3, SlotTo DEF SaveAssessment, Steps
  <2>2. UNCHANGED <<row, export, audit, grants, sent, copies, faults>>
    BY <1>3 DEF SaveAssessment, external, Sound
  <2>3. h.version \in Versions /\ h.op = "assess" /\ h.outcome \in Decisions
    BY <1>1, <2>1 DEF HandlerInv, Handler
  <2>4. Grows BY <1>3, <2>2 DEF Grows
  <2>5. <<h.version, h.outcome>> \in assessed' BY <1>3, <2>1
  <2>6. row'[h.version] # NoRow BY <1>1, <2>1, <2>2 DEF HandlerInv
  <2>7. HandlerInv(h)' BY <2>1, <2>3, <2>5, <2>6 DEF HandlerInv, GateOps
  <2>8. SlotsInv' /\ slot' \in [Slots -> Handler \cup {Idle}]
    BY <2>1, <2>4, <2>7, OneSlot DEF IInv
  <2>9. RowsInv' BY <1>3, <2>2, <2>4, GrantsGrow DEF IInv, RowsInv, Earned, Backed
  <2>10. GrantsInv' BY <1>3, <2>2 DEF IInv, GrantsInv, Granted
  <2>11. CopiesInv' BY <2>2 DEF IInv, CopiesInv, Granted
  <2>12. TypeOK' BY <1>3, <2>1, <2>2, <2>3, <2>8 DEF IInv, TypeOK
  <2> QED BY <2>8, <2>9, <2>10, <2>11, <2>12 DEF IInv
<1> QED BY <1>2, <1>3 DEF SaveAssessment

LEMMA InsertRevisionStep ==
  ASSUME IInv, NEW s \in Slots, InsertRevision(s)
  PROVE  IInv'
<1>1. slot[s] \in Handler /\ slot[s].pc = "insert" /\ HandlerInv(slot[s])
  BY HandlerAt DEF InsertRevision
<1> DEFINE next == slot[s].version + 1
<1>2. CASE UNCHANGED row /\ Reply(s) /\ (Sound \/ Fault)
  BY <1>2, ReplyStep DEF InsertRevision, db
<1>3. CASE /\ row[next] = NoRow /\ row' = [row EXCEPT ![next] = Draft]
           /\ slot' = [slot EXCEPT ![s].version = next, ![s].pc = "audit"]
           /\ Sound
  <2>1. next \in Versions
    BY <1>1, BoundsAssumption DEF HandlerInv, Handler, Versions
  <2>2. PICK h \in Handler : h = [slot[s] EXCEPT !.version = next, !.pc = "audit"]
    BY <1>1, <2>1 DEF Handler, Steps
  <2>3. slot' = [slot EXCEPT ![s] = h] BY <1>1, <1>3, <2>2 DEF IInv, TypeOK
  <2>4. UNCHANGED <<assessed, export, audit, grants, sent, copies, faults>>
    BY <1>3 DEF InsertRevision, external, Sound
  <2>5. Draft \in Row /\ Draft # NoRow BY DEF Draft, Row, Status, NoRow
  <2>6. Grows BY <1>3, <2>4, <2>5 DEF Grows, IInv, TypeOK
  <2>7. h.version = next /\ h.pc = "audit" BY <1>1, <2>2 DEF Handler
  <2>8. row'[next] = Draft BY <1>3, <2>1 DEF IInv, TypeOK
  <2>9. HandlerInv(h)' BY <2>5, <2>7, <2>8 DEF HandlerInv
  <2>10. SlotsInv' /\ slot' \in [Slots -> Handler \cup {Idle}]
    BY <2>3, <2>6, <2>9, OneSlot DEF IInv
  <2>11. RowsInv'
    <3>1. ASSUME NEW v \in Versions PROVE (Earned(v, row[v].status) /\ Backed(v, row[v]))'
      <4>1. CASE v = next BY <4>1, <2>8 DEF Earned, Backed, Draft
      <4>2. CASE v # next
        <5>1. row'[v] = row[v] BY <4>2, <1>3 DEF IInv, TypeOK
        <5>2. Earned(v, row[v].status) /\ Backed(v, row[v]) BY DEF IInv, RowsInv
        <5> QED BY <5>1, <5>2, <2>4, <2>6, GrantsGrow DEF Earned, Backed
      <4> QED BY <4>1, <4>2
    <3> QED BY <3>1 DEF RowsInv
  <2>12. GrantsInv' /\ CopiesInv' BY <2>4 DEF IInv, GrantsInv, CopiesInv, Granted
  <2>13. row' \in [Versions -> Row \cup {NoRow}] BY <1>3, <2>5 DEF IInv, TypeOK
  <2>14. TypeOK' BY <2>13, <2>4, <2>10 DEF IInv, TypeOK
  <2> QED BY <2>10, <2>11, <2>12, <2>14 DEF IInv
<1> QED BY <1>2, <1>3 DEF InsertRevision

\* What a post leaves outside: nothing new, or one record in one place or in both,
\* and a note of what was posted.
LEMMA PostMakes ==
  ASSUME TypeOK, NEW s \in Slots, Post(s), slot[s] \in Handler,
         NEW key, key = <<slot[s].version, slot[s].target>>
  PROVE  /\ key \in Keys
         /\ copies' \in [Keys -> Copies]
         /\ \A k \in Keys \ {key} : copies'[k] = copies[k]
         /\ copies'[key].own <= copies[key].own + 1
         /\ copies'[key].fallback <= copies[key].fallback + 1
         /\ \/ UNCHANGED <<sent, copies>>
            \/ /\ copies'[key] # NoCopy
               /\ sent' = sent \cup {<<slot[s].version, slot[s].target,
                                       slot[s].seen.decision>>}
<1>1. key \in Keys BY DEF Handler, Keys
<1>2. PICK made \in Made(slot[s].target) :
        /\ copies' = [copies EXCEPT ![key] =
             [own |-> @.own + made.own, fallback |-> @.fallback + made.fallback]]
        /\ copies'[key] \in Copies
        /\ sent' = IF made = NoCopy THEN sent
                   ELSE sent \cup {<<slot[s].version, slot[s].target,
                                     slot[s].seen.decision>>}
  BY DEF Post
<1>3. copies \in [Keys -> Copies] BY DEF TypeOK
<1>4. copies' \in [Keys -> Copies] BY <1>1, <1>2, <1>3
<1>5. /\ copies'[key] = [own |-> copies[key].own + made.own,
                         fallback |-> copies[key].fallback + made.fallback]
      /\ \A k \in Keys \ {key} : copies'[k] = copies[k]
  BY <1>1, <1>2, <1>3
<1>6. /\ copies[key].own \in Nat /\ copies[key].fallback \in Nat
      /\ made.own \in 0..1 /\ made.fallback \in 0..1
      /\ made = [own |-> made.own, fallback |-> made.fallback]
  BY <1>1, <1>2, <1>3, BoundsAssumption DEF Copies, Made
<1>7. CASE made = NoCopy
  <2>1. made.own = 0 /\ made.fallback = 0 BY <1>7 DEF NoCopy
  <2>2. copies'[key] = copies[key] BY <1>1, <1>3, <1>5, <1>6, <2>1 DEF Copies
  <2>3. copies' = copies BY <1>3, <1>4, <1>5, <2>2
  <2> QED BY <1>1, <1>2, <1>4, <1>5, <1>6, <1>7, <2>2, <2>3
<1>8. CASE made # NoCopy
  <2>1. made.own = 1 \/ made.fallback = 1 BY <1>6, <1>8 DEF NoCopy
  <2>2. copies'[key] # NoCopy BY <1>5, <1>6, <2>1 DEF NoCopy
  <2> QED BY <1>1, <1>2, <1>4, <1>5, <1>6, <1>8, <2>2
<1> QED BY <1>7, <1>8

LEMMA PostStep ==
  ASSUME IInv, NEW s \in Slots, Post(s)
  PROVE  IInv'
<1>1. slot[s] \in Handler /\ slot[s].pc = "post" /\ HandlerInv(slot[s])
  BY HandlerAt DEF Post
<1> DEFINE key == <<slot[s].version, slot[s].target>>
<1>2. PICK outcome \in ExportStates :
        slot' = [slot EXCEPT ![s].outcome = outcome, ![s].pc = "record"]
  BY DEF Post
<1>3. PICK h \in Handler : h = [slot[s] EXCEPT !.outcome = outcome, !.pc = "record"]
  BY <1>1 DEF Handler, Steps
<1>4. slot' = [slot EXCEPT ![s] = h] BY <1>1, <1>2, <1>3 DEF IInv, TypeOK
<1>5. UNCHANGED <<row, assessed, export, audit, grants, faults>> BY DEF Post, db
<1>6. /\ h.op = slot[s].op /\ h.version = slot[s].version /\ h.pc = "record"
      /\ h.outcome = outcome
  BY <1>1, <1>3 DEF Handler
<1>7. HandlerInv(h) BY <1>1, <1>6 DEF HandlerInv, GateOps
<1>8. Grows BY <1>5 DEF Grows
<1>9. SlotsInv' /\ slot' \in [Slots -> Handler \cup {Idle}]
  BY <1>4, <1>7, <1>8, HandlerKept, OneSlot DEF IInv
<1>10. key \in Keys /\ slot[s].seen.decision \in Decisions \cup {"none"}
  BY <1>1 DEF Handler, Keys, Row, NoRow
<1>11. \/ UNCHANGED <<sent, copies>>
       \/ sent' = sent \cup {<<slot[s].version, slot[s].target, slot[s].seen.decision>>}
  BY <1>1, PostMakes DEF IInv
<1>12. /\ copies' \in [Keys -> Copies]
       /\ \A k \in Keys \ {key} : copies'[k] = copies[k]
  BY <1>1, PostMakes DEF IInv
<1>13. sent' \subseteq Versions \X Targets \X (Decisions \cup {"none"})
  BY <1>1, <1>10, <1>11 DEF IInv, TypeOK, Handler
<1>14. TypeOK' BY <1>5, <1>9, <1>12, <1>13 DEF IInv, TypeOK
<1>15. CopiesInv'
  <2>1. ASSUME NEW v \in Versions, NEW t \in Targets, copies'[<<v, t>>] # NoCopy
        PROVE  Granted(v, "ready_for_delivery")'
    <3>1. CASE <<v, t>> = key
      <4>1. v = slot[s].version BY <3>1
      <4>2. Granted(slot[s].version, "ready_for_delivery") BY <1>1 DEF HandlerInv
      <4> QED BY <4>1, <4>2, <1>8, GrantsGrow
    <3>2. CASE <<v, t>> # key
      <4>1. <<v, t>> \in Keys BY DEF Keys
      <4>2. copies'[<<v, t>>] = copies[<<v, t>>] BY <3>2, <4>1, <1>12
      <4> QED BY <2>1, <4>2, <1>8, GrantsGrow DEF IInv, CopiesInv
    <3> QED BY <3>1, <3>2
  <2> QED BY <2>1 DEF CopiesInv
<1>16. RowsInv' /\ GrantsInv' BY <1>5 DEF IInv, RowsInv, GrantsInv, Earned, Backed, Granted
<1> QED BY <1>9, <1>14, <1>15, <1>16 DEF IInv

LEMMA RecordExportStep ==
  ASSUME IInv, NEW s \in Slots, RecordExport(s)
  PROVE  IInv'
<1>1. slot[s] \in Handler /\ slot[s].pc = "record" /\ HandlerInv(slot[s])
  BY HandlerAt DEF RecordExport
<1>2. PICK h \in Handler :
        /\ slot' = [slot EXCEPT ![s] = h]
        /\ h.op = slot[s].op /\ h.version = slot[s].version /\ h.actor = slot[s].actor
        /\ h.outcome = slot[s].outcome /\ h.seen = slot[s].seen /\ h.pc = "audit"
  BY SlotTo DEF RecordExport, Steps
<1>3. UNCHANGED <<row, assessed, audit, grants, sent, copies>> /\ (Sound \/ Fault)
  BY DEF RecordExport, external
<1>4. Grows BY <1>3 DEF Grows
<1>5. HandlerInv(h) BY <1>1, <1>2 DEF HandlerInv
<1>6. SlotsInv' /\ slot' \in [Slots -> Handler \cup {Idle}]
  BY <1>2, <1>4, <1>5, HandlerKept, OneSlot DEF IInv
<1>7. export' \in [Keys -> ExportStates]
  <2>1. slot[s].outcome \in ExportStates /\ <<slot[s].version, slot[s].target>> \in Keys
    BY <1>1 DEF HandlerInv, Handler, Keys
  <2> QED BY <2>1 DEF RecordExport, IInv, TypeOK
<1>8. TypeOK' BY <1>3, <1>6, <1>7, FaultType DEF IInv, TypeOK
<1> QED BY <1>3, <1>6, <1>8, OnlySlots

LEMMA CrashStep ==
  ASSUME IInv, Crash
  PROVE  IInv'
<1>1. SlotsInv' /\ slot' \in [Slots -> Handler \cup {Idle}] BY DEF Crash, SlotsInv
<1>2. TypeOK' BY <1>1, FaultType DEF Crash, IInv, TypeOK, db, external
<1> QED BY <1>1, <1>2, OnlySlots DEF Crash, db, external

-----------------------------------------------------------------------------
LEMMA InitInv == Init => IInv
<1> SUFFICES ASSUME Init PROVE IInv OBVIOUS
<1>1. Draft \in Row BY DEF Draft, Row, Status
<1>2. TypeOK
  <2>1. row \in [Versions -> Row \cup {NoRow}] BY <1>1 DEF Init
  <2>2. slot \in [Slots -> Handler \cup {Idle}] BY DEF Init
  <2>3. copies \in [Keys -> Copies] /\ faults \in 0..MaxFaults
    BY BoundsAssumption DEF Init, NoCopy, Copies
  <2>4. export \in [Keys -> ExportStates] BY DEF Init, ExportStates
  <2> QED BY <2>1, <2>2, <2>3, <2>4 DEF Init, TypeOK
<1>3. SlotsInv BY DEF Init, SlotsInv
<1>4. RowsInv BY DEF Init, RowsInv, Earned, Backed, Draft, NoRow
<1>5. GrantsInv BY DEF Init, GrantsInv, Granted
<1>6. CopiesInv BY DEF Init, CopiesInv, Keys
<1> QED BY <1>2, <1>3, <1>4, <1>5, <1>6 DEF IInv

LEMMA NextInv == IInv /\ [Next]_vars => IInv'
<1> SUFFICES ASSUME IInv, [Next]_vars PROVE IInv' OBVIOUS
<1>1. CASE UNCHANGED vars
  <2>1. Grows BY <1>1 DEF Grows, vars
  <2>2. SlotsInv'
    <3>1. ASSUME NEW s \in Slots, slot'[s] # Idle PROVE HandlerInv(slot[s])'
      <4>1. PICK h \in Handler : h = slot[s] BY <1>1, <3>1 DEF vars, IInv, TypeOK
      <4>2. HandlerInv(h) BY <1>1, <3>1, <4>1 DEF vars, IInv, SlotsInv
      <4>3. HandlerInv(h)' BY <2>1, <4>2, HandlerKept
      <4> QED BY <1>1, <4>1, <4>3 DEF vars
    <3> QED BY <3>1 DEF SlotsInv
  <2>3. TypeOK' BY <1>1 DEF vars, IInv, TypeOK
  <2> QED BY <1>1, <2>2, <2>3, OnlySlots DEF vars
<1>2. CASE \E s \in Slots, op \in Ops, v \in Versions, who \in Actors, t \in Targets :
             Arrive(s, op, v, who, t)
  BY <1>2, ArriveStep
<1>3. ASSUME NEW s \in Slots, Step(s)
      PROVE  IInv'
  <2>1. CASE ReadVersion(s)    BY <2>1, ReadVersionStep
  <2>2. CASE Authorize(s)      BY <2>2, AuthorizeStep
  <2>3. CASE ReRead(s)         BY <2>3, ReReadStep
  <2>4. CASE WriteGate(s)      BY <2>4, WriteGateStep
  <2>5. CASE AppendAudit(s)    BY <2>5, AppendAuditStep
  <2>6. CASE RunQuality(s)     BY <2>6, RunQualityStep
  <2>7. CASE SaveAssessment(s) BY <2>7, SaveAssessmentStep
  <2>8. CASE InsertRevision(s) BY <2>8, InsertRevisionStep
  <2>9. CASE LookUpExport(s)   BY <2>9, LookUpExportStep
  <2>10. CASE Post(s)          BY <2>10, PostStep
  <2>11. CASE RecordExport(s)  BY <2>11, RecordExportStep
  <2> QED BY <1>3, <2>1, <2>2, <2>3, <2>4, <2>5, <2>6, <2>7, <2>8, <2>9, <2>10, <2>11 DEF Step
<1>4. CASE Crash BY <1>4, CrashStep
<1> QED BY <1>1, <1>2, <1>3, <1>4 DEF Next

\* The inductive invariant holds in every state.
LEMMA Invariance == Spec => []IInv
BY InitInv, NextInv, PTL DEF Spec

\* The variables keep their types, in particular a handler that writes a copy of
\* a row it read long ago still writes a row.
THEOREM TypeCorrect == Spec => []TypeOK
<1>1. IInv => TypeOK BY DEF IInv
<1> QED BY <1>1, Invariance, PTL

\* Every decision in the gate columns is a stored assessment's, every approved
\* version has a stored pass and every waived one a stored assessment that was
\* not: prd_lifecycle.py:258-404, however its handlers interleave and fail.
THEOREM EvidenceHolds == Spec => []GateEvidence
<1>1. IInv => GateEvidence BY DEF IInv, RowsInv, GrantsInv, Backed, GateEvidence
<1> QED BY <1>1, Invariance, PTL

\* Only owners write gate statuses, and nothing is exported that an owner has
\* not marked ready after an owner approved or waived it: delivery.py:234-290.
THEOREM HumanGate == Spec => []HumanBeforeDelivery
<1>1. IInv => HumanBeforeDelivery BY DEF IInv, GrantsInv, CopiesInv, HumanBeforeDelivery
<1> QED BY <1>1, Invariance, PTL

\* A step that changes a version's row inserts a new draft after an existing
\* version, or leaves an existing version past draft.
Advances(v) ==
  row'[v] # row[v] =>
    \/ row[v] = NoRow /\ row'[v] = Draft /\ row[v - 1] # NoRow
    \/ row[v] # NoRow /\ row'[v].status \notin {"none", "draft"}

LEMMA WritesAdvance ==
  ASSUME IInv, NEW s \in Slots, WriteGate(s), NEW v \in Versions
  PROVE  Advances(v)
<1>1. slot[s] \in Handler /\ slot[s].pc = "write" /\ HandlerInv(slot[s])
  BY HandlerAt DEF WriteGate
<1>2. CASE row' = row BY <1>2 DEF Advances
<1>3. CASE row' = [row EXCEPT ![slot[s].version] = Written(slot[s])]
  <2>1. CASE v # slot[s].version BY <1>3, <2>1 DEF Advances, IInv, TypeOK
  <2>2. CASE v = slot[s].version
    <3>1. row[v] # NoRow /\ row'[v] = Written(slot[s])
      BY <1>1, <1>3, <2>2 DEF HandlerInv, IInv, TypeOK
    <3>2. slot[s].op \in GateOps \cup {"assess"} /\ slot[s].seen \in Row \cup {NoRow}
      BY <1>1 DEF HandlerInv, Handler
    <3>3. Written(slot[s]).status \notin {"none", "draft"}
      BY <3>2 DEF Written, Goal, GateOps, Row, NoRow
    <3> QED BY <3>1, <3>3 DEF Advances
  <2> QED BY <2>1, <2>2
<1> QED BY <1>2, <1>3 DEF WriteGate

LEMMA InsertAdvances ==
  ASSUME IInv, NEW s \in Slots, InsertRevision(s), NEW v \in Versions
  PROVE  Advances(v)
<1>1. slot[s] \in Handler /\ slot[s].pc = "insert" /\ HandlerInv(slot[s])
  BY HandlerAt DEF InsertRevision
<1> DEFINE next == slot[s].version + 1
<1>2. CASE row' = row BY <1>2 DEF Advances
<1>3. CASE row[next] = NoRow /\ row' = [row EXCEPT ![next] = Draft]
  <2>1. CASE v # next BY <1>3, <2>1 DEF Advances, IInv, TypeOK
  <2>2. CASE v = next
    <3>1. v - 1 = slot[s].version
      BY <1>1, <2>2, BoundsAssumption DEF Handler, Versions
    <3>2. row[v - 1] # NoRow BY <1>1, <3>1 DEF HandlerInv
    <3> QED BY <1>3, <2>2, <3>2 DEF Advances, IInv, TypeOK
  <2> QED BY <2>1, <2>2
<1> QED BY <1>2, <1>3 DEF InsertRevision

\* Concurrent revisions never replace a version, and no handler, however stale,
\* makes an assessed version a draft again: prd_lifecycle.py:193-256, 455-500.
THEOREM VersionsAdvance == Spec => VersionsOnlyAdvance
<1>1. ASSUME IInv, [Next]_vars, NEW v \in Versions
      PROVE  Advances(v)
  <2>1. CASE row' = row BY <2>1 DEF Advances
  <2>2. CASE row' # row
    <3>1. \E s \in Slots : WriteGate(s) \/ InsertRevision(s)
      BY <1>1, <2>2 DEF Next, Step, vars, db, Arrive, ReadVersion, Authorize, ReRead,
         AppendAudit, RunQuality, SaveAssessment, LookUpExport, Post, RecordExport, Crash
    <3> QED BY <1>1, <3>1, WritesAdvance, InsertAdvances
  <2> QED BY <2>1, <2>2
<1>2. IInv /\ [Next]_vars => [\A v \in Versions : Advances(v)]_vars
  BY <1>1
<1> QED BY <1>2, Invariance, PTL DEF Spec, VersionsOnlyAdvance, Advances

-----------------------------------------------------------------------------
(* The audit log. *)

\* A step of one handler leaves the other handlers alone.
LEMMA OthersStay ==
  ASSUME IInv, NEW s \in Slots,
         \/ Step(s)
         \/ \E op \in Ops, v \in Versions, who \in Actors, t \in Targets : Arrive(s, op, v, who, t)
  PROVE  \A z \in Slots \ {s} : slot'[z] = slot[z]
<1>1. slot \in [Slots -> Handler \cup {Idle}] BY DEF IInv, TypeOK
<1>2. CASE ReadVersion(s) BY <1>1, <1>2 DEF ReadVersion, Reply
<1>3. CASE Authorize(s) BY <1>1, <1>3 DEF Authorize, Reply, Goto
<1>4. CASE ReRead(s) BY <1>1, <1>4 DEF ReRead, Reply
<1>5. CASE WriteGate(s) BY <1>1, <1>5 DEF WriteGate, Goto
<1>6. CASE AppendAudit(s) BY <1>1, <1>6 DEF AppendAudit, Reply
<1>7. CASE RunQuality(s) BY <1>1, <1>7 DEF RunQuality, Reply
<1>8. CASE SaveAssessment(s) BY <1>1, <1>8 DEF SaveAssessment, Reply, Goto
<1>9. CASE InsertRevision(s) BY <1>1, <1>9 DEF InsertRevision, Reply
<1>10. CASE LookUpExport(s) BY <1>1, <1>10 DEF LookUpExport, Reply, Goto
<1>11. CASE Post(s) BY <1>1, <1>11 DEF Post
<1>12. CASE RecordExport(s) BY <1>1, <1>12 DEF RecordExport, Goto
<1>13. CASE \E op \in Ops, v \in Versions, who \in Actors, t \in Targets : Arrive(s, op, v, who, t)
  BY <1>1, <1>13 DEF Arrive
<1> QED BY <1>2, <1>3, <1>4, <1>5, <1>6, <1>7, <1>8, <1>9, <1>10, <1>11, <1>12, <1>13 DEF Step

\* A crash or a failed call is counted, and for good.
LEMMA NoFaultYet ==
  ASSUME TypeOK, Sound \/ Fault, faults' = 0
  PROVE  Sound /\ faults = 0
BY BoundsAssumption DEF TypeOK, Sound, Fault

\* Who is about to append an entry.
Appends(h, v, op) == h # Idle /\ h.pc = "audit" /\ h.op = op /\ h.version = v

\* One handler steps; what it was about to append it appends, and what is new among the
\* grants it is about to append.
LEMMA TrailKept ==
  ASSUME AuditTrail, faults = 0, NEW s \in Slots,
         \A z \in Slots \ {s} : slot'[z] = slot[z],
         audit \subseteq audit',
         \A v \in Versions, op \in GateOps : Appends(slot[s], v, op) => <<v, op>> \in audit',
         \A v \in Versions, op \in GateOps :
           Granted(v, Goal(op))' => Granted(v, Goal(op)) \/ Appends(slot'[s], v, op)
  PROVE  AuditTrail'
<1> SUFFICES ASSUME NEW v \in Versions, NEW op \in GateOps, Granted(v, Goal(op))'
             PROVE  \/ <<v, op>> \in audit'
                    \/ \E z \in Slots : Appends(slot'[z], v, op)
  BY DEF AuditTrail, At, Appends
<1>1. CASE Appends(slot'[s], v, op) BY <1>1
<1>2. CASE Granted(v, Goal(op))
  <2>1. <<v, op>> \in audit \/ \E z \in Slots : Appends(slot[z], v, op)
    BY <1>2 DEF AuditTrail, At, Appends
  <2>2. CASE <<v, op>> \in audit BY <2>2
  <2>3. ASSUME NEW z \in Slots, Appends(slot[z], v, op)
        PROVE  <<v, op>> \in audit' \/ \E y \in Slots : Appends(slot'[y], v, op)
    <3>1. CASE z = s BY <2>3, <3>1
    <3>2. CASE z # s
      <4>1. slot'[z] = slot[z] BY <3>2
      <4> QED BY <2>3, <4>1
    <3> QED BY <3>1, <3>2
  <2> QED BY <2>1, <2>2, <2>3
<1> QED BY <1>1, <1>2

LEMMA TrailStep ==
  ASSUME IInv, AuditTrail, NEW s \in Slots, Step(s)
  PROVE  AuditTrail'
<1> SUFFICES ASSUME faults' = 0 PROVE AuditTrail' BY DEF AuditTrail
<1>1. \A z \in Slots \ {s} : slot'[z] = slot[z] BY OthersStay
<1>2. TypeOK BY DEF IInv
<1>3. CASE AppendAudit(s)
  <2>1. Sound /\ faults = 0 BY <1>2, <1>3, NoFaultYet DEF AppendAudit
  <2>2. grants' = grants BY <1>3 DEF AppendAudit
  <2>3. /\ audit \subseteq audit'
        /\ \A v \in Versions, op \in GateOps : Appends(slot[s], v, op) => <<v, op>> \in audit'
    BY <1>2, <1>3, <2>1, BoundsAssumption DEF AppendAudit, Sound, Fault, Appends, TypeOK
  <2> QED BY <1>1, <2>1, <2>2, <2>3, TrailKept DEF Granted
<1>4. CASE WriteGate(s)
  <2>1. Sound /\ faults = 0 BY <1>2, <1>4, NoFaultYet DEF WriteGate
  <2>2. slot[s] \in Handler /\ slot[s].pc = "write" /\ HandlerInv(slot[s])
    BY <1>4, HandlerAt DEF WriteGate
  <2>3. PICK h \in Handler :
          /\ slot' = [slot EXCEPT ![s] = h]
          /\ h.op = slot[s].op /\ h.version = slot[s].version /\ h.actor = slot[s].actor
          /\ h.outcome = slot[s].outcome /\ h.seen = slot[s].seen /\ h.pc = "audit"
    BY <1>4, SlotTo DEF WriteGate, Steps
  <2>4. slot'[s] = h /\ h # Idle
    BY <1>2, <2>3, IdleIsNoHandler DEF TypeOK
  <2>5. grants' = IF slot[s].op \in GateOps
                  THEN grants \cup {<<slot[s].version, Goal(slot[s].op), slot[s].actor>>}
                  ELSE grants
    BY <1>2, <1>4, <2>1, BoundsAssumption DEF WriteGate, Sound, Fault, TypeOK
  <2>6. ASSUME NEW v \in Versions, NEW op \in GateOps, Granted(v, Goal(op))'
        PROVE  Granted(v, Goal(op)) \/ Appends(slot'[s], v, op)
    <3>1. \/ Granted(v, Goal(op))
          \/ slot[s].op \in GateOps /\ v = slot[s].version /\ Goal(op) = Goal(slot[s].op)
      BY <2>5, <2>6 DEF Granted
    <3>2. \A o \in GateOps : Goal(op) = Goal(o) => op = o BY DEF Goal, GateOps
    <3> QED BY <2>3, <2>4, <3>1, <3>2 DEF Appends
  <2>7. ~ \E v \in Versions, op \in GateOps : Appends(slot[s], v, op) BY <2>2 DEF Appends
  <2>8. audit' = audit BY <1>4 DEF WriteGate
  <2> QED BY <1>1, <2>1, <2>6, <2>7, <2>8, TrailKept
<1>5. CASE ~ AppendAudit(s) /\ ~ WriteGate(s)
  <2>1. UNCHANGED <<audit, grants>> /\ (Sound \/ Fault) /\ \E step : At(s, step) /\ step # "audit"
    BY <1>5 DEF Step, ReadVersion, Authorize, ReRead, RunQuality, SaveAssessment, InsertRevision,
                LookUpExport, Post, RecordExport, db, external, Sound
  <2>2. Sound /\ faults = 0 BY <1>2, <2>1, NoFaultYet
  <2>3. ~ \E v \in Versions, op \in GateOps : Appends(slot[s], v, op) BY <2>1 DEF At, Appends
  <2>4. \A v \in Versions, op \in GateOps : Granted(v, Goal(op))' => Granted(v, Goal(op))
    BY <2>1 DEF Granted
  <2> QED BY <1>1, <2>1, <2>2, <2>3, <2>4, TrailKept
<1> QED BY <1>3, <1>4, <1>5

LEMMA TrailNext == IInv /\ AuditTrail /\ [Next]_vars => AuditTrail'
<1> SUFFICES ASSUME IInv, AuditTrail, [Next]_vars PROVE AuditTrail' OBVIOUS
<1>1. CASE UNCHANGED vars BY <1>1 DEF vars, AuditTrail, Granted, At
<1>2. ASSUME NEW s \in Slots, NEW op \in Ops, NEW v \in Versions, NEW who \in Actors,
             NEW t \in Targets, Arrive(s, op, v, who, t)
      PROVE  AuditTrail'
  <2> SUFFICES ASSUME faults' = 0 PROVE AuditTrail' BY DEF AuditTrail
  <2>1. \A z \in Slots \ {s} : slot'[z] = slot[z] BY <1>2, OthersStay
  <2>2. UNCHANGED <<audit, grants, faults>> /\ slot[s] = Idle BY <1>2 DEF Arrive, db
  <2>3. ~ \E x \in Versions, o \in GateOps : Appends(slot[s], x, o) BY <2>2 DEF Appends
  <2>4. \A x \in Versions, o \in GateOps : Granted(x, Goal(o))' => Granted(x, Goal(o))
    BY <2>2 DEF Granted
  <2>5. faults = 0 /\ audit \subseteq audit' BY <2>2
  <2> QED BY <2>1, <2>3, <2>4, <2>5, TrailKept
<1>3. ASSUME NEW s \in Slots, Step(s) PROVE AuditTrail' BY <1>3, TrailStep
<1>4. CASE Crash
  <2>1. faults' # 0 BY <1>4, BoundsAssumption DEF Crash, Fault, IInv, TypeOK
  <2> QED BY <2>1 DEF AuditTrail
<1> QED BY <1>1, <1>2, <1>3, <1>4 DEF Next

\* As long as no call fails, every gate status an owner wrote has its entry in the audit
\* log or a handler that is about to append it: prd_lifecycle.py:455-515.
THEOREM AuditHolds == Spec => []AuditTrail
<1>1. Init => AuditTrail BY DEF Init, AuditTrail, Granted
<1> QED BY <1>1, TrailNext, Invariance, PTL DEF Spec

-----------------------------------------------------------------------------
(* One handler at a time: the gate as its users see it. *)

OneAtATime == \A s, z \in Slots : s = z

\* With no other handler the version a handler has read is the version there is, and what
\* was required of it still holds.
Fresh(h, rows) ==
  /\ h.pc \in {"authorize", "reread", "write"} /\ h.op \in GateOps => h.seen = rows[h.version]
  /\ h.pc \in {"reread", "write"} /\ h.op \in GateOps => MayGate(h.op, rows[h.version])
  /\ h.pc \in {"review", "save", "write"} /\ h.op = "assess" => MayAssess(rows[h.version])
  /\ h.pc \in {"lookup", "post"} => MayExport(rows[h.version]) /\ h.seen = rows[h.version]

FreshInv == \A s \in Slots : slot[s] # Idle => Fresh(slot[s], row)

\* A version that got past its gate passed or was waived.
PassedInv ==
  \A v \in Versions :
    row[v].status \in {"approved", "ready_for_delivery"} =>
      row[v].decision = "pass" \/ Granted(v, "waived")

SerialInv == IInv /\ FreshInv /\ PassedInv /\ PassOrWaived

\* The one slot there is.
LEMMA OnlySlot ==
  ASSUME OneAtATime, NEW s \in Slots, slot'[s] # Idle => Fresh(slot'[s], row')
  PROVE  FreshInv'
BY DEF OneAtATime, FreshInv

\* A step that changes neither versions nor records.
LEMMA QuietSerial ==
  ASSUME OneAtATime, SerialInv, IInv', NEW s \in Slots,
         slot'[s] # Idle => Fresh(slot'[s], row'), UNCHANGED <<row, grants, sent>>
  PROVE  SerialInv'
<1>1. FreshInv' BY OnlySlot
<1>2. PassedInv' /\ PassOrWaived' BY DEF SerialInv, PassedInv, PassOrWaived, Granted
<1> QED BY <1>1, <1>2 DEF SerialInv

LEMMA SlotNext ==
  ASSUME IInv, NEW s \in Slots, NEW step, At(s, step)
  PROVE  /\ slot \in [Slots -> Handler \cup {Idle}] /\ slot[s] \in Handler /\ slot[s] # Idle
         /\ slot[s].pc = step /\ HandlerInv(slot[s])
         /\ slot[s].version \in Versions /\ row[slot[s].version] \in Row
         /\ row \in [Versions -> Row \cup {NoRow}]
<1>1. slot[s] \in Handler /\ slot[s].pc = step /\ HandlerInv(slot[s]) BY HandlerAt
<1>2. slot[s].version \in Versions BY <1>1 DEF Handler
<1>3. row[slot[s].version] # NoRow BY <1>1 DEF HandlerInv
<1> QED BY <1>1, <1>2, <1>3 DEF IInv, TypeOK, At

LEMMA ReadSerial ==
  ASSUME OneAtATime, SerialInv, IInv', NEW s \in Slots, ReadVersion(s)
  PROVE  SerialInv' /\ UNCHANGED <<row, grants, sent, copies>>
<1> DEFINE seen == row[slot[s].version]
           next == AfterRead(slot[s].op, slot[s].actor, seen)
           kept == IF slot[s].op \in GateOps \cup {"export"} THEN seen ELSE NoRow
           h == [slot[s] EXCEPT !.pc = next, !.seen = kept]
<1>1. UNCHANGED <<row, grants, sent, copies>> BY DEF ReadVersion, db, external
<1>2. slot \in [Slots -> Handler \cup {Idle}] /\ slot[s] \in Handler
  BY SlotNext DEF ReadVersion, SerialInv
<1>3. CASE slot' = [slot EXCEPT ![s].pc = next, ![s].seen = kept]
  <2>1. slot'[s] = h BY <1>2, <1>3
  <2>2. h.op = slot[s].op /\ h.version = slot[s].version /\ h.pc = next /\ h.seen = kept
    BY <1>2 DEF Handler
  <2>3. Fresh(h, row)
    <3>1. next \notin {"reread", "write", "save", "post"} BY DEF AfterRead
    <3>2. next = "review" => MayAssess(seen) BY DEF AfterRead
    <3>3. next = "lookup" => MayExport(seen) /\ slot[s].op = "export" BY DEF AfterRead
    <3> QED BY <2>2, <3>1, <3>2, <3>3 DEF Fresh
  <2> QED BY <1>1, <2>1, <2>3, QuietSerial
<1>4. CASE Reply(s)
  <2>1. slot'[s] = Idle BY <1>2, <1>4 DEF Reply
  <2> QED BY <1>1, <2>1, QuietSerial
<1> QED BY <1>3, <1>4 DEF ReadVersion

\* A handler that goes on, with what it has read, to a later step.
LEMMA GotoSerial ==
  ASSUME OneAtATime, SerialInv, IInv', NEW s \in Slots, NEW step, NEW next \in Steps, At(s, step),
         Goto(s, next), UNCHANGED <<row, grants, sent, copies>>,
         Fresh([slot[s] EXCEPT !.pc = next], row)
  PROVE  SerialInv'
<1>1. slot'[s] = [slot[s] EXCEPT !.pc = next] BY SlotNext DEF Goto, SerialInv
<1> QED BY <1>1, QuietSerial

LEMMA ReplySerial ==
  ASSUME OneAtATime, SerialInv, IInv', NEW s \in Slots, NEW step, At(s, step),
         Reply(s), UNCHANGED <<row, grants, sent, copies>>
  PROVE  SerialInv'
<1>1. slot'[s] = Idle BY SlotNext DEF Reply, SerialInv
<1> QED BY <1>1, QuietSerial

LEMMA AuthorizeSerial ==
  ASSUME OneAtATime, SerialInv, IInv', NEW s \in Slots, Authorize(s)
  PROVE  SerialInv' /\ UNCHANGED <<row, grants, sent, copies>>
<1>1. UNCHANGED <<row, grants, sent, copies>> /\ At(s, "authorize") BY DEF Authorize, db, external
<1>2. slot[s] \in Handler /\ slot[s] # Idle /\ slot[s].pc = "authorize" BY <1>1, SlotNext DEF SerialInv
<1>3. CASE slot[s].op = "revise" /\ Goto(s, "insert")
  <2>1. Fresh([slot[s] EXCEPT !.pc = "insert"], row) BY <1>2, <1>3 DEF Fresh, Handler
  <2> QED BY <1>1, <1>3, <2>1, GotoSerial DEF Steps
<1>4. CASE slot[s].op \in GateOps /\ MayGate(slot[s].op, slot[s].seen) /\ Goto(s, "reread")
  <2>1. slot[s].seen = row[slot[s].version] BY <1>2, <1>4 DEF SerialInv, FreshInv, Fresh
  <2>2. Fresh([slot[s] EXCEPT !.pc = "reread"], row) BY <1>2, <1>4, <2>1 DEF Fresh, Handler, GateOps
  <2> QED BY <1>1, <1>4, <2>2, GotoSerial DEF Steps
<1>5. CASE Reply(s) BY <1>1, <1>5, ReplySerial
<1> QED BY <1>3, <1>4, <1>5, <1>1 DEF Authorize

LEMMA ReReadSerial ==
  ASSUME OneAtATime, SerialInv, IInv', NEW s \in Slots, ReRead(s)
  PROVE  SerialInv' /\ UNCHANGED <<row, grants, sent, copies>>
<1>1. UNCHANGED <<row, grants, sent, copies>> /\ At(s, "reread") BY DEF ReRead, db, external
<1>2. /\ slot \in [Slots -> Handler \cup {Idle}] /\ slot[s] \in Handler /\ slot[s] # Idle
      /\ slot[s].pc = "reread" /\ HandlerInv(slot[s])
  BY <1>1, SlotNext DEF SerialInv
<1> DEFINE h == [slot[s] EXCEPT !.seen = row[slot[s].version], !.pc = "write"]
<1>3. CASE slot' = [slot EXCEPT ![s].seen = row[slot[s].version], ![s].pc = "write"]
  <2>1. slot'[s] = h BY <1>2, <1>3
  <2>2. /\ h.op = slot[s].op /\ h.version = slot[s].version /\ h.pc = "write"
        /\ h.seen = row[slot[s].version]
    BY <1>2 DEF Handler
  <2>3. slot[s].op \in GateOps BY <1>2 DEF HandlerInv
  <2>4. MayGate(slot[s].op, row[slot[s].version])
    BY <1>2, <2>3 DEF SerialInv, FreshInv, Fresh
  <2> HIDE DEF h
  <2>5. Fresh(h, row) BY <2>2, <2>3, <2>4 DEF Fresh, GateOps
  <2> QED BY <1>1, <2>1, <2>5, QuietSerial
<1>4. CASE Reply(s) BY <1>1, <1>4, ReplySerial
<1> QED BY <1>3, <1>4, <1>1 DEF ReRead

\* What has been delivered, to the users of the gate.
Delivered == {k \in Keys : copies[k] # NoCopy}

\* update_prd_version_gate is the operation as a whole: nothing came between.
LEMMA WriteSerial ==
  ASSUME OneAtATime, SerialInv, IInv', NEW s \in Slots, WriteGate(s)
  PROVE  SerialInv' /\ (row' = row \/ Gate!Next) /\ copies' = copies
<1>1. At(s, "write") /\ UNCHANGED <<sent, copies>> /\ Goto(s, "audit")
  BY DEF WriteGate, external
<1>2. /\ slot[s] \in Handler /\ slot[s] # Idle /\ slot[s].pc = "write" /\ HandlerInv(slot[s])
      /\ slot[s].version \in Versions /\ row[slot[s].version] \in Row
      /\ row \in [Versions -> Row \cup {NoRow}]
  BY <1>1, SlotNext DEF SerialInv
<1>0. PICK v \in Versions : v = slot[s].version BY <1>2
<1> DEFINE op == slot[s].op
<1>3. Fresh(slot[s], row) BY <1>2 DEF SerialInv, FreshInv
<1>4. slot'[s] = [slot[s] EXCEPT !.pc = "audit"]
  BY <1>1, SlotNext DEF Goto, SerialInv
<1>5. FreshInv'
  <2>1. \A rows : Fresh(slot'[s], rows) BY <1>2, <1>4 DEF Fresh, Handler
  <2> QED BY <2>1, OnlySlot
<1>6. CASE UNCHANGED <<row, grants>>
  BY <1>1, <1>5, <1>6 DEF SerialInv, PassedInv, PassOrWaived, Granted
<1>7. CASE /\ row' = [row EXCEPT ![v] = Written(slot[s])]
           /\ grants' = IF op \in GateOps THEN grants \cup {<<v, Goal(op), slot[s].actor>>} ELSE grants
  <2>1. \A x, status : Granted(x, status) => Granted(x, status)' BY <1>7 DEF Granted
  <2>2. PassOrWaived' BY <1>1, <2>1 DEF SerialInv, PassOrWaived
  <2>3. /\ row'[v] = Written(slot[s])
        /\ \A x \in Versions \ {v} : row'[x] = row[x]
    BY <1>2, <1>7, <1>0
  <2>4. \A x \in Versions \ {v} : row'[x].status \in {"approved", "ready_for_delivery"} =>
          row'[x].decision = "pass" \/ Granted(x, "waived")'
    BY <2>1, <2>3 DEF SerialInv, PassedInv
  <2>5. (row[v].status \in {"approved", "ready_for_delivery"} =>
          row[v].decision = "pass" \/ Granted(v, "waived")) /\ Earned(v, row[v].status)
    BY <1>2, <1>0 DEF SerialInv, PassedInv, IInv, RowsInv
  <2>6. CASE op = "assess"
    <3>1. /\ MayAssess(row[v]) /\ slot[s].outcome \in Decisions
          /\ Written(slot[s]) = [status |-> "quality_checked", decision |-> slot[s].outcome]
      BY <1>2, <1>3, <1>0, <2>6 DEF Fresh, HandlerInv, Written
    <3>2. PassedInv' BY <2>3, <2>4, <3>1 DEF PassedInv
    <3>3. Gate!Assess(v)
      BY <1>1, <1>7, <3>1 DEF Gate!Assess, Gate!Decisions, Decisions, MayAssess, Delivered
    <3>4. Gate!Next BY <1>2, <3>3 DEF Gate!Next, Gate!Versions, Versions
    <3> QED BY <1>1, <1>5, <2>2, <3>2, <3>4 DEF SerialInv
  <2>7. CASE op \in GateOps
    <3>1. MayGate(op, row[v]) /\ slot[s].seen = row[v] BY <1>2, <1>3, <1>0, <2>7 DEF Fresh
    <3>2. Written(slot[s]) = [row[v] EXCEPT !.status = Goal(op)]
      BY <2>7, <3>1 DEF Written, GateOps
    <3>3. row' = [row EXCEPT ![v].status = Goal(op)] BY <1>2, <1>7, <1>0, <3>2
    <3>4. row'[v].status = Goal(op) /\ row'[v].decision = row[v].decision
      BY <1>2, <1>0, <2>3, <3>2 DEF Row
    <3>5. op = "waive" => Granted(v, "waived")'
      <4> SUFFICES ASSUME op = "waive" PROVE Granted(v, "waived")' OBVIOUS
      <4>1. slot[s].actor \in Owners BY <1>2, <2>7 DEF HandlerInv
      <4>2. <<v, "waived", slot[s].actor>> \in grants' BY <1>7, <2>7 DEF Goal
      <4> QED BY <4>1, <4>2 DEF Granted
    <3>6. PassedInv'
      <4>1. row'[v].status \in {"approved", "ready_for_delivery"} =>
              row'[v].decision = "pass" \/ Granted(v, "waived")'
        <5>1. CASE op = "approve"
          <6>1. row[v].decision = "pass" BY <3>1, <5>1 DEF MayGate
          <6> QED BY <3>4, <6>1
        <5>2. CASE op = "waive" BY <3>5, <5>2
        <5>3. CASE op = "ready"
          BY <2>1, <2>5, <3>1, <3>4, <5>3 DEF MayGate, Earned
        <5> QED BY <2>7, <5>1, <5>2, <5>3 DEF GateOps
      <4>2. \A x \in Versions : row'[x].status \in {"approved", "ready_for_delivery"} =>
              row'[x].decision = "pass" \/ Granted(x, "waived")'
        BY <2>4, <4>1
      <4> QED BY <4>2 DEF PassedInv
    <3>7. Gate!Approve(v) \/ Gate!Waive(v) \/ Gate!MarkReady(v)
      BY <1>1, <2>7, <3>1, <3>3
      DEF Gate!Approve, Gate!Waive, Gate!MarkReady, Gate!Become, MayGate, GateOps, Goal
    <3>8. Gate!Next BY <1>2, <3>7 DEF Gate!Next, Gate!Versions, Versions
    <3> QED BY <1>1, <1>5, <2>2, <3>6, <3>8 DEF SerialInv
  <2> QED BY <1>2, <2>6, <2>7 DEF HandlerInv
<1> QED BY <1>6, <1>7, <1>0 DEF WriteGate

\* insert_prd_version is the revision.
LEMMA InsertSerial ==
  ASSUME OneAtATime, SerialInv, IInv', NEW s \in Slots, InsertRevision(s)
  PROVE  SerialInv' /\ (row' = row \/ Gate!Next) /\ copies' = copies
<1>1. At(s, "insert") /\ UNCHANGED <<grants, sent, copies>> BY DEF InsertRevision, external
<1>2. /\ slot \in [Slots -> Handler \cup {Idle}] /\ slot[s] \in Handler /\ slot[s] # Idle
      /\ slot[s].pc = "insert" /\ HandlerInv(slot[s])
      /\ slot[s].version \in Versions /\ row[slot[s].version] \in Row
      /\ row \in [Versions -> Row \cup {NoRow}]
  BY <1>1, SlotNext DEF SerialInv
<1> DEFINE next == slot[s].version + 1
           h == [slot[s] EXCEPT !.version = next, !.pc = "audit"]
<1>3. CASE UNCHANGED row /\ Reply(s) BY <1>1, <1>3, ReplySerial
<1>4. CASE /\ row[next] = NoRow /\ row' = [row EXCEPT ![next] = Draft]
           /\ slot' = [slot EXCEPT ![s].version = next, ![s].pc = "audit"]
  <2>1. slot'[s] = h BY <1>2, <1>4
  <2>2. h.pc = "audit" BY <1>2 DEF Handler
  <2>3. \A rows : Fresh(slot'[s], rows) BY <2>1, <2>2 DEF Fresh
  <2>4. FreshInv' BY <2>3, OnlySlot
  <2>5. next \in Versions /\ next > 1 /\ next - 1 = slot[s].version
    BY <1>2, BoundsAssumption DEF HandlerInv, Versions
  <2>6. row'[next] = Draft /\ \A x \in Versions \ {next} : row'[x] = row[x]
    BY <1>2, <1>4, <2>5
  <2>7. PassedInv' BY <1>1, <2>6 DEF SerialInv, PassedInv, Granted, Draft
  <2>8. PassOrWaived' BY <1>1 DEF SerialInv, PassOrWaived, Granted
  <2>9. row[next - 1] # NoRow BY <1>2, <2>5 DEF HandlerInv
  <2>10. Gate!Revise(next)
    BY <1>1, <1>4, <2>5, <2>9 DEF Gate!Revise, Gate!NoRow, Gate!Draft, NoRow, Draft
  <2>11. Gate!Next BY <2>5, <2>10 DEF Gate!Next, Gate!Versions, Versions
  <2> QED BY <1>1, <2>4, <2>7, <2>8, <2>11 DEF SerialInv
<1> QED BY <1>3, <1>4 DEF InsertRevision

\* The record that is created is the delivery, of a version that is marked ready.
LEMMA PostSerial ==
  ASSUME OneAtATime, SerialInv, IInv', NEW s \in Slots, Post(s)
  PROVE  SerialInv' /\ row' = row /\ (Delivered' = Delivered \/ Gate!Next)
<1>1. At(s, "post") /\ UNCHANGED <<row, grants>> BY DEF Post, db
<1>2. /\ slot \in [Slots -> Handler \cup {Idle}] /\ slot[s] \in Handler /\ slot[s] # Idle
      /\ slot[s].pc = "post" /\ HandlerInv(slot[s])
      /\ slot[s].version \in Versions /\ row[slot[s].version] \in Row
  BY <1>1, SlotNext DEF SerialInv
<1>0. PICK v \in Versions, t \in Targets : v = slot[s].version /\ t = slot[s].target
  BY <1>2 DEF Handler
<1> DEFINE key == <<v, t>>
<1>3. PICK outcome : slot' = [slot EXCEPT ![s].outcome = outcome, ![s].pc = "record"]
  BY DEF Post
<1>4. slot'[s].pc = "record" BY <1>2, <1>3 DEF Handler
<1>5. FreshInv'
  <2>1. \A rows : Fresh(slot'[s], rows) BY <1>4 DEF Fresh
  <2> QED BY <2>1, OnlySlot
<1>6. row[v].status = "ready_for_delivery" /\ slot[s].seen = row[v]
  BY <1>2, <1>0 DEF SerialInv, FreshInv, Fresh, MayExport
<1>7. PassedInv' BY <1>1 DEF SerialInv, PassedInv, Granted
<1>8. CASE UNCHANGED <<sent, copies>>
  BY <1>1, <1>5, <1>7, <1>8 DEF SerialInv, PassOrWaived, Granted, Delivered
<1>9. CASE /\ copies'[key] # NoCopy
           /\ sent' = sent \cup {<<v, t, slot[s].seen.decision>>}
  <2>1. row[v].decision = "pass" \/ Granted(v, "waived")
    BY <1>2, <1>6, <1>0 DEF SerialInv, PassedInv
  <2>2. PassOrWaived' BY <1>1, <1>6, <1>9, <2>1 DEF SerialInv, PassOrWaived, Granted
  <2>3. key \in Keys /\ \A k \in Keys \ {key} : copies'[k] = copies[k]
    BY <1>2, <1>0, PostMakes DEF SerialInv, IInv
  <2>5. Delivered' = Delivered \cup {key} BY <1>9, <2>3 DEF Delivered
  <2>6. Gate!Deliver(v, t) BY <1>1, <1>6, <2>5 DEF Gate!Deliver, Delivered
  <2>7. v \in Gate!Versions BY DEF Gate!Versions, Versions
  <2>8. \E x \in Gate!Versions : \E z \in Targets : Gate!Deliver(x, z) BY <2>6, <2>7
  <2>9. Gate!Next BY <2>8 DEF Gate!Next
  <2> QED BY <1>1, <1>5, <1>7, <2>2, <2>9 DEF SerialInv
<1>10. \/ UNCHANGED <<sent, copies>>
       \/ /\ copies'[key] # NoCopy
          /\ sent' = sent \cup {<<v, t, slot[s].seen.decision>>}
  BY <1>2, <1>0, PostMakes DEF SerialInv, IInv
<1> QED BY <1>8, <1>9, <1>10

\* The other calls of a handler.
LEMMA RestSerial ==
  ASSUME OneAtATime, SerialInv, IInv', NEW s \in Slots,
         \/ AppendAudit(s) \/ RunQuality(s) \/ SaveAssessment(s) \/ LookUpExport(s)
         \/ RecordExport(s)
  PROVE  SerialInv' /\ UNCHANGED <<row, grants, sent, copies>>
<1>1. UNCHANGED <<row, grants, sent, copies>>
  BY DEF AppendAudit, RunQuality, SaveAssessment, LookUpExport, RecordExport, db, external
<1>2. PICK step : At(s, step)
  BY DEF AppendAudit, RunQuality, SaveAssessment, LookUpExport, RecordExport
<1>3. /\ slot \in [Slots -> Handler \cup {Idle}] /\ slot[s] \in Handler /\ slot[s] # Idle
      /\ slot[s].pc = step /\ HandlerInv(slot[s])
  BY <1>2, SlotNext DEF SerialInv
<1>4. Fresh(slot[s], row) BY <1>3 DEF SerialInv, FreshInv
<1>5. CASE Reply(s) BY <1>1, <1>2, <1>5, ReplySerial
<1>6. CASE Goto(s, "audit")
  <2>1. Fresh([slot[s] EXCEPT !.pc = "audit"], row) BY <1>3 DEF Fresh, Handler
  <2> QED BY <1>1, <1>2, <1>6, <2>1, GotoSerial DEF Steps
<1>7. CASE At(s, "save") /\ Goto(s, "write")
  <2>1. slot[s].op = "assess" /\ slot[s].pc = "save" BY <1>3, <1>7 DEF HandlerInv, At
  <2>2. Fresh([slot[s] EXCEPT !.pc = "write"], row)
    BY <1>3, <1>4, <2>1 DEF Fresh, Handler, GateOps
  <2> QED BY <1>1, <1>7, <2>2, GotoSerial DEF Steps
<1>8. CASE At(s, "lookup") /\ Goto(s, "post")
  <2>1. slot[s].op = "export" /\ slot[s].pc = "lookup" BY <1>3, <1>8 DEF HandlerInv, At
  <2>2. Fresh([slot[s] EXCEPT !.pc = "post"], row)
    BY <1>3, <1>4, <2>1 DEF Fresh, Handler, GateOps
  <2> QED BY <1>1, <1>8, <2>2, GotoSerial DEF Steps
<1>9. CASE At(s, "review") /\ \E d \in Decisions :
             slot' = [slot EXCEPT ![s].outcome = d, ![s].pc = "save"]
  <2>1. slot[s].op = "assess" /\ slot[s].pc = "review" BY <1>3, <1>9 DEF HandlerInv, At
  <2>2. PICK d \in Decisions : slot' = [slot EXCEPT ![s].outcome = d, ![s].pc = "save"]
    BY <1>9
  <2>3. /\ slot'[s].pc = "save" /\ slot'[s].op = "assess"
        /\ slot'[s].version = slot[s].version
    BY <1>3, <2>1, <2>2 DEF Handler
  <2>4. Fresh(slot'[s], row) BY <1>4, <2>1, <2>3 DEF Fresh
  <2> QED BY <1>1, <2>4, QuietSerial
<1> QED BY <1>1, <1>5, <1>6, <1>7, <1>8, <1>9
    DEF AppendAudit, RunQuality, SaveAssessment, LookUpExport, RecordExport

gateVars == <<row, Delivered>>

LEMMA SerialNext ==
  ASSUME OneAtATime, SerialInv, [Next]_vars
  PROVE  SerialInv' /\ (Gate!Next \/ UNCHANGED gateVars)
<1>1. IInv' BY NextInv DEF SerialInv
<1>2. CASE UNCHANGED vars
  BY <1>1, <1>2 DEF vars, SerialInv, FreshInv, PassedInv, PassOrWaived, Granted, gateVars, Delivered
<1>3. ASSUME NEW s \in Slots, NEW op \in Ops, NEW v \in Versions, NEW who \in Actors,
             NEW t \in Targets, Arrive(s, op, v, who, t)
      PROVE  SerialInv' /\ UNCHANGED gateVars
  <2>1. UNCHANGED <<row, grants, sent, copies>> BY <1>3 DEF Arrive, db, external
  <2>2. slot'[s].pc = "read" BY <1>3 DEF Arrive, SerialInv, IInv, TypeOK
  <2>3. Fresh(slot'[s], row') BY <2>2 DEF Fresh
  <2> QED BY <1>1, <2>1, <2>3, QuietSerial DEF gateVars, Delivered
<1>4. ASSUME NEW s \in Slots, Step(s) PROVE SerialInv' /\ (Gate!Next \/ UNCHANGED gateVars)
  <2>1. CASE ReadVersion(s) BY <1>1, <2>1, ReadSerial DEF gateVars, Delivered
  <2>2. CASE Authorize(s) BY <1>1, <2>2, AuthorizeSerial DEF gateVars, Delivered
  <2>3. CASE ReRead(s) BY <1>1, <2>3, ReReadSerial DEF gateVars, Delivered
  <2>4. CASE WriteGate(s) BY <1>1, <2>4, WriteSerial DEF gateVars, Delivered
  <2>5. CASE InsertRevision(s) BY <1>1, <2>5, InsertSerial DEF gateVars, Delivered
  <2>6. CASE Post(s) BY <1>1, <2>6, PostSerial DEF gateVars
  <2>7. CASE \/ AppendAudit(s) \/ RunQuality(s) \/ SaveAssessment(s) \/ LookUpExport(s)
             \/ RecordExport(s)
    BY <1>1, <2>7, RestSerial DEF gateVars, Delivered
  <2> QED BY <1>4, <2>1, <2>2, <2>3, <2>4, <2>5, <2>6, <2>7 DEF Step
<1>5. CASE Crash
  <2>1. UNCHANGED <<row, grants, sent, copies>> /\ \A s \in Slots : slot'[s] = Idle
    BY <1>5 DEF Crash, db, external
  <2> QED BY <1>1, <2>1 DEF SerialInv, FreshInv, PassedInv, PassOrWaived, Granted, gateVars, Delivered
<1> QED BY <1>2, <1>3, <1>4, <1>5 DEF Next

LEMMA SerialInit == Init => SerialInv
<1> SUFFICES ASSUME Init PROVE SerialInv OBVIOUS
<1>1. IInv BY InitInv
<1>2. FreshInv /\ PassOrWaived BY DEF Init, FreshInv, PassOrWaived
<1>3. PassedInv BY DEF Init, PassedInv, Draft, NoRow
<1> QED BY <1>1, <1>2, <1>3 DEF SerialInv

\* With one handler at a time what is posted carries a pass or is of a version that was
\* waived, whatever calls fail and wherever the process dies.
THEOREM SerialPasses ==
  ASSUME OneAtATime
  PROVE  Spec => []PassOrWaived
<1>1. SerialInv => PassOrWaived BY DEF SerialInv
<1> QED BY <1>1, SerialInit, SerialNext, PTL DEF Spec

\* One handler at a time is the gate its users see: every operation is one step of
\* PrdGateSpec, or none.
THEOREM SerialRefines ==
  ASSUME OneAtATime
  PROVE  Spec => GateSpec
<1>1. Init => Gate!Init
  <2> SUFFICES ASSUME Init PROVE Gate!Init OBVIOUS
  <2>1. Delivered = {} BY DEF Init, Delivered
  <2> QED BY <2>1 DEF Init, Gate!Init, Gate!Versions, Gate!Draft, Gate!NoRow, Versions, Draft, NoRow,
                      Delivered
<1>2. SerialInv /\ [Next]_vars => [Gate!Next]_gateVars BY SerialNext
<1>3. [][Gate!Next]_gateVars => [][Gate!Next]_<<row, {k \in Keys : copies[k] # NoCopy}>>
  BY PTL DEF gateVars, Delivered
<1> QED BY <1>1, <1>2, <1>3, SerialInit, SerialNext, PTL DEF Spec, GateSpec, Gate!Spec

\* A handler that has posted and has not recorded it, and one that is about to post.
Holds(h, step, k) == h # Idle /\ h.pc = step /\ <<h.version, h.target>> = k

\* What exists of a key is on record or is about to be, and nobody posts it again.
CopyInv ==
  /\ \A s \in Slots : At(s, "record") => slot[s].outcome # "none"
  /\ faults = 0 => \A k \in Keys :
       /\ copies[k].own <= 1 /\ copies[k].fallback <= 1
       /\ copies[k] # NoCopy => export[k] # "none" \/ \E s \in Slots : Holds(slot[s], "record", k)
       /\ \A s \in Slots : Holds(slot[s], "post", k) => copies[k] = NoCopy

\* A step that neither posts nor records, of a handler that is not about to.
LEMMA QuietCopies ==
  ASSUME OneAtATime, IInv, CopyInv, NEW s \in Slots, UNCHANGED <<copies, export>>,
         slot[s] = Idle \/ slot[s].pc # "record",
         slot'[s] = Idle \/ slot'[s].pc \notin {"record", "post"}, Sound \/ Fault
  PROVE  CopyInv'
<1>1. \A z \in Slots : z = s BY DEF OneAtATime
<1>2. \A z \in Slots : At(z, "record")' => slot'[z].outcome # "none" BY <1>1 DEF At
<1>3. ASSUME faults' = 0, NEW k \in Keys
      PROVE  /\ copies'[k].own <= 1 /\ copies'[k].fallback <= 1
             /\ copies'[k] # NoCopy => export'[k] # "none" \/ \E z \in Slots : Holds(slot'[z], "record", k)
             /\ \A z \in Slots : Holds(slot'[z], "post", k) => copies'[k] = NoCopy
  <2>1. faults = 0 BY <1>3, NoFaultYet DEF IInv
  <2> QED BY <1>1, <2>1 DEF CopyInv, Holds
<1> QED BY <1>2, <1>3 DEF CopyInv

LEMMA CopyStep ==
  ASSUME OneAtATime, IInv, CopyInv, NEW s \in Slots, Step(s)
  PROVE  CopyInv'
<1>1. \A z \in Slots : z = s BY DEF OneAtATime
<1>2. PICK step : At(s, step)
  BY DEF Step, ReadVersion, Authorize, ReRead, WriteGate, AppendAudit, RunQuality, SaveAssessment,
         InsertRevision, LookUpExport, Post, RecordExport
<1>3. /\ slot \in [Slots -> Handler \cup {Idle}] /\ slot[s] \in Handler /\ slot[s] # Idle
      /\ slot[s].pc = step
  BY <1>2, SlotNext
<1>4. PICK key \in Keys : key = <<slot[s].version, slot[s].target>> BY <1>3 DEF Keys, Handler
<1>5. copies \in [Keys -> Copies] /\ export \in [Keys -> ExportStates] BY DEF IInv, TypeOK
<1>6. CASE LookUpExport(s) /\ ~ Reply(s)
  <2>1. /\ Goto(s, "post") /\ UNCHANGED <<copies, export>> /\ slot[s].pc = "lookup"
        /\ faults' = 0 => faults = 0 /\ export[key] = "none"
    BY <1>4, <1>6, BoundsAssumption DEF LookUpExport, db, external, Sound, Fault, IInv, TypeOK, At
  <2>2. slot'[s] = [slot[s] EXCEPT !.pc = "post"] BY <1>3, <2>1 DEF Goto
  <2>3. slot'[s].pc = "post" /\ <<slot'[s].version, slot'[s].target>> = key
    BY <1>3, <1>4, <2>2 DEF Handler
  <2>4. faults' = 0 => copies[key] = NoCopy
    BY <1>1, <2>1 DEF CopyInv, Holds
  <2> QED BY <1>1, <2>1, <2>3, <2>4 DEF CopyInv, Holds, At
<1>7. CASE Post(s)
  <2>1. PICK outcome \in ExportStates \ {"none"} :
          slot' = [slot EXCEPT ![s].outcome = outcome, ![s].pc = "record"]
    BY <1>7 DEF Post
  <2>2. slot'[s] = [slot[s] EXCEPT !.outcome = outcome, !.pc = "record"] BY <1>3, <2>1
  <2>3. /\ slot'[s].pc = "record" /\ <<slot'[s].version, slot'[s].target>> = key
        /\ slot'[s].outcome # "none"
    BY <1>3, <1>4, <2>1, <2>2 DEF Handler
  <2>4. slot'[s] # Idle
    <3>1. slot'[s] \in Handler BY <1>3, <2>1, <2>2 DEF Handler, Steps
    <3> QED BY <3>1, IdleIsNoHandler
  <2>5. slot[s].pc = "post" /\ UNCHANGED <<export, faults>> BY <1>7 DEF Post, At, db
  <2>6. /\ copies' \in [Keys -> Copies]
        /\ \A k \in Keys \ {key} : copies'[k] = copies[k]
        /\ copies'[key].own <= copies[key].own + 1
        /\ copies'[key].fallback <= copies[key].fallback + 1
    BY <1>3, <1>4, <1>7, PostMakes DEF IInv
  <2>7. ASSUME faults' = 0, NEW k \in Keys
        PROVE  /\ copies'[k].own <= 1 /\ copies'[k].fallback <= 1
               /\ copies'[k] # NoCopy => export'[k] # "none" \/ \E z \in Slots : Holds(slot'[z], "record", k)
    <3>1. /\ copies[k].own <= 1 /\ copies[k].fallback <= 1
          /\ copies[k] # NoCopy => export[k] # "none" \/ Holds(slot[s], "record", k)
          /\ copies[key] = NoCopy
      BY <1>1, <1>3, <1>4, <2>5, <2>7 DEF CopyInv, Holds
    <3>2. CASE k = key
      <4>1. copies'[k].own <= 1 /\ copies'[k].fallback <= 1
        <5>1. copies'[k].own \in Nat /\ copies'[k].fallback \in Nat
          BY <2>6, BoundsAssumption DEF Copies
        <5> QED BY <2>6, <3>1, <3>2, <5>1 DEF NoCopy
      <4> QED BY <2>3, <2>4, <3>2, <4>1 DEF Holds
    <3>3. CASE k # key
      <4>1. copies'[k] = copies[k] BY <2>6, <3>3
      <4>2. ~ Holds(slot[s], "record", k) BY <2>5 DEF Holds
      <4> QED BY <2>5, <3>1, <4>1, <4>2
    <3> QED BY <3>2, <3>3
  <2>8. \A z \in Slots, k \in Keys : ~ Holds(slot'[z], "post", k) BY <1>1, <2>3 DEF Holds
  <2>9. \A z \in Slots : At(z, "record")' => slot'[z].outcome # "none" BY <1>1, <2>3
  <2> QED BY <2>7, <2>8, <2>9 DEF CopyInv
<1>8. CASE RecordExport(s)
  <2>1. slot[s].pc = "record" /\ slot[s].outcome # "none" /\ UNCHANGED copies /\ Goto(s, "audit")
    BY <1>8 DEF RecordExport, At, CopyInv, external
  <2>2. slot'[s].pc = "audit" BY <1>3, <2>1 DEF Goto, Handler
  <2>3. \A z \in Slots : ~ At(z, "record")' /\ \A k \in Keys : ~ Holds(slot'[z], "post", k)
    BY <1>1, <2>2 DEF At, Holds
  <2>4. ASSUME faults' = 0, NEW k \in Keys
        PROVE  /\ copies'[k].own <= 1 /\ copies'[k].fallback <= 1
               /\ (copies'[k] # NoCopy => export'[k] # "none")
    <3>1. faults = 0 /\ export' = [export EXCEPT ![key] = slot[s].outcome]
      BY <1>4, <1>8, <2>4, BoundsAssumption DEF RecordExport, Sound, Fault, IInv, TypeOK
    <3>2. /\ copies[k].own <= 1 /\ copies[k].fallback <= 1
          /\ copies[k] # NoCopy => export[k] # "none" \/ Holds(slot[s], "record", k)
      BY <1>1, <3>1 DEF CopyInv
    <3>3. export'[key] # "none" /\ (k # key => export'[k] = export[k]) BY <1>5, <2>1, <3>1
    <3> QED BY <1>4, <2>1, <3>2, <3>3 DEF Holds
  <2> QED BY <2>3, <2>4 DEF CopyInv
<1>9. CASE ~ Post(s) /\ ~ RecordExport(s) /\ (LookUpExport(s) => Reply(s))
  <2>1. UNCHANGED <<copies, export>> /\ (Sound \/ Fault) /\ slot[s].pc # "record"
    BY <1>9 DEF Step, ReadVersion, Authorize, ReRead, WriteGate, AppendAudit, RunQuality,
                SaveAssessment, InsertRevision, LookUpExport, At, db, external, Sound
  <2>2. slot'[s] = Idle \/ slot'[s].pc \notin {"record", "post"}
    <3>1. CASE Reply(s) BY <1>3, <3>1 DEF Reply
    <3>2. CASE ReadVersion(s) BY <1>3, <3>2 DEF ReadVersion, Reply, AfterRead, Handler
    <3>3. CASE ~ Reply(s) /\ ~ ReadVersion(s)
      <4>1. CASE Authorize(s) BY <1>3, <3>3, <4>1 DEF Authorize, Goto, Handler
      <4>2. CASE ReRead(s) BY <1>3, <3>3, <4>2 DEF ReRead, Handler
      <4>3. CASE WriteGate(s) BY <1>3, <4>3 DEF WriteGate, Goto, Handler
      <4>4. CASE AppendAudit(s) BY <3>3, <4>4 DEF AppendAudit
      <4>5. CASE RunQuality(s) BY <1>3, <3>3, <4>5 DEF RunQuality, Handler
      <4>6. CASE SaveAssessment(s) BY <1>3, <3>3, <4>6 DEF SaveAssessment, Goto, Handler
      <4>7. CASE InsertRevision(s) BY <1>3, <3>3, <4>7 DEF InsertRevision, Handler
      <4> QED BY <1>9, <3>3, <4>1, <4>2, <4>3, <4>4, <4>5, <4>6, <4>7 DEF Step
    <3> QED BY <3>1, <3>2, <3>3
  <2> QED BY <2>1, <2>2, QuietCopies
<1> QED BY <1>6, <1>7, <1>8, <1>9

LEMMA CopyNext == OneAtATime /\ IInv /\ CopyInv /\ [Next]_vars => CopyInv'
<1> SUFFICES ASSUME OneAtATime, IInv, CopyInv, [Next]_vars PROVE CopyInv' OBVIOUS
<1>1. CASE UNCHANGED vars BY <1>1 DEF vars, CopyInv, At
<1>2. ASSUME NEW s \in Slots, NEW op \in Ops, NEW v \in Versions, NEW who \in Actors,
             NEW t \in Targets, Arrive(s, op, v, who, t)
      PROVE  CopyInv'
  <2>1. UNCHANGED <<copies, export>> /\ slot[s] = Idle /\ Sound BY <1>2 DEF Arrive, db, external, Sound
  <2>2. slot'[s].pc = "read" BY <1>2 DEF Arrive, IInv, TypeOK
  <2> QED BY <2>1, <2>2, QuietCopies
<1>3. ASSUME NEW s \in Slots, Step(s) PROVE CopyInv' BY <1>3, CopyStep
<1>4. CASE Crash
  <2>1. faults' # 0 BY <1>4, BoundsAssumption DEF Crash, Fault, IInv, TypeOK
  <2> QED BY <1>4, <2>1 DEF Crash, CopyInv, At
<1> QED BY <1>1, <1>2, <1>3, <1>4 DEF Next

\* With one handler at a time, and as long as no database call fails, a key has at most
\* one record in each place, its target and the fallback, whatever posts time out after
\* they took effect: delivery.py:162-343.
THEOREM SerialExports ==
  ASSUME OneAtATime
  PROVE  Spec => []AtMostOneCopy
<1>1. Init => CopyInv
  <2> SUFFICES ASSUME Init PROVE CopyInv OBVIOUS
  <2>1. \A k \in Keys : copies[k] = NoCopy BY DEF Init
  <2> QED BY <2>1 DEF Init, CopyInv, At, Holds, NoCopy
<1>2. CopyInv => AtMostOneCopy BY DEF CopyInv, AtMostOneCopy
<1> QED BY <1>1, <1>2, CopyNext, Invariance, PTL DEF Spec
=============================================================================
