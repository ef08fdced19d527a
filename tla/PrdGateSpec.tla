----------------------------- MODULE PrdGateSpec -----------------------------
(***************************************************************************)
(* What the PRD gate promises to one user at a time: every operation of    *)
(* PrdLifecycleService and DeliveryService as a single atomic step on the  *)
(* versions of a PRD and on the set of keys delivered.  PrdGate implements *)
(* it when its handlers run one after the other.                           *)
(***************************************************************************)
EXTENDS Naturals

CONSTANTS MaxVersion, Targets

VARIABLES row, delivered

Versions  == 1..MaxVersion
Decisions == {"pass", "needs_revision"}
NoRow     == [status |-> "none", decision |-> "none"]
Draft     == [status |-> "draft", decision |-> "none"]

Init ==
  /\ row = [v \in Versions |-> IF v = 1 THEN Draft ELSE NoRow]
  /\ delivered = {}

Become(v, status) ==
  /\ row' = [row EXCEPT ![v].status = status]
  /\ UNCHANGED delivered

\* draft -> quality_checked, and again as long as nobody has decided.
Assess(v) ==
  /\ row[v].status \in {"draft", "quality_checked"}
  /\ \E d \in Decisions :
       row' = [row EXCEPT ![v] = [status |-> "quality_checked", decision |-> d]]
  /\ UNCHANGED delivered

Approve(v) ==
  row[v].status = "quality_checked" /\ row[v].decision = "pass" /\ Become(v, "approved")

Waive(v) ==
  row[v].status = "quality_checked" /\ row[v].decision # "pass" /\ Become(v, "waived")

MarkReady(v) ==
  row[v].status \in {"approved", "waived"} /\ Become(v, "ready_for_delivery")

\* Every version keeps its own gate; a new draft follows the last one.
Revise(v) ==
  /\ row[v] = NoRow
  /\ v > 1 /\ row[v - 1] # NoRow
  /\ row' = [row EXCEPT ![v] = Draft]
  /\ UNCHANGED delivered

Deliver(v, t) ==
  /\ row[v].status = "ready_for_delivery"
  /\ delivered' = delivered \cup {<<v, t>>}
  /\ UNCHANGED row

Next ==
  \E v \in Versions :
    \/ Assess(v) \/ Approve(v) \/ Waive(v) \/ MarkReady(v) \/ Revise(v)
    \/ \E t \in Targets : Deliver(v, t)

Spec == Init /\ [][Next]_<<row, delivered>>
=============================================================================
