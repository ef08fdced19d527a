----------------------------- MODULE Opportunity -----------------------------
(***************************************************************************)
(* The life of one opportunity candidate, from the draft to formal PRDs:   *)
(* OpportunityService and EvaluateService (product_decision/services.py),  *)
(* ApprovalService and the creation of PRDs (prd_lifecycle.py).            *)
(*                                                                         *)
(* As in PrdGate a handler in flight occupies a slot and a step is one     *)
(* repository call with the local code after it.  Every write puts the     *)
(* whole row back, by id alone: a copy the handler read in an earlier call.*)
(*                                                                         *)
(* Left out: titles and scores, and the audit entry after each write.      *)
(*                                                                         *)
(* Bounds: Slots, MaxRequests (requests in all), MaxEvidence, MaxFaults    *)
(* (failed calls and crashes).                                             *)
(***************************************************************************)
EXTENDS Naturals, FiniteSets

CONSTANTS
  Slots,        \* handlers that may be in flight at once
  Actors,       \* callers
  Owners,       \* the callers that are owner or admin of the product
  Anonymous,    \* the empty actor_open_id
  Asked,        \* the operations callers ask for
  Window,       \* the limit of list_evidence
  MaxEvidence,
  MaxRequests,
  MaxFaults

ASSUME OwnersAssumption ==
  Owners \subseteq Actors /\ Anonymous \in Actors \ Owners
ASSUME NumbersAssumption ==
  /\ Window \in Nat \ {0} /\ MaxEvidence \in Nat \ {0}
  /\ MaxRequests \in Nat /\ MaxFaults \in Nat

VARIABLES
  opp,          \* the row of decision_opportunity
  evidence,     \* the evidence records of the product, by the time they occurred
  prds,         \* evidence_refs of the formal PRDs created from it
  slot,         \* the handlers in flight
  submitted,    \* history: it was once written as pending_approval
  approvals,    \* history: the actors whose approval was written
  requests,     \* requests so far
  faults        \* failed calls and crashes so far

history == <<submitted, approvals>>
vars    == <<opp, evidence, prds, slot, submitted, approvals, requests, faults>>

-----------------------------------------------------------------------------
Evidence == 1..MaxEvidence
Status   == {"proposed", "pending_approval", "approved", "rejected"}
Decided  == {"approved", "rejected"}
Editable == {"proposed", "pending_approval"}
Row      == [status : Status, refs : SUBSET Evidence, version : Nat]
NoRow    == [status |-> "none", refs |-> {}, version |-> 0]

Ops   == {"edit", "submit", "reject", "evaluate", "approve", "prd"}
Steps == {"read", "load", "authorize", "check", "reread", "write", "insert"}

Idle    == [op |-> "idle"]
Handler == [op : Ops, actor : Actors, add : Evidence, pc : Steps,
            first : Row \cup {NoRow}, seen : Row \cup {NoRow}, refs : SUBSET Evidence]

\* list_evidence returns the latest records only.
Visible == {e \in evidence : Cardinality({f \in evidence : f > e}) < Window}

At(s, step)   == slot[s] # Idle /\ slot[s].pc = step
Goto(s, step) == slot' = [slot EXCEPT ![s].pc = step]
Reply(s)      == slot' = [slot EXCEPT ![s] = Idle]

Fault == faults < MaxFaults /\ faults' = faults + 1
Sound == faults' = faults

\* create_candidate: proposed, with evidence of the product.
Init ==
  /\ \E e \in Evidence :
       evidence = {e} /\ opp = [status |-> "proposed", refs |-> {e}, version |-> 1]
  /\ prds = {}
  /\ slot = [s \in Slots |-> Idle]
  /\ submitted = FALSE
  /\ approvals = {}
  /\ requests = 0
  /\ faults = 0

\* An endpoint of the decision router, or an MCP tool, calls a service.
Arrive(s, op, who, e) ==
  /\ slot[s] = Idle
  /\ requests < MaxRequests
  /\ op \in Asked
  /\ op \notin {"approve", "prd"} => who = Anonymous   \* who asks makes no difference
  /\ op # "edit" => e = 1
  /\ slot' = [slot EXCEPT ![s] =
       [op |-> op, actor |-> who, add |-> e, pc |-> "read",
        first |-> NoRow, seen |-> NoRow, refs |-> {}]]
  /\ requests' = requests + 1
  /\ UNCHANGED <<opp, evidence, prds, history, faults>>

\* Mutation: submit_for_approval does not look at the status.
AfterRead_SubmitAny(op, who, seen) ==
  CASE op = "edit" /\ seen.status \in Editable -> "load"
    [] op = "submit" -> "reread"
    [] op = "reject" -> "write"
    [] op = "evaluate" /\ seen.status # "rejected" -> "write"
    [] op = "approve" -> "authorize"
    [] op = "prd" /\ seen.status = "approved" ->
         IF who = Anonymous THEN "insert" ELSE "authorize"
    [] OTHER -> "refuse"

\* Mutation: PRDs are created from submitted opportunities as well.
AfterRead_PrdPending(op, who, seen) ==
  IF op = "prd" /\ seen.status = "pending_approval" THEN "insert"
  ELSE IF op = "submit" /\ seen.status # "proposed" THEN "refuse"
  ELSE AfterRead_SubmitAny(op, who, seen)

\* Where a handler goes from the row it read first.  reject is _transition alone;
\* create_from_approved_opportunity checks an actor only if one is given.
AfterRead(op, who, seen) ==
  CASE op = "edit" /\ seen.status \in Editable -> "load"
    [] op = "submit" /\ seen.status = "proposed" -> "reread"
    [] op = "reject" -> "write"
    [] op = "evaluate" /\ seen.status # "rejected" -> "write"
    [] op = "approve" -> "authorize"
    [] op = "prd" /\ seen.status = "approved" ->
         IF who = Anonymous THEN "insert" ELSE "authorize"
    [] OTHER -> "refuse"

\* _require: the first read of the row.
Read(s) ==
  /\ At(s, "read")
  /\ LET next == AfterRead(slot[s].op, slot[s].actor, opp)
     IN \/ /\ next # "refuse"
           /\ slot' = [slot EXCEPT ![s].pc = next, ![s].first = opp,
                                   ![s].seen = opp, ![s].refs = opp.refs]
           /\ Sound
        \/ next = "refuse" /\ Reply(s) /\ Sound
        \/ Reply(s) /\ Fault
  /\ UNCHANGED <<opp, evidence, prds, history, requests>>

\* Mutation: an edit may leave the opportunity without evidence.
LoadEvidence_Empty(s) ==
  /\ At(s, "load")
  /\ LET refs == (slot[s].seen.refs \cup {slot[s].add}) \cap Visible
     IN slot' = [slot EXCEPT ![s].pc = "write", ![s].refs = refs]
  /\ UNCHANGED <<opp, evidence, prds, history, requests, faults>>

\* Mutation: an edit replaces the evidence by what it was given.
LoadEvidence_Replace(s) ==
  /\ At(s, "load")
  /\ slot[s].add \in Visible
  /\ slot' = [slot EXCEPT ![s].pc = "write", ![s].refs = {slot[s].add}]
  /\ UNCHANGED <<opp, evidence, prds, history, requests, faults>>

\* _load_evidence of an edit: the references it finds are kept, and one must be;
\* a listing that fails finds none.
LoadEvidence(s) ==
  /\ At(s, "load")
  /\ LET refs == (slot[s].seen.refs \cup {slot[s].add}) \cap Visible
     IN \/ /\ refs # {}
           /\ slot' = [slot EXCEPT ![s].pc = "write", ![s].refs = refs]
           /\ Sound
        \/ refs = {} /\ Reply(s) /\ Sound
        \/ Reply(s) /\ Fault
  /\ UNCHANGED <<opp, evidence, prds, history, requests>>

\* require_owner_or_admin; approve looks at the status read before it only then.
Authorize(s) ==
  /\ At(s, "authorize")
  /\ LET h == slot[s]
     IN \/ /\ h.actor \in Owners
           /\ \/ h.op = "prd" /\ Goto(s, "insert")
              \/ h.op = "approve" /\ h.seen.status = "pending_approval" /\ Goto(s, "check")
           /\ Sound
        \/ /\ h.actor \in Owners => h.op = "approve" /\ h.seen.status # "pending_approval"
           /\ Reply(s)
           /\ Sound
        \/ Reply(s) /\ Fault
  /\ UNCHANGED <<opp, evidence, prds, history, requests>>

\* "Idempotent concurrent approve": returns if somebody else has approved; a read
\* that fails is not looked at.
CheckApproved(s) ==
  /\ At(s, "check")
  /\ \/ opp.status = "approved" /\ Reply(s) /\ Sound
     \/ opp.status # "approved" /\ Goto(s, "reread") /\ Sound
     \/ Goto(s, "reread") /\ Fault
  /\ UNCHANGED <<opp, evidence, prds, history, requests>>

\* _transition reads the row again, and checks nothing.
ReRead(s) ==
  /\ At(s, "reread")
  /\ \/ /\ slot' = [slot EXCEPT ![s].pc = "write", ![s].seen = opp, ![s].refs = opp.refs]
        /\ Sound
     \/ Reply(s) /\ Fault
  /\ UNCHANGED <<opp, evidence, prds, history, requests>>

\* Mutation: a submission is stored under a status OpportunityCandidateStatus lacks.
Goal_Submitted(h) ==
  CASE h.op = "submit"  -> "submitted"
    [] h.op = "approve" -> "approved"
    [] h.op = "reject"  -> "rejected"
    [] OTHER            -> h.seen.status

\* The status a handler writes.
Goal(h) ==
  CASE h.op = "submit"  -> "pending_approval"
    [] h.op = "approve" -> "approved"
    [] h.op = "reject"  -> "rejected"
    [] OTHER            -> h.seen.status

\* upsert_opportunity of the copy; its failure is not looked at.
Write(s) ==
  /\ At(s, "write")
  /\ LET h == slot[s]
     IN \/ /\ opp' = [status |-> Goal(h), refs |-> h.refs, version |-> h.seen.version + 1]
           /\ submitted' = (submitted \/ h.op = "submit")
           /\ approvals' = IF h.op = "approve" THEN approvals \cup {h.actor} ELSE approvals
           /\ Sound
        \/ UNCHANGED <<opp, history>> /\ Fault
  /\ Reply(s)
  /\ UNCHANGED <<evidence, prds, requests>>

\* insert_prd_version of version 1 of a new PRD, from the copy read first.
InsertPrd(s) ==
  /\ At(s, "insert")
  /\ \/ prds' = prds \cup {slot[s].refs} /\ Sound
     \/ UNCHANGED prds /\ Fault
  /\ Reply(s)
  /\ UNCHANGED <<opp, evidence, history, requests>>

\* A sync stores one more record, which may have occurred before others.
NewEvidence ==
  /\ \E e \in Evidence \ evidence : evidence' = evidence \cup {e}
  /\ UNCHANGED <<opp, prds, slot, history, requests, faults>>

\* The process dies: the handlers are gone, the database stays.
Crash ==
  /\ Fault
  /\ \E s \in Slots : slot[s] # Idle
  /\ slot' = [s \in Slots |-> Idle]
  /\ UNCHANGED <<opp, evidence, prds, history, requests>>

Step(s) ==
  \/ Read(s)   \/ LoadEvidence(s) \/ Authorize(s) \/ CheckApproved(s)
  \/ ReRead(s) \/ Write(s)        \/ InsertPrd(s)

Next ==
  \/ \E s \in Slots, op \in Ops, who \in Actors, e \in Evidence : Arrive(s, op, who, e)
  \/ \E s \in Slots : Step(s)
  \/ NewEvidence
  \/ Crash

Spec == Init /\ [][Next]_vars

-----------------------------------------------------------------------------
\* The values the variables range over.
TypeOK ==
  /\ opp \in Row
  /\ evidence \subseteq Evidence
  /\ prds \subseteq SUBSET Evidence
  /\ slot \in [Slots -> Handler \cup {Idle}]
  /\ submitted \in BOOLEAN
  /\ approvals \subseteq Actors
  /\ requests \in 0..MaxRequests
  /\ faults \in 0..MaxFaults

\* docs/decision-workbench-demo.md: "an owner must approve an opportunity before
\* a formal PRD can be created".  Whatever copies handlers write back over each
\* other, a PRD exists only if an owner's approval was written, and before that
\* somebody's submission (approve_opportunity, create_from_approved_opportunity).
OwnerApproved ==
  /\ opp.status = "approved" \/ prds # {} => approvals \cap Owners # {}
  /\ approvals # {} => submitted /\ approvals \subseteq Owners

\* The opportunity and every PRD created from it refer to evidence that exists,
\* and to some, although edits overwrite each other's references and a listing
\* may fail or reach only the newest records (update_candidate).
Grounded ==
  \A refs \in prds \cup {opp.refs} : refs # {} /\ refs \subseteq evidence

\* The handler that writes the row in this step.
Writes(s) == At(s, "write") /\ slot'[s] = Idle

\* What an owner or a product manager decided stands: an approved or rejected
\* opportunity takes another status only by reject, or by a handler that had read
\* the row before the decision was there and is ignorant of it.
DecisionsStand ==
  [][opp.status \in Decided /\ opp'.status # opp.status =>
       \E s \in Slots : Writes(s) /\ (slot[s].op = "reject" \/ slot[s].first # opp)]_vars

\* No reference is lost to an edit of others or to a decision, unless the writer's
\* copy was older than the reference, or the listing no longer reaches it.
EvidenceKept ==
  [][\A e \in opp.refs \ opp'.refs :
       e \notin Visible \/ \E s \in Slots : Writes(s) /\ slot[s].seen # opp]_vars
=============================================================================
