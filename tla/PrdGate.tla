------------------------------- MODULE PrdGate -------------------------------
(***************************************************************************)
(* The quality gate of formal PRD versions and their delivery export:      *)
(* PrdLifecycleService (product_decision/prd_lifecycle.py) and             *)
(* DeliveryService.export_prd (product_decision/delivery.py) over the      *)
(* SQLite tables of ProductDecisionRepository.                             *)
(*                                                                         *)
(* Every handler is a coroutine that awaits one repository call after the  *)
(* other; each call is one SQLite transaction on a connection of its own,  *)
(* so other handlers run between two calls.  A handler in flight occupies  *)
(* a slot; a step of a slot is one repository call (or the external call)  *)
(* together with the local code that leads to the next one.                *)
(*                                                                         *)
(* Bounds: Slots (handlers in flight at once), Asked (the requests that    *)
(* come in), MaxVersion (revisions of the PRD), MaxCopies (external        *)
(* records counted per key and place), MaxFaults (database failures and    *)
(* process crashes).                                                       *)
(***************************************************************************)
EXTENDS Naturals, FiniteSets

CONSTANTS
  Slots,        \* handlers that may be in flight at once
  Actors,       \* callers
  Owners,       \* the callers that are owner or admin of the product
  Anonymous,    \* the empty actor_open_id
  Targets,      \* delivery target kinds
  HasFallback,  \* those that post to a bitable when their own post failed
  Asked,        \* the <<operation, version>> pairs callers ask for
  MaxVersion,
  MaxCopies,
  MaxFaults

ASSUME OwnersAssumption ==
  Owners \subseteq Actors /\ Anonymous \in Actors \ Owners
ASSUME FallbackAssumption == HasFallback \subseteq Targets
ASSUME BoundsAssumption ==
  MaxVersion \in Nat \ {0} /\ MaxCopies \in Nat /\ MaxFaults \in Nat

VARIABLES
  row,          \* decision_prd_version, by version number of the PRD
  assessed,     \* decision_quality_assessment: <<version, decision>> saved
  export,       \* decision_delivery_export, by <<version, target>>
  audit,        \* decision audit log: <<version, gate action>> appended
  slot,         \* the handlers in flight
  grants,       \* history: <<version, status, actor>> written by an owner
  sent,         \* history: <<version, target, decision>> posted externally
  copies,       \* external records that exist, by <<version, target>>: the
                \* target's own, and those its fallback made
  faults        \* failures and crashes so far

db       == <<row, assessed, export, audit>>
external == <<sent, copies>>
vars     == <<row, assessed, export, audit, slot, grants, sent, copies, faults>>

-----------------------------------------------------------------------------
Versions  == 1..MaxVersion
\* needs_revision is treated like blocked by every guard, and stands for both.
Decisions == {"pass", "needs_revision"}
Status    == {"draft", "quality_checked", "approved", "waived", "ready_for_delivery"}
Keys      == Versions \X Targets

NoRow  == [status |-> "none", decision |-> "none"]
Row    == [status : Status, decision : Decisions \cup {"none"}]
Draft  == [status |-> "draft", decision |-> "none"]

GateOps   == {"approve", "waive", "ready"}
Ops       == GateOps \cup {"assess", "revise", "export"}
Steps     == {"read", "authorize", "reread", "write", "review", "save",
              "insert", "lookup", "post", "record", "audit"}
\* A degraded export is a succeeded one through the fallback target.
ExportStates == {"none", "succeeded", "failed"}

Copies == [own : 0..MaxCopies, fallback : 0..MaxCopies]
NoCopy == [own |-> 0, fallback |-> 0]

Idle     == [op |-> "idle"]
Handler  == [op : Ops, version : Versions, actor : Actors, target : Targets,
             pc : Steps, seen : Row \cup {NoRow}, outcome : Decisions \cup ExportStates]

\* The status a gate operation moves a version to.
Goal(op) == CASE op = "approve" -> "approved"
              [] op = "waive"   -> "waived"
              [] op = "ready"   -> "ready_for_delivery"

\* Mutation: mark_ready_for_delivery also takes a version that only passed.
MayGate_ReadyWhenChecked(op, seen) ==
  CASE op = "approve" -> seen.status = "quality_checked" /\ seen.decision = "pass"
    [] op = "waive"   -> seen.status = "quality_checked" /\ seen.decision # "pass"
    [] op = "ready"   -> seen.status \in {"quality_checked", "approved", "waived"}

\* Mutation: approve does not look at the decision.
MayGate_AnyDecision(op, seen) ==
  CASE op \in {"approve", "waive"} -> seen.status = "quality_checked"
    [] op = "ready" -> seen.status \in {"approved", "waived"}

\* What approve, waive and mark_ready_for_delivery require of the version read.
MayGate(op, seen) ==
  CASE op = "approve" -> seen.status = "quality_checked" /\ seen.decision = "pass"
    [] op = "waive"   -> seen.status = "quality_checked" /\ seen.decision # "pass"
    [] op = "ready"   -> seen.status \in {"approved", "waived"}

MayAssess(seen) == seen.status \in {"draft", "quality_checked"}
MayExport(seen) == seen.status = "ready_for_delivery"

-----------------------------------------------------------------------------
At(s, step)   == slot[s] # Idle /\ slot[s].pc = step
Goto(s, step) == slot' = [slot EXCEPT ![s].pc = step]
Reply(s)      == slot' = [slot EXCEPT ![s] = Idle]

\* A repository call that fails returns ok = False; it is not raised.
Fault == faults < MaxFaults /\ faults' = faults + 1
Sound == faults' = faults

Init ==
  /\ row = [v \in Versions |-> IF v = 1 THEN Draft ELSE NoRow]
  /\ assessed = {}
  /\ export = [k \in Keys |-> "none"]
  /\ audit = {}
  /\ slot = [s \in Slots |-> Idle]
  /\ grants = {}
  /\ sent = {}
  /\ copies = [k \in Keys |-> NoCopy]
  /\ faults = 0

\* An endpoint of the decision router, or an MCP tool, calls the service.
Arrive(s, op, v, who, t) ==
  /\ slot[s] = Idle
  /\ row[v] # NoRow
  /\ op = "revise" => v < MaxVersion
  /\ <<op, v>> \in Asked
  /\ op \in {"assess", "export"} => who = Anonymous   \* who asks makes no difference
  /\ slot' = [slot EXCEPT ![s] =
       [op |-> op, version |-> v, actor |-> who, target |-> t,
        pc |-> "read", seen |-> NoRow, outcome |-> "none"]]
  /\ UNCHANGED <<db, grants, external, faults>>

\* Where a handler goes from the version it has just read.  A gate operation
\* always checks its actor, revise only one that is given; assess_quality and
\* export_prd look at the status at once.
AfterRead(op, who, seen) ==
  CASE op \in GateOps -> "authorize"
    [] op = "revise" -> IF who = Anonymous THEN "insert" ELSE "authorize"
    [] op = "assess" /\ MayAssess(seen) -> "review"
    [] op = "export" /\ MayExport(seen) -> "lookup"
    [] OTHER -> "refuse"

\* _require_version: the first read of the version.
ReadVersion(s) ==
  /\ At(s, "read")
  /\ LET h    == slot[s]
         seen == row[h.version]
         next == AfterRead(h.op, h.actor, seen)
     IN \/ /\ next # "refuse"
           /\ slot' = [slot EXCEPT ![s].pc = next,
                ![s].seen = IF h.op \in GateOps \cup {"export"} THEN seen ELSE NoRow]
           /\ Sound
        \/ /\ next = "refuse"
           /\ Reply(s)
           /\ Sound
        \/ Reply(s) /\ Fault
  /\ UNCHANGED <<db, grants, external>>

\* Mutation: the actor is not checked.
Authorize_AnyActor(s) ==
  /\ At(s, "authorize")
  /\ LET h == slot[s]
     IN \/ h.op = "revise" /\ Goto(s, "insert")
        \/ h.op \in GateOps /\ MayGate(h.op, h.seen) /\ Goto(s, "reread")
  /\ UNCHANGED <<db, grants, external, faults>>

\* require_owner_or_admin, then the guards on the version read before it.
Authorize(s) ==
  /\ At(s, "authorize")
  /\ LET h == slot[s]
     IN \/ /\ h.actor \in Owners
           /\ \/ h.op = "revise" /\ Goto(s, "insert")
              \/ h.op \in GateOps /\ MayGate(h.op, h.seen) /\ Goto(s, "reread")
           /\ Sound
        \/ /\ h.actor \in Owners
           /\ h.op \in GateOps /\ ~MayGate(h.op, h.seen)   \* idempotent or refused
           /\ Reply(s)
           /\ Sound
        \/ h.actor \notin Owners /\ Reply(s) /\ Sound
        \/ Reply(s) /\ Fault
  /\ UNCHANGED <<db, grants, external>>

\* _gate_transition reads the version again, and returns if it is already there.
ReRead(s) ==
  /\ At(s, "reread")
  /\ LET h == slot[s]
     IN \/ /\ row[h.version].status # Goal(h.op)
           /\ slot' = [slot EXCEPT ![s].seen = row[h.version], ![s].pc = "write"]
           /\ Sound
        \/ row[h.version].status = Goal(h.op) /\ Reply(s) /\ Sound
        \/ Reply(s) /\ Fault
  /\ UNCHANGED <<db, grants, external>>

\* The gate columns a handler writes back: a copy of the row it read last.
Written(h) ==
  IF h.op = "assess" THEN [status |-> "quality_checked", decision |-> h.outcome]
  ELSE [h.seen EXCEPT !.status = Goal(h.op)]

\* update_prd_version_gate: by id alone; its failure is not looked at.
WriteGate(s) ==
  /\ At(s, "write")
  /\ LET h == slot[s]
     IN \/ /\ row' = [row EXCEPT ![h.version] = Written(h)]
           /\ grants' = IF h.op \in GateOps
                        THEN grants \cup {<<h.version, Goal(h.op), h.actor>>}
                        ELSE grants
           /\ Sound
        \/ UNCHANGED <<row, grants>> /\ Fault
  /\ Goto(s, "audit")
  /\ UNCHANGED <<assessed, export, audit, external>>

\* Mutation: mark_ready_for_delivery leaves no entry.
AppendAudit_NotReady(s) ==
  /\ At(s, "audit")
  /\ audit' = IF slot[s].op \in {"approve", "waive"}
               THEN audit \cup {<<slot[s].version, slot[s].op>>} ELSE audit
  /\ Reply(s)
  /\ UNCHANGED <<row, assessed, export, grants, external, faults>>

\* append_audit is the last call of every handler; its failure is not looked at.
AppendAudit(s) ==
  /\ At(s, "audit")
  /\ \/ /\ audit' = IF slot[s].op \in GateOps
                   THEN audit \cup {<<slot[s].version, slot[s].op>>} ELSE audit
        /\ Sound
     \/ audit' = audit /\ Fault
  /\ Reply(s)
  /\ UNCHANGED <<row, assessed, export, grants, external>>

\* Mutation: a review that failed is saved as an assessment without decision.
RunQuality_FailureSaved(s) ==
  /\ At(s, "review")
  /\ \E d \in Decisions \cup {"none"} :
       slot' = [slot EXCEPT ![s].outcome = d, ![s].pc = "save"]
  /\ UNCHANGED <<db, grants, external, faults>>

\* quality_engine.assess: a whole review run; it ends in a decision or raises.
RunQuality(s) ==
  /\ At(s, "review")
  /\ \/ \E d \in Decisions :
          slot' = [slot EXCEPT ![s].outcome = d, ![s].pc = "save"]
     \/ Reply(s)
  /\ UNCHANGED <<db, grants, external, faults>>

\* Mutation: the assessment is left to be stored later.
SaveAssessment_Later(s) ==
  /\ At(s, "save")
  /\ Goto(s, "write")
  /\ UNCHANGED <<db, grants, external, faults>>

\* save_quality_assessment: the one write whose failure ends assess_quality.
SaveAssessment(s) ==
  /\ At(s, "save")
  /\ \/ /\ assessed' = assessed \cup {<<slot[s].version, slot[s].outcome>>}
        /\ Goto(s, "write")
        /\ Sound
     \/ UNCHANGED assessed /\ Reply(s) /\ Fault
  /\ UNCHANGED <<row, export, audit, grants, external>>

\* Mutation: INSERT OR REPLACE, without the UNIQUE constraint.
InsertRevision_Replace(s) ==
  /\ At(s, "insert")
  /\ row' = [row EXCEPT ![slot[s].version + 1] = Draft]
  /\ slot' = [slot EXCEPT ![s].version = @ + 1, ![s].pc = "audit"]
  /\ UNCHANGED <<assessed, export, audit, grants, external, faults>>

\* insert_prd_version of version + 1; UNIQUE(prd_id, version) refuses a second one.
InsertRevision(s) ==
  /\ At(s, "insert")
  /\ LET next == slot[s].version + 1
     IN \/ /\ row[next] = NoRow
           /\ row' = [row EXCEPT ![next] = Draft]
           /\ slot' = [slot EXCEPT ![s].version = next, ![s].pc = "audit"]
           /\ Sound
        \/ row[next] # NoRow /\ Reply(s) /\ UNCHANGED row /\ Sound
        \/ Reply(s) /\ UNCHANGED row /\ Fault
  /\ UNCHANGED <<assessed, export, audit, grants, external>>

\* get_delivery_by_idempotency_key: any export of the key, a failed one too, is
\* returned as it is; a failed lookup counts as no export.
LookUpExport(s) ==
  /\ At(s, "lookup")
  /\ LET key == <<slot[s].version, slot[s].target>>
     IN \/ export[key] = "none" /\ Goto(s, "post") /\ Sound
        \/ export[key] # "none" /\ Reply(s) /\ Sound
        \/ Goto(s, "post") /\ Fault
  /\ UNCHANGED <<db, grants, external>>

\* The records one call may make.  A project post that times out may have made its
\* record; it is caught and followed by one to the fallback, which may time out too.
Made(target) ==
  [own : 0..1, fallback : IF target \in HasFallback THEN 0..1 ELSE {0}]

\* target.export: it succeeds with a record, its own or the fallback's, or fails,
\* by an answer or an exception, whatever was made.
Post(s) ==
  /\ At(s, "post")
  /\ LET h   == slot[s]
         key == <<h.version, h.target>>
     IN \E outcome \in ExportStates \ {"none"}, made \in Made(h.target) :
          /\ outcome = "succeeded" => made # NoCopy
          /\ slot' = [slot EXCEPT ![s].outcome = outcome, ![s].pc = "record"]
          /\ copies' = [copies EXCEPT ![key] =
               [own |-> @.own + made.own, fallback |-> @.fallback + made.fallback]]
          /\ copies'[key] \in Copies
          /\ sent' = IF made = NoCopy THEN sent
                     ELSE sent \cup {<<h.version, h.target, h.seen.decision>>}
  /\ UNCHANGED <<db, grants, faults>>

\* Mutation: a failed post leaves no row.
RecordExport_OnlySuccess(s) ==
  /\ At(s, "record")
  /\ export' = IF slot[s].outcome = "failed" THEN export
               ELSE [export EXCEPT ![<<slot[s].version, slot[s].target>>] = slot[s].outcome]
  /\ Goto(s, "audit")
  /\ UNCHANGED <<row, assessed, audit, grants, external, faults>>

\* upsert_delivery_export: ON CONFLICT(idempotency_key) the last writer wins.
RecordExport(s) ==
  /\ At(s, "record")
  /\ \/ /\ export' = [export EXCEPT ![<<slot[s].version, slot[s].target>>] = slot[s].outcome]
        /\ Sound
     \/ UNCHANGED export /\ Fault
  /\ Goto(s, "audit")
  /\ UNCHANGED <<row, assessed, audit, grants, external>>

\* The process dies: the handlers are gone, the database stays.
Crash ==
  /\ Fault
  /\ \E s \in Slots : slot[s] # Idle
  /\ slot' = [s \in Slots |-> Idle]
  /\ UNCHANGED <<db, grants, external>>

Step(s) ==
  \/ ReadVersion(s)    \/ Authorize(s)      \/ ReRead(s)
  \/ WriteGate(s)      \/ AppendAudit(s)    \/ RunQuality(s)
  \/ SaveAssessment(s) \/ InsertRevision(s) \/ LookUpExport(s)
  \/ Post(s)           \/ RecordExport(s)

Next ==
  \/ \E s \in Slots, op \in Ops, v \in Versions, who \in Actors, t \in Targets :
       Arrive(s, op, v, who, t)
  \/ \E s \in Slots : Step(s)
  \/ Crash

Spec == Init /\ [][Next]_vars

-----------------------------------------------------------------------------
\* The values the variables range over.
TypeOK ==
  /\ row \in [Versions -> Row \cup {NoRow}]
  /\ assessed \subseteq Versions \X Decisions
  /\ export \in [Keys -> ExportStates]
  /\ audit \subseteq Versions \X GateOps
  /\ slot \in [Slots -> Handler \cup {Idle}]
  /\ grants \subseteq Versions \X Status \X Actors
  /\ sent \subseteq Versions \X Targets \X (Decisions \cup {"none"})
  /\ copies \in [Keys -> Copies]
  /\ faults \in 0..MaxFaults

\* Granted(v, status): an owner moved the version to the status.
Granted(v, status) == \E who \in Owners : <<v, status, who>> \in grants

\* The decision in a version's gate columns is always that of a stored
\* assessment, and owners only ever approved a version some assessment of which
\* passed and waived one some assessment of which did not, whatever handlers
\* overwrote each other's columns and whatever calls failed (assess_quality
\* stores the assessment before the gate, approve and waive read it there).
GateEvidence ==
  \A v \in Versions :
    /\ row[v].decision # "none" => <<v, row[v].decision>> \in assessed
    /\ Granted(v, "approved") => <<v, "pass">> \in assessed
    /\ Granted(v, "waived") => \E d \in Decisions \ {"pass"} : <<v, d>> \in assessed

\* Nothing leaves the system without people: an external record of a version
\* exists only if an owner marked it ready_for_delivery, and had before that
\* approved or waived it; nobody but an owner ever wrote a gate status.
HumanBeforeDelivery ==
  /\ \A g \in grants : g[3] \in Owners
  /\ \A v \in Versions, t \in Targets :
       copies[<<v, t>>] # NoCopy =>
         /\ Granted(v, "ready_for_delivery")
         /\ Granted(v, "approved") \/ Granted(v, "waived")

\* While no call fails, a gate status an owner wrote is in the audit log or its
\* handler is just about to append it: a concurrent handler never makes another
\* one skip its entry.
AuditTrail ==
  faults = 0 =>
    \A v \in Versions, op \in GateOps :
      Granted(v, Goal(op)) =>
        \/ <<v, op>> \in audit
        \/ \E s \in Slots : At(s, "audit") /\ slot[s].op = op /\ slot[s].version = v

\* Versions are inserted one after the other, each once: revise never replaces
\* an existing version by a new draft, and an assessed version is no draft again.
VersionsOnlyAdvance ==
  [][\A v \in Versions :
       row'[v] # row[v] =>
         \/ row[v] = NoRow /\ row'[v] = Draft /\ row[v - 1] # NoRow
         \/ row[v] # NoRow /\ row'[v].status \notin {"none", "draft"}]_vars

\* docs/decision-workbench-demo.md: "a PRD must pass or be explicitly waived
\* before delivery".  What is posted carries a pass, or the version was waived.
PassOrWaived ==
  \A m \in sent : m[3] = "pass" \/ Granted(m[1], "waived")

\* While no database call fails, an idempotency key never has two records in one
\* place, whatever posts time out after they took effect and however often the
\* export is asked for again.  A project post that timed out may leave one record in
\* the project and one in the bitable (export_prd, FeishuProjectDeliveryTarget).
AtMostOneCopy ==
  faults = 0 => \A k \in Keys : copies[k].own <= 1 /\ copies[k].fallback <= 1

\* The gate as its users see it, one operation at a time.
Gate == INSTANCE PrdGateSpec WITH delivered <- {k \in Keys : copies[k] # NoCopy}
GateSpec == Gate!Spec
=============================================================================
