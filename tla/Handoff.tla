------------------------------- MODULE Handoff -------------------------------
(***************************************************************************)
(* The delivery bundle of a review run: it is built, decided on, routed to *)
(* executors as tasks, and the tasks report back (service/                 *)
(* review_service.py, execution_service.py, packs/approval.py,             *)
(* execution/router.py, task_lifecycle.py, workspace/repository.py).       *)
(*                                                                         *)
(* The state is files of the run directory.  The operations are synchronous*)
(* functions of one process, so they do not interleave; each writes several*)
(* files, and the process may die between two of them.                     *)
(*                                                                         *)
(* Bounds: MaxDecisions (approval events), MaxBuilds (bundles), MaxDeaths. *)
(***************************************************************************)
EXTENDS Naturals, SequencesExt

CONSTANTS
  Packs,          \* the packs that become tasks
  MaxDecisions,
  MaxBuilds,
  MaxDeaths,
  NoFile

VARIABLES
  bundle,         \* delivery_bundle.json
  records,        \* approval_records.json: the status each decision led to
  snapshot,       \* status_snapshot.json: the status of the bundle it shows
  tasks,          \* execution_tasks.json: mode and status of each task
  requests,       \* the request file of each pack's executor: a preview or routed
  linked,         \* traceability_map.json was written for the tasks there are
  highRisk,       \* the execution pack names a high risk
  builds, deaths,
  unrecorded      \* history: decisions whose record a death prevented

handoffVars ==
  <<bundle, records, snapshot, tasks, requests, linked, highRisk, builds, deaths, unrecorded>>

-----------------------------------------------------------------------------
BundleStatus == {"draft", "need_more_info", "approved", "blocked_by_risk"}
TaskStatus   == {"pending", "assigned", "in_progress", "waiting_review", "completed",
                 "failed", "cancelled"}
Modes        == {"agent_auto", "agent_assisted", "human_only"}

Bundles == [status : BundleStatus, history : Seq(BundleStatus)]
Tasks   == [mode : Modes, status : TaskStatus]

ASSUME HandoffAssumption ==
  /\ MaxBuilds \in Nat /\ MaxDeaths \in Nat
  /\ NoFile \notin Bundles \cup BundleStatus \cup Tasks \cup {"preview", "routed"}

\* VALID_TRANSITIONS of a bundle; approved is final.
ValidTransition(from, to) ==
  \/ from = "draft" /\ to \in {"need_more_info", "approved", "blocked_by_risk"}
  \/ from = "need_more_info" /\ to \in {"draft", "blocked_by_risk"}
  \/ from = "blocked_by_risk" /\ to = "draft"

\* VALID_TASK_TRANSITIONS.
ValidTaskTransition(from, to) ==
  \/ from = "pending" /\ to \in {"assigned", "cancelled"}
  \/ from = "assigned" /\ to \in {"in_progress", "cancelled"}
  \/ from = "in_progress" /\ to \in {"waiting_review", "completed", "failed", "cancelled"}
  \/ from = "waiting_review" /\ to \in {"in_progress", "failed", "cancelled"}

Die == deaths < MaxDeaths /\ deaths' = deaths + 1
Live == deaths' = deaths

HandoffInit ==
  /\ bundle = NoFile
  /\ records = << >>
  /\ snapshot = NoFile
  /\ tasks = [p \in Packs |-> NoFile] /\ requests = [p \in Packs |-> NoFile]
  /\ linked = FALSE
  /\ highRisk = FALSE
  /\ builds = 0 /\ deaths = 0 /\ unrecorded = 0

\* DeliveryBundleBuilder.build.
NewBundle == [status |-> "draft", history |-> << >>]

\* _generate_delivery_bundle: a new draft under the same id, whatever was decided about
\* the bundle that is there.
GenerateBundle == bundle' = NewBundle /\ builds < MaxBuilds /\ builds' = builds + 1

\* build_delivery_handoff_outputs: the packs are written, then the bundle; when a pack
\* fails, or the process dies, the bundle that was there stays, over the new packs.
BuildOutputs ==
  /\ highRisk' \in BOOLEAN
  /\ \/ GenerateBundle /\ Live
     \/ UNCHANGED <<bundle, builds>> /\ (Live \/ Die)
  /\ UNCHANGED <<records, snapshot, tasks, requests, linked, unrecorded>>

\* generate_delivery_bundle_for_mcp: a bundle of the packs on disk.
Rebuild ==
  /\ GenerateBundle /\ Live
  /\ UNCHANGED <<records, snapshot, tasks, requests, linked, highRisk, unrecorded>>

\* _transition.
Transition(to) ==
  /\ bundle # NoFile
  /\ ValidTransition(bundle.status, to)
  /\ bundle' = [status |-> to, history |-> Append(bundle.history, to)]

\* ReviewWorkspaceRepository.append_approval_record and save_status_snapshot.
AppendRecord(to)     == records' = Append(records, to)
SaveSnapshot(status) == snapshot' = status

\* _persist_review_workspace_state, after the bundle was written: the record, then the
\* snapshot, unless the process dies in between.
Persist(to) ==
  \/ AppendRecord(to) /\ SaveSnapshot(to) /\ Live /\ UNCHANGED unrecorded
  \/ AppendRecord(to) /\ Die /\ UNCHANGED <<snapshot, unrecorded>>
  \/ unrecorded' = unrecorded + 1 /\ Die /\ UNCHANGED <<records, snapshot>>

\* approve_handoff_for_mcp.
DecideOnBundle(to) ==
  /\ Len(records) < MaxDecisions
  /\ Transition(to)
  /\ Persist(to)
  /\ UNCHANGED <<tasks, requests, linked, highRisk, builds>>

\* ExecutorRouter._resolve_mode.
EffectiveMode(mode) ==
  IF mode = "human_only" THEN mode ELSE IF highRisk THEN "agent_assisted" ELSE mode

\* Mutation: a bundle is routed unless it is blocked.
Routable_NotBlocked == bundle.status # "blocked_by_risk"

\* ExecutorRouter.route raises BundleNotApprovedError.
Routable == bundle.status = "approved"

\* _materialize_adapter_requests, for some of the packs: a request file per executor, over
\* the one that is there.
Materialize(ps, kind) == requests' = [p \in Packs |-> IF p \in ps THEN kind ELSE requests[p]]

\* TraceabilityMap: written at once for all tasks.
Link == linked' = TRUE

\* handoff_to_executor_for_mcp: the requests, then the tasks, new ones whatever became of
\* those that the same bundle was routed to before, then the map of their links.
Route(mode) ==
  /\ bundle # NoFile
  /\ Routable
  /\ Materialize(Packs, "routed")
  /\ \/ /\ tasks' = [p \in Packs |-> [mode |-> EffectiveMode(mode), status |-> "pending"]]
        /\ \/ Link /\ Live
           \/ linked' = FALSE /\ Die
     \/ UNCHANGED <<tasks, linked>> /\ Die
  /\ UNCHANGED <<bundle, records, snapshot, highRisk, builds, unrecorded>>

\* prepare_agent_handoff_for_run_for_mcp: requests for the agents selected, approved or
\* not, marked as previews; no task.
PrepareHandoff(ps) ==
  /\ bundle # NoFile
  /\ Materialize(ps, "preview")
  /\ UNCHANGED <<bundle, records, snapshot, tasks, linked, highRisk, builds, deaths, unrecorded>>

\* _apply_lifecycle_update, _merge_task_writeback: the same status again is a writeback; a checkpoint is for
\* tasks that are assisted.
Updates(task, to) ==
  \/ to = task.status
  \/ /\ ValidTaskTransition(task.status, to)
     /\ to = "waiting_review" => task.mode = "agent_assisted"

\* _save_execution_status_snapshot, with the status that the bundle has by now; then the
\* update is added to the trace of the run.
ShowStatus == SaveSnapshot(bundle.status)

\* update_execution_task_for_mcp: the tasks, then the snapshot.
UpdateTask(p, to) ==
  /\ bundle # NoFile
  /\ tasks[p] # NoFile
  /\ to # "pending"
  /\ Updates(tasks[p], to)
  /\ tasks' = [tasks EXCEPT ![p].status = to]
  /\ \/ ShowStatus /\ Live
     \/ UNCHANGED snapshot /\ Die
  /\ UNCHANGED <<bundle, records, requests, linked, highRisk, builds, unrecorded>>

HandoffNext ==
  \/ BuildOutputs \/ Rebuild
  \/ \E to \in BundleStatus : DecideOnBundle(to)
  \/ \E mode \in Modes : Route(mode)
  \/ \E ps \in SUBSET Packs : PrepareHandoff(ps)
  \/ \E p \in Packs, to \in TaskStatus : UpdateTask(p, to)

HandoffSpec == HandoffInit /\ [][HandoffNext]_handoffVars

-----------------------------------------------------------------------------
\* The values the variables range over.
HandoffTypeOK ==
  /\ bundle \in Bundles \cup {NoFile}
  /\ records \in Seq(BundleStatus)
  /\ snapshot \in BundleStatus \cup {NoFile}
  /\ tasks \in [Packs -> Tasks \cup {NoFile}]
  /\ requests \in [Packs -> {NoFile, "preview", "routed"}]
  /\ linked \in BOOLEAN /\ highRisk \in BOOLEAN
  /\ builds \in 0 .. MaxBuilds /\ deaths \in 0 .. MaxDeaths /\ unrecorded \in 0 .. MaxDeaths

\* The history of a bundle ends in its status and never goes from a block, or from a
\* request for information, to an approval without a return to draft.
HistoryIsPath ==
  bundle # NoFile =>
    /\ bundle.status = IF bundle.history = << >> THEN "draft" ELSE Last(bundle.history)
    /\ \A i \in DOMAIN bundle.history :
         bundle.history[i] = "approved" =>
           i = Len(bundle.history) /\ (i = 1 \/ bundle.history[i - 1] = "draft")

\* Executors have tasks, or requests that are more than a preview, only when some bundle
\* of the run was approved and the record of the approval is kept (or a death prevented
\* it), even after the bundle was built anew and lost its history; every decision on the
\* present bundle is on record in its order; and only a task that is assisted waits for
\* a review.
ApprovedWork ==
  /\ HistoryIsPath
  /\ (\E p \in Packs : tasks[p] # NoFile \/ requests[p] = "routed") =>
       unrecorded > 0 \/ \E i \in DOMAIN records : records[i] = "approved"
  /\ bundle # NoFile /\ unrecorded = 0 => IsSuffix(bundle.history, records)
  /\ \A p \in Packs : tasks[p] # NoFile /\ tasks[p].status = "waiting_review" =>
       tasks[p].mode = "agent_assisted"
=============================================================================
