# Verification of prd_pal

TLA+ specifications of prd_pal, the product decision and requirement review
service in `src/prd_pal`, with the TLC configurations that check them and the
TLAPS proofs about them. The code is the reference: every definition that
stands for code is listed with its lines in `PROJECT.json` ("map").

Run from this directory: `tlc -config PrdGate.cfg MCPrdGate.tla`,
`tlapm PrdGateProofs.tla`, and so on for the runs below.

## 1. The system

prd_pal is one FastAPI process (`server/app.py`) with an asyncio event loop,
SQLite files and a directory of review runs; it calls a language model, Feishu,
GitHub and Notion. There are no locks around the databases: concurrency is that
of coroutines, which let others run at every `await`, and what survives a crash
is what was committed to a file. The same tables may be written by the MCP
server, which is a process of its own.

| Component | State | Operations | Interacts with |
|---|---|---|---|
| PRD gate (`product_decision/prd_lifecycle.py`) | `decision_prd_version`, `decision_quality_assessment`, audit log | create, revise, assess, approve, waive, mark ready | quality engine, delivery |
| PRD delivery (`product_decision/delivery.py`) | `decision_delivery_export` and records in Feishu | export, with an idempotency key per version and target | gate (status), Feishu |
| Evidence sync (`product_decision/sync_service.py`, `repository.py`, `feishu_client.py`) | `decision_evidence_source` (cursor, status), `decision_evidence` | sync a source page by page, confirm evidence, hand in records | job queue, scheduler, Feishu |
| Scheduler (`product_decision/scheduler.py`) | one task | run all sources at 02:00 | evidence sync |
| Job queue (`platform/local.py`) | `platform_job` and a dictionary | enqueue by key, attempts, recover | evidence sync |
| Opportunities (`product_decision/services.py`) | `decision_opportunity`, evaluations | create, edit, submit, evaluate, approve, reject | PRD gate |
| Review runs (`server/job_state.py`, `job_registry.py`, `sse.py`, `app.py`) | registry, snapshot and report files, stream queues | submit, status, result, stream, recover | review workflow, run page |
| Review workflow (`workflow.py`, `review/`) | the state of one graph run | parse, clarify, plan and assess risk in parallel, review, loop, report | language model |
| Run page (`frontend/src/hooks`) | the state of a page | connect, reconnect, poll, fetch the result | review runs |
| Review service (`service/review_service.py`, `revision_service.py`) | files of a run directory | answer, revise, confirm, build and approve a bundle | review runs |
| Execution (`execution/`, `service/execution_service.py`) | tasks and requests of a run | route, hand off, report back | bundle, notifications |
| Notifications (`notifications/`, `monitoring/retry.py`) | `notifications.jsonl` | dispatch over channels, retry | execution, MCP server |
| Workspace (`workspace/`, `service/artifact_*`) | versions of documents and results | patch, derive, new result, roadmap | review runs |
| Memory and skills (`memory/`, `skills/`, `review/memory_store.py`) | table of memories, case file, cache | recall, extract, execute a skill | review workflow |
| PM console (`server/pm_router.py`, `pm/`) | feedback, insights, opportunities, documents | each step, or all in one pipeline | MCP server |
| Project space (`server/project_space.py`) | sources of a project | add, update, roll back, delete, review | review runs |
| Agent commands (`server/agent_router.py`, `command_gateway.py`) | conversations, tasks, commands | classify, confirm, run, dismiss | project space, decisions, review runs |
| Connectors (`connectors/sync`, `integrations/`) | settings, events, sync tasks | set up, webhook, sync, retry | project space |

What is hard here, and where: a version, an opportunity or a document is read in one
transaction, checked, and written back in another (`prd_lifecycle.py`,
`services.py`, `pm_router.py`, the JSON files of a run and of a workspace); exports
look a key up and post before they record it; results of repository calls are values
that several callers do not look at; a long review runs between a read and its write;
a sync holds a cursor over many awaits while other runs move it; jobs and commands die
with the process; browser streams subscribe while a run ends, and answers overtake one
another; webhooks are lost, repeated and reordered. `PROJECT.json` ("hazards") lists
each at its line with the properties that watch it.

What makes each component correct:

* gate: gate columns never claim an assessment nobody stored; only owners and
  admins move a version; nothing leaves without them; versions only advance;
* delivery: one external record per key and place; nothing that neither passed nor was
  waived;
* evidence sync: no page skipped, confirmed content kept, one run per job, every
  edit imported in the end;
* opportunities: no PRD without an owner's approval and evidence, no decision
  lost except to an older copy;
* review runs: completed is final, no dead run looks alive, every stream ends, and the
  page that follows one shows the outcome;
* review workflow: it ends, whatever models and reviewers do; the report is of one
  round; risks and failures that were found are not lost on the way to it;
* after the review: answers and artifacts are not overwritten, a current version
  exists, work goes out only after an approval, records of notifications are true;
* memory and skills: what a review is given is from its scope and from its own input;
* product console: a document handed off goes back to an approval and to feedback;
* project space and agent: a version follows its parent, a command acts only if
  confirmed and makes each thing once, a review reads what was confirmed;
* connectors: no event that is called processed is lost, a secret is read as given.

## 2. Plan

Done, in this order: `PrdGate` with `PrdGateSpec` as its abstract specification;
`EvidenceSync` (sync, queue, scheduler and client); `Opportunity`; `ReviewRuns`, then
`RunPage`, which extends it by the page of the web front end; `ReviewGraph`;
`AgentCommands`, which extends `Materials`; `ConnectorSync` and `Connections`; and what
surrounds a review: `Revision`, `WorkspaceVersions`, `PatchDocument`, `Handoff`,
`Notifications`, `PmConsole`, `Memory`, `Skills`. Then, for each of these components, the
proof of every invariant and action property the runs check, and that `PrdGate` with one
handler at a time implements `PrdGateSpec` (section 10).

Left, in this order:

1. An abstract specification of a review run ("accepted, then one outcome") that
   `ReviewRuns` implements, and one of a command ("each effect at most once").
2. The quality engine's way from a review to a decision, and the selective rerun of a
   workspace (`selective_rerun_service.py`).

Bounds are chosen alike in all runs: two actors in a race, and one fault more than a
retry survives. Modules that share state are composed (`AgentCommands` with `Materials`,
`RunPage` with `ReviewRuns`, queue, scheduler and client in `EvidenceSync`); modules that
share none are checked side by side in one run, where each behaviour moves one of them
(`focus`), as their product has nothing to show and would only multiply the states.

## 3. The gate and delivery: `PrdGate`

Each request handler (`assess`, `revise`, `approve`, `waive`, `ready`, `export`)
is a coroutine in a slot; one step is one repository call, or the external call,
with the local code after it. `row` is the version table, `assessed` the
assessment table, `export` the export table, `audit` the audit entries of gate
transitions; `copies` are the records outside, per key those the target made itself
and those of its fallback. `grants` and
`sent` are history variables: what owners wrote and what was posted with which
decision. `slot[s].seen` is the copy of the row that the handler read last, so a
stale write is a write of `seen`.

Follow `approve`: `ReadVersion` (`_require_version`), `Authorize`
(`require_owner_or_admin`, then the guards on the copy read before it), `ReRead`
(`_gate_transition` reads again, returns if another call got there first),
`WriteGate`, `AppendAudit`. `assess` goes from `ReadVersion` over `RunQuality`
(a whole review) and `SaveAssessment` to `WriteGate`. Every call may fail: a
`Fault`, after which the handler replies, except where the code does not look at
the result. `Crash` empties the slots.

`Post` is the external call. It may fail although its record was made, and a target of
`HasFallback` (Feishu Project with its bitable) catches a failure of the connection and
posts a second time, to the fallback (delivery.py:208-218): one export may make a record
in each place, or two and be seen to fail. The idempotency key only keeps a later
export from posting again.

`PrdGateSpec` is the gate as a reviewer of the product would state it, each
operation one atomic step. `GateSpec` says the detailed gate implements it.

| Run | Bounds | Shows |
|---|---|---|
| `prd_gate` (`PrdGate.cfg`) | two handlers, one version, one fault | `GateEvidence`, `HumanBeforeDelivery`, `AuditTrail` under every interleaving |
| `prd_gate_serial` (`PrdGateSerial.cfg`) | one handler, two versions, one fault | `PassOrWaived`, `AtMostOneCopy`, `VersionsOnlyAdvance`, refinement of `PrdGateSpec` |
| `prd_gate_stale` (`PrdGateStale.cfg`) | two handlers | violates `PassOrWaived` |

Two handlers are enough for each race in the list of hazards, which are all
between a pair; one fault reaches every error branch and a retry after it.
`MaxCopies` is 2, one more than allowed in a place. The one target has a fallback where
exports are counted (`prd_gate_serial`), and none in `prd_gate`, whose properties do not
speak of the second record. Decisions are two: the guards treat
needs_revision and blocked alike.

`prd_gate_stale` is a divergence from docs/decision-workbench-demo.md:25: `approve`
checks the decision on its first read, `_gate_transition` takes the row of its
second read. An assessment that ends in needs_revision between them is approved,
marked ready and delivered. `PassOrWaived` and `GateSpec` therefore belong to the
run with one handler.

## 4. Evidence sync: `EvidenceSync`

One source. A worker is a coroutine with a sync in flight: the scheduler's loop
(`Loop`), manual refreshes, and adapters that hand in a record. `source` is the
row with the cursor, `stored` the version imported of each page, `remote` the
version in Feishu, `confirmed` the pages whose record was confirmed, `job` the
queue's record in memory per day (the idempotency key is source and day), `row`
its row in `platform_job`, and `looping` says that the task of the scheduler's
loop has not ended. `StartJob` and `EndRun` change the record first and write the
row after, outside the `try` of `enqueue` (local.py:103, :144): `Raises` is a write
that fails. The start then leaves a record that says running, with no run, and
`enqueue` returns it as it is until a restart; the end leaves a row that says
running under a record that is completed or failed. Raised in the scheduler's loop
it ends the loop's task for good (`OtherSourceRaises`: so does the queue write of
another source), because nothing in scheduler.py:65-77 catches it. `Load` reads the
source, `Fetch` calls the connector, `ImportPage` is the transaction of
`sync_evidence`, `Report` the success audit, `FailRead` and `FailWrite` the two
calls of `mark_sync_failed`, `Raise` the exception in the queue. `Crash` ends all
coroutines; `Restart` is `_app_lifespan`: jobs loaded and recovered without
handlers, the loop waits for the next 02:00; `FailedRestart` a start that ends
because a write of `recover` raised.

| Run | Bounds | Shows |
|---|---|---|
| `evidence_sync` (`EvidenceSync.cfg`) | loop, one more worker, two pages, two days, two attempts; two faults without edits, or one fault while both pages of a bitable are edited; fairness | `OneRunPerJob`, `ImportedBeforeCursor`, `OverForTheDay`, `ConfirmedKept`, `BitableCatchesUp` |
| `evidence_sync_document` (`EvidenceSyncDocument.cfg`) | a document, fairness | violates `DocumentCatchesUp` |

Two pages make a cursor in the middle, two days let a run overlap the next
midnight, two workers let one write back a cursor the other moved, and two
faults use up the attempts of a day. Edits and the second fault do not meet: an edit
matters to a cursor that is behind, and one fault puts it there.

Fairness: a coroutine that can go on does (the event loop is fair and calls
return or fail), 02:00 comes while the loop waits, days pass, and the process is
started again after a crash (`docker-compose.yml` restarts it). Nothing is
assumed of people: refreshes, edits and confirmations may never come. Nor is it
assumed that the loop's task lives: `BitableCatchesUp` is about behaviours in which
it does not end for good, as the code would not start it again before a restart.

`evidence_sync_document` is a divergence from repository.py:109 and the pilot
runbook: after the first successful sync a document's cursor is done, and
`_fetch_document_page` returns an empty page for it before it compares the
content watermark. Its edits are never imported.

## 5. Opportunities: `Opportunity`

One opportunity, from its draft to the PRDs created from it, with handlers in
slots as in `PrdGate`. `opp` is its row, `evidence` the records of the product,
numbered by the time they occurred, `prds` the references of the PRDs created.
`submitted` and `approvals` are history: that it was once stored as
pending_approval, and whose approvals were stored. A slot keeps the copy read
first (`first`, which the status checks look at), the copy that is written back
(`seen`) and the references to store (`refs`).

All handlers begin with `Read` (`_require`), and `AfterRead` says where the code
goes from the status it finds. An edit goes on to `LoadEvidence`, which keeps the
references that the limited listing finds, a submission to `ReRead`
(`_transition` reads again, and looks at nothing), an approval over `Authorize`
and `CheckApproved` to `ReRead`; a rejection is `_transition` alone, and `evaluate`
writes the copy it read. `Write` is the upsert of the whole row by id, and
`InsertPrd` the last call of `create_from_approved_opportunity`.

| Run | Bounds | Shows |
|---|---|---|
| `opportunity` (`Opportunity.cfg`) | two handlers, four requests, three records of which two are listed, one fault | `OwnerApproved`, `Grounded`, `DecisionsStand`, `EvidenceKept` |

Four requests are a submission, an approval and two more that race with it or
follow it. The records arrive in any order of occurrence, and two of three listed
makes an edit drop a reference that the listing does not reach, as the limit of
1000 does in a product with more.

Two comments in the code promise more than it keeps. `EvaluateService` promises to score
"without changing approval gates" (services.py:448) but writes back the status it read: an approval stored in between is undone.
`approve_opportunity` promises "same version stays approved once"
(prd_lifecycle.py:86), but two owners can both pass its check before either
writes. What remains true is `DecisionsStand`: only such a stale copy, or reject,
undoes a decision.

## 6. Review runs: `ReviewRuns`

One run that the API process accepted; directories are unique per run, so runs do
not meet. `job` is the record in the registry, `task` the coroutine of `run_job`,
`snap` and `report` what is in `run_progress.json` and `report.json`, `stream` the
event streams of clients, `told` the outcomes that clients were told, by the status
endpoint or by a stream. `Answer` is what the code answers: the record's status, or
what `persisted_status_payload` makes of the files.

`Submit` is `_enqueue_review_run`, `Start` the first lines of `run_job`, `End` all
from the last await of a review to the terminal event: it has no await, so it is
one step, with each way to fail as an alternative. A stream is `Open`ed by the
endpoint, and its generator `Begin`s later. Every write may fail (`Error`), and
`Crash` may leave a snapshot or report half-written. `Restart` is `recover`.

A file that is cut short inside a character of several bytes raises an exception
that `read_progress_snapshot` and `read_trace_progress` do not catch (job_state.py:346,
:507). The variable `garbled` says that the snapshot or the trace of the run is such a
file: the status of a run that has no record in memory cannot be answered (`Readable`),
and a process that ends does not come up again, as `recover` raises (`StartFails`),
until somebody removes the directory, which is not modelled.

`RunPage` is a client from its side: `page` is the state of the hooks
`useReviewRun` and `useReviewRunSSE`, `ask` the requests for the status under way. The
page asks once and connects (`OpenPage`, `Connect`), connects again after a break, polls
after the `Threshold`-th break in a row, and fetches the result when the run is completed. The
effect of the hook runs again when polling begins, which puts the page back to its start.
Answers come in any order, and one to the page of another run may come to this one.

| Run | Bounds | Shows |
|---|---|---|
| `review_runs` (`ReviewRuns.cfg`) | two streams, two crashes, two failed writes; or one stream that is a page's, with one crash, one failed write, one break and two requests at once | `NoZombie`, `CompletedStands`; `EveryStreamEnds`, `OutcomeReached`, `OutcomeShown` |

Two crashes: one in the run and one after recovery; streams do not interact, and
two show that one's end leaves the other. Fairness: coroutines go on, the calls of
a review return or time out, the process is started again; in the browser, timers that
are set go off and requests are answered or fail. Clients may leave or never come.

`OutcomeReached` and `OutcomeShown` leave out by `garbled` the process that cannot come up.
Two things the properties leave out by the history variable `lost`: if `run_job`
cannot write its first snapshot, the record stays running until a restart; if it
cannot write the last one, the terminal event is not published and streams hang.
`OutcomeShown` leaves out by `misled` what the page does not guard against: an answer
that is out of date when it comes, or that was meant for another run, is shown as it is.

docs/v2-api.md:100 says that a completed run has a result. A run is completed if the two
report files exist, also if the write of `report.json` was cut short by a crash or a full
disk, so a completed run may have none; no property states it.

## 7. Review workflow: `ReviewGraph`

One review, from the requirement to its report. `node` is what LangGraph runs next,
`steps` counts its supersteps; `parsed`, `plan`, `risks`, `delivery` and `review` are
the fields of `ReviewState`, each with the round in which it was made and what later
nodes look at (are there items, are they vague, are there tasks, results, a high
ratio, failed reviewers, a call for a person); `trace` has the span of each agent.
`doc` is the requirement as the rules of the code see it: the mode asked for, the
mode found by gating, the reviewers selected and those that will find something
severe. These are functions of the text, so they are chosen once.

Each node is an action. The two parallel nodes, `Planner` and `Risk`, end in any
order, and `MergeBranches` applies their updates, the traces by `merge_state_dicts`.
A full review is three kinds of steps: `FullReview` starts the selected reviewers,
`ReviewerEnds` is the end of one, by its answer or by a timeout or an exception, and
`Aggregate` goes on when all have ended. `RouteDecider` decides on another round. A
model call is what it returns: it fails, answers nothing, or answers. `Raise` is a
node that raises, at any time, and the recursion limit.

| Run | Bounds | Shows |
|---|---|---|
| `review_graph` (`ReviewGraph.cfg`) | three reviewers, the two extra rounds of the code, LangGraph's default limit of 25 | `OneRound`, `NeverCutOff`, `ReportExplained`; `RunEnds` |

`ReportExplained` has three parts: a high risk is reported only after all rounds of
clarification (`HighOnlyAfterRounds`), one found without some reviewers calls for a
person (`PartialHighIsManual`), and a report without results says why
(`EmptyIsExplained`).

Rounds and limit are those of the program, so only the reviewers are bounded: the
two whose findings are read, and one that stands for the others, whose findings only
count as severe. Fairness: model calls return or raise, a reviewer is cut off after
30 seconds (`_DEFAULT_REVIEWER_TIMEOUT_SECONDS`), LangGraph runs what is next.

What the model shows and no property states, because the code promises no more: if
the product reviewer fails, its findings are missing and a requirement that would be
of high risk ends as one without; a person is called only if another reviewer found
something severe (docs/interview-prep-v3.md:557 reads as if any timeout would). A
clarification that fails replaces the items by nothing and ends the rounds.
Both branches return the whole trace, so in a second round the merge brings back the
span of the round before for one of them; `EmptyIsExplained` says what is not lost
by it.

## 8. Around a review: eight components in `MCAroundReview`

What becomes of a report, where documents come from, and what reviews share. Each
module has state of its own (files of a run directory, rows of one table), so the run
checks them side by side, each behaviour moving one of them.

* `Revision`. `report` is what is kept in `report.json` beside the findings: questions,
  answers, the clarification gate, the artifacts of a revision, the roadmap; `stage` is
  `revision_stage.json`, `draft` and `confirmed` the generation that wrote each document.
  `Answer` reads and writes the report in one step, `AnswerWithPatch` holds the report it
  read in `patching` until `EndPatch`; `BeginGeneration` and `EndGeneration` are the two
  sides of the model call, which ends with the stage it read before.
* `WorkspaceVersions`. An operation (`Patch`, `Derive`, `ReviewResult`, `Roadmap`)
  prepares a version and its file, and goes over `StoreVersion`, `ReadWorkspace` and
  `StoreWorkspace` with awaits in between, so that one writes back the row another moved;
  `Abandon` stops it anywhere. A patch takes a `get_workspace` that failed for a workspace
  that is not there and makes a new one (`NewWorkspace`).
* `PatchDocument`. One patch, operation by operation, on the order of the blocks and on
  the map of the blocks, which the code keeps apart until the end.
* `Handoff`. The files of a delivery bundle: build, rebuild, decide, route to executors,
  hand off, report back. The functions are synchronous, but each writes several files, and
  `Die` stands after any of them.
* `Notifications`. A dispatch sends over each channel in turn and records each attempt; a
  retry takes one failed record per id. The web server and the MCP server both do it; an
  answer may be lost after the channel took the note, and a process may die in between.
  `messages` are what a channel made of the notes it took: one that is sent the id with
  each note (`keyed`, the uuid of `FeishuOpenAPISender`) may make none of a second note
  with the same id, although it answers with success.
* `PmConsole`. The steps from feedback to handoff, by single requests and tools, and the
  pipeline that does all of them in one coroutine (`flow`). Repository calls return a
  result that most callers do not look at: a lost write leaves the id `Lost` to be named
  by later rows. Editing a document is a read and a write of the whole row (`editing`).
* `Memory`. Reviews are given memories (`Recall`) and leave up to three in a table
  (`Extract`, `SaveMemory`, `Skip`), with what exists read once. The case file is a JSON file
  that a review reads and writes whole three times: to import seeds before it and after it,
  and with its case (`ReadCases`, `BeginWrite`, `EndWrite`). A write cuts the file to nothing
  first; a death in it (`BreakOff`) leaves what `_load_payload` reads as an empty file, and
  one process may write over what another wrote.
* `Skills`. The skills of delivery planning behind one executor with a cache in memory or
  in SQLite: `Execute` looks up, asks the model, checks the answer (`llm_structured_call`
  with its tool and its text attempts), and stores; `Gather` goes on when all have ended,
  as `asyncio.gather` does. `EditCatalog` and `Redeploy` change what is outside.

| Run | Bounds | Shows |
|---|---|---|
| `around_review` (`AroundReview.cfg`) | as below | type invariant, `RevisionKept`, `Lineage`, `OneOfEach`, `ApprovedWork`, `RecordsTellDelivery`, `EvidenceToDelivery`, `Remembered`, `OwnWork` |

Bounds by component. Revision: two questions, of which one may be answered at length (they
are interchangeable), one patched answer and one generation under way, two drafts. Workspace: two operations at once, three versions, which is one more than
a race needs. Patches: three blocks, two texts, three operations, enough to insert, move
past and delete a block. Handoff: one pack, four decisions (the longest way to an approval
that passes a block and a return), a rebuild, one death. Notifications: two notes that share an id, one
real and one dry channel, two processes, three records, one retry, one death; notes and
processes are alike, so the first dispatch is the web server's. Console:
one row per table and one lost write, two edits at once, or one while a pipeline runs or
after a write was lost (none when both). Memory: two reviews that overlap,
two topics, and two processes at the case file in the mode assist and one scope, as the file
takes no notice of either; `Found` holds one finding of every kind, `RunsAsked` every relation of the
second run to the first (same project, same team, another team, none) in the mode assist, and
two of them in the others (`SecondRuns`). Planning: two
reviews of one requirement, one plan skill and one prompt skill, a cache that expires, one
restart with an older or newer version; the second starts after the first, prompts come out
one way, the cache holds three rows, and with a catalog reviews only search, as nothing of
the search is in the key of a plan. The console stops when its rows are used up, and so does each of
the others: deadlock is not checked (`CHECK_DEADLOCK FALSE`).

What these properties had to leave out says what the code does not promise.
`NothingLost` holds only without a patched answer in flight, which writes back the report
it read before its await. `ConfirmedByHand` names the generation that began while the run
was confirmed and stores that stage again with a new draft. `CasesKept` excepts the cases
that were filed or being filed when a write of the case file was broken off, which leaves
what the next reader takes for an empty file, or met a write of another process
(`endangered`); what is filed after that is kept again. `OnlyOverlapRepeats` lets two reviews that
overlap store the same memory. `RecordsTellDelivery` counts a failed record as a delivery
that may have happened, and of a channel that is sent the ids it only says that a note on
record as dispatched, or another with its id, has a message. `EvidenceToDelivery` says of rows a pipeline names only that
they are stored unless a write was lost. And `llm_structured_call` describes a
text as its fallback, repaired and read as JSON (llm_structured_call.py:9-10), but a
schema that is a class, as those of the skills are, is validated on the text itself: with
a provider without tools no skill of the model succeeds, and planning goes on without.

## 9. Projects, agent and connectors: `MCProjectSpace`

* `Materials`. `sources` are the rows of `project_sources` with version, parent, text and
  checksum, which a row from before that column does not have (`OldRows`, `NoChecksum`);
  `reviews` what each review was given and, after `ResolveInput`
  (`_resolve_requirement_doc`), what it read: the document at the URL if there is one.
* `AgentCommands` extends it. `command` is a row of `agent_commands` with its task,
  `execution` what an execution under way has done and found, `made` how often each effect
  was made. `PostMessage`, `ConfirmTask` and `DismissTask` are the endpoints, `Claim` is
  the claim of `run_command`. `LookUp` and `Create` are the two sides of an await: an
  effect is looked up by the id of the command before it is made. A listing that failed
  counts as one without rows (`(...).value or []`, command_gateway.py:151, :160, :175), so
  that what is there may not be found; `missed` counts how often. `ConnectSource` rewrites
  the newest source with the URL or adds one; `StartReview` compares the checksum the
  command was posted with, unless that is empty. `Finish` overwrites any status, `DismissTask` too, while an
  execution goes on.
* `ConnectorSync`. An edit outside (`EditPages`) emits an event that may come any number of
  times, or never; `Deliver`, `DeliverAnonymous` and `RequestSync` queue a task per page
  under an idempotency key, and a run of a task (`StartSync`, `FetchPage`, `StorePage`,
  `CompleteSync`, `FailSync`) fetches the page and stores a version, with the process dying
  between any two writes.
* `Connections`. The settings of projects with their secrets, encrypted under the master
  key of the process that wrote the row; which secret an event is checked with, and which
  project its task goes to.

| Run | Bounds | Shows |
|---|---|---|
| `project_space` (`ProjectSpace.cfg`) | as below | type invariant, `SourceHistory`, `OnePerCommand`, `TextAsConfirmed`, `NoEventLost`, `SettingsKept` |
| `agent_review` (`AgentReview.cfg`) | two commands | violates `ReviewsWhatWasConfirmed` |
| `connector_secrets` (`ConnectorSecrets.cfg`) | two projects, one event | violates `ProjectSecretCounts` |

A behaviour moves commands with the members' requests (one command of any action with two
tries, or a review, the only one then, beside a connection, with one source each), or members' requests alone
(two sources, one review; here and beside a connection the project may begin with an old row), or the sync (two pages, two edits, two tasks with two runs), or
the connections (GitHub and Notion, two projects, two settings, one event that may come
again, two master keys and none; the first row is that of the first project under the first key, as they are alike). Titles and texts are symmetric. One secret of the
environment is also one that projects may store.

`OnePerCommand` says that a try makes each effect once at most, and of insights,
opportunities and documents that a later try makes another only if the listing it looked
in had failed: the code then does make a second one. A review is started every time a
failed command is tried again, and nothing says otherwise. `AgentCrash` leaves a command running for good: it
can be dismissed, but neither confirmed nor tried again.

`agent_review` is a divergence from command_gateway.py:195, "The PRD source changed after
confirmation": the checksum of the stored text is compared, but the source's URL is passed
on, and the review fetches the document anew. For sources without a URL that had a checksum
when the command was posted `TextAsConfirmed` holds. `connector_secrets` is one from docs/callback-config.md:124: GitHub and Feishu look up
the settings of the project "", so a project's own webhook secret is never used; Notion's
router does look up the project.

## 10. Proofs

The theorems of the eight proof modules hold for every value of the constants that
satisfies the named assumptions: any number of handlers, workers, streams, reviewers,
pages, versions, commands, rows, rounds and faults.

* `PrdGateProofs`. `GateEvidence` alone is not inductive: the handler holds copies.
  The invariant adds what the copies in slots are worth: the outcome a handler is
  about to write was stored, a copy's decision was stored, a handler past its
  guards is an owner's and its copy had a decision that allowed it, a grant of
  ready has one of approved or waived before it. Theorems `TypeCorrect`,
  `EvidenceHolds`, `HumanGate`, `VersionsAdvance`. `AuditHolds`: beside this invariant
  `AuditTrail` is inductive, as what is missing in the log a handler is about to append,
  unless a call failed (`TrailKept`). Three theorems are of one
  handler at a time (`OneAtATime`, as in `prd_gate_serial`): `FreshInv` says that what the
  handler has read is what is there and still passes the guard, from which follow
  `SerialPasses` (a version handed over passed or was waived) and `SerialRefines` (each step
  is a step of `PrdGateSpec` or changes nothing it speaks of). `SerialExports` (no external
  record twice in one place while no database call fails) has `CopyInv`: what exists is on record or about to be,
  and nobody is about to post it again.
* `EvidenceSyncProofs`. `JobsInv` ties runs to running jobs, and names the two ways a
  record may differ from its row while the process is up: the write of the start failed
  (`Hangs`), or that of the end (`EndUnwritten`). `PagesInv` says of
  every cursor held in a run, read or fetched, what it says of the stored one:
  the pages it passes are imported. Both are needed because `mark_sync_failed`
  writes back an old cursor, which is sound only since pages never become
  unimported. Theorems `TypeCorrect`, `JobsAndRunsAgree`, `CursorIsSound`,
  `ConfirmedIsKept`, `DayIsOver`.
* `OpportunityProofs`. `Known` is what stays true of a copy however old it gets:
  its references exist, its status pending or approved means that a submission or
  an approval was stored. It holds because evidence, submissions and approvals
  only grow. `HandlerInv` adds, for each step, which of its copies passed which
  check. Theorems `TypeCorrect`, `ApprovalComesFirst`, `AlwaysGrounded`,
  `DecisionsAreKept`, `ReferencesAreKept`; the last rests on `VisibleShrinks`, an
  argument on cardinalities that a record never comes back into the listing.
* `ReviewRunsProofs`. The invariant ties a coroutine to its record (`TaskInv`), a
  process's things to the process (`ProcessInv`), and "completed" to the existence
  of a report (`ReportInv`), which survives what a record does not; files that cannot be
  read only keep a process from coming up. Theorems
  `TypeCorrect`, `NoRunIsAZombie`, `CompletedIsFinal`.
* `ReviewGraphProofs`. `StepsInv` counts supersteps by node and round, `RoundInv` says
  what is of this round at which node, branches included, `RiskInv` relates ratio,
  rounds and the call for a person, `ExplainedInv` carries the parser's error span
  from the parse over the merge (`MergeKeepsParser`: both branches were given it) to
  the report. Theorems `TypeCorrect`, `ReportOfOneRound`, `HighRiskIsClarified`,
  `PartialCallsForPerson`, `NoResultIsExplained`, `ReportExplains`, which joins the three,
  and `LimitSuffices`, which needs the limit to be at least 7 (`MaxRounds` + 1) + 1: 22 in
  the program.
* `ProjectSpaceProofs`. Commands and members together (`ProjectSpec`): `SourceInv`
  bounds a version by the position of its row, from which versions grow along the parents
  through rollback, whose new number is the greatest of its title (`MaxOf`, by
  well-founded induction on the numbers). `ReviewInv` ties the text of a review to the
  checksum of its command, which no step changes (`CommandsStay`). `ExecutionInv` says that
  an execution has made what comes before its step, and of what it looked up that it found
  it, or there is none, or it is one of those `missed`: nobody else makes an effect of this
  command between `LookUp` and `Create`, because a command with an execution is running or
  dismissed and neither can be claimed. `TriesInv` bounds how often each effect is made, and
  missed, by the tries (`Budget`, `LookUpBudget`). Theorems
  `HistoryIsKept`, `EachEffectOnce`, `ReviewsTheText`, `AgentTypes`, `MaterialsTypes`.
  Connections: what a row reads as depends on the key it was written under and on the key of
  the process. `RowInv` says of the ciphertext itself, whatever the process can read now,
  that it holds what was given last under one of the keys used, or nothing; `EventTaskInv`
  says of an event with a task that its mark is set or its handler died. Theorems
  `ConnectionsTypes`, `SettingsAreKept`. The sync: `SyncTaskInv` says
  of the task of an event that it is for pages the edit changed and, once completed, that
  they are stored no older than the edit; `FlightInv` says so of a run of it, page by page,
  since such a run compares no time; `ProcessedInv` that an event marked as processed has
  its tasks. Theorems `SyncTypes`, `EventsAreKept`. `Components` takes the run's
  specification apart into those of the three, so that all of these hold of it, and with
  them its type invariant (`SpaceTypes`).
* `AroundReviewProofs`, component by component.
  - `WorkspaceVersions`: what is written back is a copy read earlier, so that `EditInv` says
    of what each editor holds (its row, and the copy of the workspace) what
    `VersionRowsInv` and `CurrentFits` say of the tables. It stays true because rows are
    only added (`RowsGrow`). Theorems `WorkspaceTypes`, `LineageHolds`.
  - `PatchDocument`: of the copy that is worked on, the order names each block of the map
    once (`Joined`), through insertion and deletion (`InsertKeeps`, `WithoutOf`); the end
    joins the two again. What the recursive function of `Removed` returns follows from its
    lengths and an induction over a set of numbers (`AllNumbers`). Theorem `OneOfEachHolds`.
  - `Handoff`: `ApprovedWork` is inductive with the types and `unrecorded <= deaths`; its
    lemmas are about suffixes (`SuffixFacts`). Theorems `HandoffTypes`, `ApprovedWorkHolds`.
  - `Notifications`: `RecordsTellDelivery` compares counts. `ToldBy` adds the attempts
    whose record is still to come: what a channel took (`accepted`) is at least what is on
    record as dispatched and held as taken, and at most that with the failed records, the attempts
    whose answer was lost and those that died. Counts of attempts and of records change
    by one (`AttemptsCount`, `RecordsCount`). `MessagesInv` relates what a channel took to
    the messages it made of it. Theorems `NoticesTypes`,
    `RecordsTellDeliveryHolds`.
  - `Memory`: `RowFits` says of the queue of a review that its lessons are distinct and
    differ from those it saw and those it stored, whose ids are <<r, 1>> .. <<r, n>>
    (`FirstIdsCount`: the next id is new); `UseFits` carries what the threshold says of
    scope, type and likeness, by the arithmetic of the scores (`ScoresOf`); `FileInv` says of the
    case file that one review of a process is at it, that who has it open is alone or what
    was at stake is endangered, and that the cases are in the file or in what the one
    writes. Theorems `MemoryTypes`,
    `RememberedHolds`.
  - `Skills`: the key of a row of the cache says all that the handler was given (`RowsInv`);
    a call is asked in the stage of its skill only (`InStage`), so that what a call that is
    done was given is still what the review has (`Own`). Theorems `SkillsTypes`, `OwnWorkHolds`.
  - `Revision`: the property is of steps, and follows for each action from the types.
    Theorems `RevisionTypes`, `RevisionIsKept`.

  `SurroundingComponents` takes the run's specification apart into those of the eight, with
  which `SurroundingTypes` gives the type invariant of the run.
* `PmConsoleProofs`. Rows refer to rows by ids that may be lost, and copies are written
  back, so that the property is stated of all that may become a row: `TablesInv` of the
  tables, `EditsInv` of the copies in edits, `WritingInv` of the documents being generated,
  `FlowInv` and `RecordInv` of the pipeline's coroutine and of its row. Theorems `PmTypes`,
  `EvidenceReachesDelivery`.

The assumptions say of the bounds that they are numbers, of the values that mark an absence
(`NoRow`, `NoCommand`, `NoTask`, `NoFile`, `NoPatch`, `Idle`, `None`) that they are none of
the values they stand beside, and otherwise what the code gives: `TypeOf` gives each note a
type, there is a channel, processes are finitely many (`NotificationsAssumption`); a skill is
for the plan or for the prompt (`SkillsAssumption`); what reviews find has topics, and a run
is in a process (`MemoryAssumption`). A theorem that needs more says so.

A folding operator of the community modules takes an operator as its argument, and so do
`SelectSeq` and `SetToSortSeq`, of which the provers know nothing. Where an order or a
filter matters, the modules therefore write it as a recursive function (`Removed`,
`LatestFailed`) or as the set of its possible results (`FirstOf`, which says of a sorted and
cut list what it may be, ties in any order).

Model-checked only: the liveness properties `BitableCatchesUp`, `EveryStreamEnds`,
`OutcomeReached`, `OutcomeShown` and `RunEnds`, as liveness under fairness and `ENABLED` are
beyond the prover; and the four runs that expect a violation, which a proof cannot show.
Induction over data and `RECURSIVE` operators are beyond it too; no module has one.

## 11. Not modelled

`PROJECT.json` ("components") gives the state of each component and the reason. In short:

* connectors, templates, prompts, packs, evaluation and the bot are I/O, lookups or
  formatting; the texts of reviews come from a language model;
* products, roadmap items and delivery issues of the console, projects and members, the
  timeline and the scores of a roadmap are single rows that nothing else reads;
* the quality engine is a nondeterministic outcome of `RunQuality`, and how a decision
  follows from a review is left for later, with the selective rerun of a workspace;
* command line, most MCP tools and most pages of the front end call the services above once
  and show the answer.

Of the modelled components: the payload of evidence and PRDs, the audit logs of
the evidence sync and of opportunities and traceability edges are left out, as no
property depends on them. SQLite is taken at its word: a call is one transaction
that happens or fails, except an external post and a notification, which may fail
after they took effect. Where the code meets such a failure it is in the model: a queue
write that raises after the record was changed (`EvidenceSync`), a listing that failed and
reads as empty (`AgentCommands`, `Opportunity`), a result nobody looks at (`PrdGate`,
`WorkspaceVersions`, `PmConsole`). Files are written in place: a case file cut short reads
as empty (`Memory`), a report or snapshot cut short as torn or not at all (`ReviewRuns`).
