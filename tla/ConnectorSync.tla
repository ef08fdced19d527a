---------------------------- MODULE ConnectorSync ----------------------------
(***************************************************************************)
(* The sync of mapped pages, files and issues of a connected system into   *)
(* the sources of a project (connectors/sync, connectors/notion_sync.py    *)
(* and its siblings, integrations/*/events.py): an edit outside emits an   *)
(* event, its webhook queues a task per page under an idempotency key, and *)
(* running the task fetches the page and stores a version of it.           *)
(*                                                                         *)
(* Events are lost, repeated and reordered, and may come without an id.    *)
(* No code under src/ runs the tasks: a caller from outside does, one task *)
(* after the other.  The handlers are synchronous, but edits outside go on *)
(* and the process may die between two writes.  An edit is numbered by the *)
(* time it was made, and so is its event.  connector_health and the events *)
(* of the timeline, which are only shown, are left out.  Bounds: MaxEdits, *)
(* MaxTasks, MaxRuns.                                                      *)
(***************************************************************************)
EXTENDS Naturals, SequencesExt, FiniteSetsExt

CONSTANTS
  Pages,
  MaxEdits,
  MaxTasks,
  MaxRuns,        \* runs of one task
  DefaultAttempts, \* DEFAULT_MAX_ATTEMPTS
  NoTask,
  Webhook,        \* the suffix of the key of an event without an id
  Manual          \* the key suffix of a sync that somebody asks for

VARIABLES
  edits,          \* the pages changed by each edit, the newest last
  processed,      \* processed_events: numbers of events
  syncTasks,      \* sync_tasks by their idempotency key, or NoTask
  flights,        \* what the run of a task has done so far, or NoTask
  versions,       \* of each page, the newest edit whose text a stored version has
  lastSynced      \* last_synced_at of the configuration

syncVars == <<edits, processed, syncTasks, flights, versions, lastSynced>>

-----------------------------------------------------------------------------
Now == Len(edits)

\* build_sync_idempotency_key: of some pages, all of them for a sync without resource.
Keys ==
  [pages : {{p} : p \in Pages}, suffix : (1 .. MaxEdits) \cup {Webhook, Manual}]
    \cup [pages : {Pages}, suffix : {Manual}]

\* The newest edit of a page; 0: none.
LastEdit(p) == Max({0} \cup {n \in DOMAIN edits : p \in edits[n]})

Queued(k) == syncTasks[k] # NoTask
Flying(k) == flights[k] # NoTask

SyncStatus == {"pending", "running", "completed", "failed", "retry_scheduled"}

\* A task; what a run of one has done: the pages that are left, what it fetched and has yet
\* to store, whether it stored a version, and the time it compares edits with.
Tasks == [status : SyncStatus, attempts : 0 .. MaxRuns]
Flights ==
  [left : SUBSET Pages, got : SUBSET [page : Pages, edit : 0 .. MaxEdits],
   stored : BOOLEAN, since : 0 .. MaxEdits]

ASSUME SyncAssumption ==
  /\ MaxEdits \in Nat /\ MaxRuns \in Nat
  /\ NoTask \notin Tasks \cup Flights
  /\ Webhook \notin 1 .. MaxEdits /\ Manual \notin 1 .. MaxEdits

SyncInit ==
  /\ edits = << >>
  /\ processed = {}
  /\ syncTasks = [k \in Keys |-> NoTask]
  /\ flights = [k \in Keys |-> NoTask]
  /\ versions = [p \in Pages |-> 0]
  /\ lastSynced = 0

\* Somebody edits pages outside; a push changes several.
EditPages ==
  /\ Now < MaxEdits
  /\ \E changed \in SUBSET Pages \ {{}} : edits' = Append(edits, changed)
  /\ UNCHANGED <<processed, syncTasks, flights, versions, lastSynced>>

\* enqueue_sync_task: a key that is there, whatever became of its task, is left alone.
Enqueued(keys) ==
  [k \in Keys |-> IF k \in keys /\ ~ Queued(k) THEN [status |-> "pending", attempts |-> 0]
                  ELSE syncTasks[k]]

EnqueueTasks(keys) ==
  /\ Cardinality({k \in Keys : Queued(k)} \cup keys) <= MaxTasks
  /\ syncTasks' = Enqueued(keys)

EventKeys(pages, suffix) == {[pages |-> {p}, suffix |-> suffix] : p \in pages}

\* Mutation: the event is marked before its tasks are queued.
Deliver_MarkFirst(n) ==
  /\ n \notin processed
  /\ processed' = processed \cup {n}
  /\ \E pages \in SUBSET edits[n] : EnqueueTasks(EventKeys(pages, n))
  /\ UNCHANGED <<edits, flights, versions, lastSynced>>

\* handle_*_event_payload, an event with an id that was not processed: a task for each
\* page, and then the event is marked.  The process may die between two of them.
Deliver(n) ==
  /\ n \notin processed
  /\ \/ /\ EnqueueTasks(EventKeys(edits[n], n))
        /\ processed' = processed \cup {n}
     \/ /\ \E pages \in SUBSET edits[n] : EnqueueTasks(EventKeys(pages, n))
        /\ UNCHANGED processed
  /\ UNCHANGED <<edits, flights, versions, lastSynced>>

\* handle_*_event_payload, an event without an id: one key per page for all of them.
DeliverAnonymous(n) ==
  /\ EnqueueTasks(EventKeys(edits[n], Webhook))
  /\ UNCHANGED <<edits, processed, flights, versions, lastSynced>>

\* enqueue_project_connector_sync, of one page or of all.
RequestSync(pages) ==
  /\ EnqueueTasks({[pages |-> pages, suffix |-> Manual]})
  /\ UNCHANGED <<edits, processed, flights, versions, lastSynced>>

-----------------------------------------------------------------------------
\* run_sync_task, whatever the status is; the notion handler reads the configuration.
StartSync(k) ==
  /\ Queued(k) /\ \A other \in Keys : ~ Flying(other)
  /\ syncTasks[k].attempts < MaxRuns
  /\ syncTasks' = [syncTasks EXCEPT ![k].status = "running", ![k].attempts = @ + 1]
  /\ flights' = [flights EXCEPT ![k] =
       [left |-> k.pages, got |-> {}, stored |-> FALSE,
        since |-> IF k.suffix = Manual THEN lastSynced ELSE 0]]
  /\ UNCHANGED <<edits, processed, versions, lastSynced>>

\* _sync_single_page: the page is fetched, and skipped if it was not edited since.
FetchPage(k, p) ==
  /\ Flying(k) /\ flights[k].got = {} /\ p \in flights[k].left
  /\ flights' = IF flights[k].since > 0 /\ LastEdit(p) <= flights[k].since
                THEN [flights EXCEPT ![k].left = @ \ {p}]
                ELSE [flights EXCEPT ![k].got = {[page |-> p, edit |-> LastEdit(p)]}]
  /\ UNCHANGED <<edits, processed, syncTasks, versions, lastSynced>>

\* _sync_single_page: create_source_version of what was fetched.
StorePage(k) ==
  /\ Flying(k)
  /\ \E g \in flights[k].got :
       /\ versions' = [versions EXCEPT ![g.page] = Max({@, g.edit})]
       /\ flights' = [flights EXCEPT ![k].left = @ \ {g.page}, ![k].got = {}, ![k].stored = TRUE]
  /\ UNCHANGED <<edits, processed, syncTasks, lastSynced>>

\* The handler touches the configuration, unless its only page was skipped; the task is
\* completed.
CompleteSync(k) ==
  /\ Flying(k) /\ flights[k].left = {}
  /\ lastSynced' = IF flights[k].stored \/ k.pages = Pages THEN Now ELSE lastSynced
  /\ syncTasks' = [syncTasks EXCEPT ![k].status = "completed"]
  /\ flights' = [flights EXCEPT ![k] = NoTask]
  /\ UNCHANGED <<edits, processed, versions>>

\* The connector or the store raises.
FailSync(k) ==
  /\ Flying(k)
  /\ syncTasks' = [syncTasks EXCEPT ![k].status =
       IF syncTasks[k].attempts >= DefaultAttempts THEN "failed" ELSE "retry_scheduled"]
  /\ flights' = [flights EXCEPT ![k] = NoTask]
  /\ UNCHANGED <<edits, processed, versions, lastSynced>>

\* The process dies: a task that was running stays so, and may be run again.
SyncCrash ==
  /\ flights' = [k \in Keys |-> NoTask]
  /\ UNCHANGED <<edits, processed, syncTasks, versions, lastSynced>>

SyncNext ==
  \/ EditPages
  \/ \E n \in DOMAIN edits : Deliver(n) \/ DeliverAnonymous(n)
  \/ \E pages \in {Pages} \cup {{p} : p \in Pages} : RequestSync(pages)
  \/ \E k \in Keys :
       \/ StartSync(k)
       \/ \E p \in Pages : FetchPage(k, p)
       \/ StorePage(k) \/ CompleteSync(k) \/ FailSync(k)
  \/ SyncCrash

SyncSpec == SyncInit /\ [][SyncNext]_syncVars

-----------------------------------------------------------------------------
\* The values the variables range over.
SyncTypeOK ==
  /\ edits \in Seq(SUBSET Pages \ {{}}) /\ Len(edits) <= MaxEdits
  /\ processed \subseteq DOMAIN edits
  /\ syncTasks \in [Keys -> Tasks \cup {NoTask}]
  /\ flights \in [Keys -> Flights \cup {NoTask}]
  /\ versions \in [Pages -> 0 .. MaxEdits]
  /\ lastSynced \in 0 .. Now

\* However events are lost, repeated and reordered and wherever the process dies: an event
\* that is called processed has its task for every page it changed, and a page whose task
\* is called completed has a stored version of that edit or of a later one.
NoEventLost ==
  \A n \in DOMAIN edits : \A p \in edits[n] :
    LET k == [pages |-> {p}, suffix |-> n]
    IN  /\ n \in processed => Queued(k)
        /\ Queued(k) /\ syncTasks[k].status = "completed" =>
             versions[p] >= n
=============================================================================
