----------------------------- MODULE Connections -----------------------------
(***************************************************************************)
(* The connector settings of a project (integrations/*/config_store.py and *)
(* config_routes.py) and what webhooks and syncs read of them: which       *)
(* secret an event is checked with, and which project its task goes to.    *)
(*                                                                         *)
(* All secrets of a row are one ciphertext under the master key of the     *)
(* process; what cannot be decrypted reads as empty.  A behaviour follows  *)
(* one provider, whose rows are apart from the others'.  Handlers do not   *)
(* await, so each is one step; the process may die between the task of an  *)
(* event and its mark.  Of the secrets there is one a connector logs in    *)
(* with and one that events are signed with; app ids, URLs and titles,     *)
(* which are kept or replaced in the same way, are left out.               *)
(* Bounds: MaxPuts, MaxEvents.                                             *)
(***************************************************************************)
EXTENDS Naturals, Sequences

CONSTANTS
  Providers,
  Projects,
  Docs,            \* documents, repositories or pages that projects map
  Secrets,
  Unset,           \* a secret that is not there: not named, or empty
  Environment,     \* the secrets of the environment, by role
  Checked,         \* signatures are checked: *_SIGNATURE_DISABLED is false
  MasterKeys,
  NoKey,           \* MARRDP_SECRETS_MASTER_KEY is not set
  NoRow,
  MaxPuts,
  MaxEvents

VARIABLES
  provider,
  master,          \* the master key of the process, or NoKey
  rows,            \* connector_configs, by project
  events,          \* webhook events: their document, and the secret they are signed with
  queued,          \* sync_tasks of events: [event, project]
  marked,          \* processed_events
  given,           \* history: the secret a request named last, by project and role
  keysUsed,        \* history: the keys the row of a project was written under
  cut,             \* history: events whose handler died before the mark
  puts

connectionVars ==
  <<provider, master, rows, events, queued, marked, given, keysUsed, cut, puts>>

-----------------------------------------------------------------------------
Roles  == {"credential", "signing"}
Values == Secrets \cup {Unset}
Blank  == [r \in Roles |-> Unset]

\* A row: all its secrets, the master key they are encrypted under, and what it maps.
ConnectorRows == [secrets : [Roles -> Values], key : MasterKeys, docs : SUBSET Docs]

ASSUME ConnectionsAssumption ==
  MaxPuts \in Nat /\ MaxEvents \in Nat /\ NoRow \notin ConnectorRows

ConnectionsInit ==
  /\ provider \in Providers
  /\ master \in MasterKeys \cup {NoKey}
  /\ rows = [p \in Projects |-> NoRow]
  /\ events = << >>
  /\ queued = {} /\ marked = {}
  /\ given = [p \in Projects |-> Blank]
  /\ keysUsed = [p \in Projects |-> {}]
  /\ cut = {}
  /\ puts = 0

\* _decrypt_secrets: under another key, or none, the decryption raises and the token itself
\* is parsed, which gives empty secrets.
Readable(p) ==
  IF rows[p] # NoRow /\ rows[p].key = master THEN rows[p].secrets ELSE Blank

\* resolved_*: of the row, or else of the environment.
OrEnvironment(secret, role) == IF secret = Unset THEN Environment[role] ELSE secret

Mapped(p) == IF rows[p] = NoRow THEN {} ELSE rows[p].docs

\* What a request may name: any of the secrets, and all the mappings, or none of them.
NamedSecrets == [Roles -> Values]
NamedDocs(p) == {Mapped(p)} \cup SUBSET Docs

\* Mutation: the secrets are replaced by those that were named.
Merged_Replace(p, named) == named

\* The secrets after a request that names some: an empty one is as one not named.
Merged(p, named) == [r \in Roles |-> IF named[r] = Unset THEN Readable(p)[r] ELSE named[r]]

\* All secrets are encrypted anew, under the key of the process.
NewRow(secrets, docs) == [secrets |-> secrets, key |-> master, docs |-> docs]

\* upsert: without a key the encryption raises, whatever the request is about.
WriteRow(p, secrets, docs) ==
  /\ master # NoKey
  /\ rows' = [rows EXCEPT ![p] = NewRow(secrets, docs)]
  /\ keysUsed' = [keysUsed EXCEPT ![p] = @ \cup {master}]

\* PUT /projects/{id}/connectors/*: mappings are replaced if they are named.
PutConfig(p) ==
  /\ puts < MaxPuts
  /\ \E named \in NamedSecrets, docs \in NamedDocs(p) :
       /\ WriteRow(p, Merged(p, named), docs)
       /\ given' = [given EXCEPT ![p] =
            [r \in Roles |-> IF named[r] = Unset THEN @[r] ELSE named[r]]]
  /\ puts' = puts + 1
  /\ UNCHANGED <<provider, master, events, queued, marked, cut>>

\* The token the notion handler fetches pages with.
Credential(p) == OrEnvironment(Readable(p)["credential"], "credential")

\* touch_last_synced_at, after a sync that had a token: the row is written back as it reads.
TouchSynced(p) ==
  /\ provider = "notion"
  /\ Credential(p) # Unset
  /\ WriteRow(p, Readable(p), Mapped(p))
  /\ UNCHANGED <<provider, master, events, queued, marked, given, cut, puts>>

\* The process is started again, perhaps with another key.
RestartWith(key) ==
  /\ master' = key
  /\ UNCHANGED <<provider, rows, events, queued, marked, given, keysUsed, cut, puts>>

-----------------------------------------------------------------------------
\* Somebody edits a document; the provider signs the event with the secret it has.
EmitEvent ==
  /\ Len(events) < MaxEvents
  /\ \E d \in Docs, s \in Secrets : events' = Append(events, [doc |-> d, signed |-> s])
  /\ UNCHANGED <<provider, master, rows, queued, marked, given, keysUsed, cut, puts>>

\* find_project_for_*: the row of any project that maps the document; which one comes
\* first is left to the database.
Homes(d) == {p \in Projects : d \in Mapped(p)}

\* _resolve_event_security_settings of notion: the project the page is mapped by.
NotionSecret(p) == OrEnvironment(Readable(p)["signing"], "signing")

\* _resolve_event_security_settings of feishu and github read the row of the project "",
\* which no request can write: the environment decides.
SharedSecret == Environment["signing"]

\* The digest in the header is that of the body under the secret.
SignedWith(n, secret) == events[n].signed = secret

\* verify_*_signature: without a secret to check with, the event is refused.
NotionAccepts(n, p) == NotionSecret(p) # Unset /\ SignedWith(n, NotionSecret(p))
SharedAccepts(n)    == SharedSecret # Unset /\ SignedWith(n, SharedSecret)

\* get_*_security_settings: signatures are checked, or none is.
Accepted(n, p) ==
  Checked => IF provider = "notion" THEN NotionAccepts(n, p) ELSE SharedAccepts(n)

\* POST /api/*/events, of a mapped document: the task, then the mark; the process may die
\* in between, and the provider sends the event again.
DeliverEvent(n) ==
  /\ n \notin marked
  /\ \E p \in Homes(events[n].doc) :
       /\ Accepted(n, p)
       /\ queued' = queued \cup {[event |-> n, project |-> p]}
  /\ \/ marked' = marked \cup {n} /\ UNCHANGED cut
     \/ cut' = cut \cup {n} /\ UNCHANGED marked
  /\ UNCHANGED <<provider, master, rows, events, given, keysUsed, puts>>

ConnectionsNext ==
  \/ \E p \in Projects : PutConfig(p) \/ TouchSynced(p)
  \/ \E key \in MasterKeys \cup {NoKey} : RestartWith(key)
  \/ EmitEvent
  \/ \E n \in DOMAIN events : DeliverEvent(n)

ConnectionsSpec == ConnectionsInit /\ [][ConnectionsNext]_connectionVars

-----------------------------------------------------------------------------
\* The values the variables range over.
ConnectionsTypeOK ==
  /\ provider \in Providers
  /\ master \in MasterKeys \cup {NoKey}
  /\ rows \in [Projects -> ConnectorRows \cup {NoRow}]
  /\ events \in Seq([doc : Docs, signed : Secrets])
  /\ queued \subseteq [event : DOMAIN events, project : Projects]
  /\ marked \subseteq DOMAIN events /\ cut \subseteq DOMAIN events
  /\ given \in [Projects -> [Roles -> Values]]
  /\ keysUsed \in [Projects -> SUBSET MasterKeys]
  /\ puts \in 0 .. MaxPuts

\* A secret reads as it was given last or as empty, never as an older one; and as it was
\* given as long as nothing, not even the end of a sync, wrote the row under another key,
\* however often the process ran with another key or with none meanwhile.
SecretsKept ==
  \A p \in Projects, r \in Roles :
    /\ Readable(p)[r] \in {given[p][r], Unset}
    /\ keysUsed[p] = {master} => Readable(p)[r] = given[p][r]

\* An event has its task in one project, even when the mapping moves while the event is
\* sent again, unless its handler died between task and mark.
OneHome ==
  \A t, u \in queued :
    t.event = u.event /\ t.project # u.project => t.event \in cut

\* What the settings of projects promise about secrets and events.
SettingsKept == SecretsKept /\ OneHome

\* "Per-project webhook secrets stored in project-space config take precedence over the
\* global env secret" (docs/callback-config.md): an event that is signed with the secret of
\* the only project that maps its document is accepted.
ProjectSecretCounts ==
  \A n \in DOMAIN events, p \in Projects :
    Homes(events[n].doc) = {p} /\ Readable(p)["signing"] = events[n].signed => Accepted(n, p)
=============================================================================
