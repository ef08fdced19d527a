-------------------------- MODULE WorkspaceVersions --------------------------
(***************************************************************************)
(* The versions of one document in a workspace, and of its review results: *)
(* rows of artifact_versions, the row of the workspace with its current    *)
(* version per artifact, and the files the versions point to               *)
(* (workspace/artifact_repository.py, workspace_repository.py,             *)
(* service/artifact_patch_service.py, artifact_service.py, server/app.py). *)
(*                                                                         *)
(* Four operations add to it, each over several calls of the repositories  *)
(* with awaits in between: a patch, a derived draft, the result of a       *)
(* review, and a new roadmap.  A repository call is one transaction.       *)
(*                                                                         *)
(* Bounds: Editors (operations under way), MaxVersions (version ids).      *)
(***************************************************************************)
EXTENDS Naturals, FiniteSetsExt

CONSTANTS
  Editors,
  MaxVersions,
  NoRow            \* no version row, or no editor's work

VARIABLES
  versionRows,     \* artifact_versions: a row per id, or NoRow
  workspace,       \* the row of the workspace
  contents,        \* the files: for each document version, the id whose text it holds
  edit,            \* what each editor holds, or NoRow
  issued           \* ids given out

workspaceVars == <<versionRows, workspace, contents, edit, issued>>

-----------------------------------------------------------------------------
Ids  == 1 .. MaxVersions
Keys == {"document", "review_result"}

\* A version: its artifact, its number there, the version it comes from (0: none) and
\* the document version in the file it points to.
VersionRow == [key : Keys, number : Ids, parent : 0 .. MaxVersions, file : 0 .. MaxVersions]

\* WorkspaceState: current_version_ids and the roadmap in its metadata.
Workspaces == [current : [Keys -> 0 .. MaxVersions], roadmap : 0 .. 1]

Stored(i) == versionRows[i] # NoRow
Of(key)   == {i \in Ids : Stored(i) /\ versionRows[i].key = key}
Latest(S) == Max({0} \cup {versionRows[i].number : i \in S})

\* What an editor holds: its operation, the call that is next, and the version and the copy
\* of the workspace to be stored.
Edits ==
  [op : {"patch", "derive", "review", "roadmap"}, at : {"version", "read", "workspace"},
   id : 0 .. MaxVersions, row : VersionRow, copy : Workspaces]

ASSUME WorkspaceAssumption ==
  MaxVersions \in Nat \ {0} /\ NoRow \notin VersionRow \cup Edits

WorkspaceInit ==
  /\ versionRows = [i \in Ids |-> IF i = 1
                      THEN [key |-> "document", number |-> 1, parent |-> 0, file |-> 1]
                      ELSE NoRow]
  /\ workspace = [current |-> [k \in Keys |-> IF k = "document" THEN 1 ELSE 0], roadmap |-> 0]
  /\ contents = [n \in Ids |-> IF n = 1 THEN 1 ELSE 0]
  /\ edit = [e \in Editors |-> NoRow]
  /\ issued = 1

\* e begins to add version v, read from version src.
Begin(e, op, row) ==
  /\ edit[e] = NoRow /\ issued < MaxVersions
  /\ issued' = issued + 1
  /\ edit' = [edit EXCEPT ![e] = [op |-> op, at |-> "version", id |-> issued', row |-> row,
                                  copy |-> workspace]]

\* apply_artifact_patch_async up to upsert_version, for a patch that applies: the base is
\* the version the caller named, which need not be the latest, and the file of the next
\* document version is written whether or not it is there.
Patch(e, src) ==
  /\ Stored(src) /\ versionRows[src].key = "document"
  /\ LET file == versionRows[src].file + 1
     IN  /\ file <= MaxVersions
         /\ Begin(e, "patch", [key |-> "document", number |-> versionRows[src].number + 1,
                               parent |-> src, file |-> file])
         /\ contents' = [contents EXCEPT ![file] = issued']
  /\ UNCHANGED <<versionRows, workspace>>

\* _derive_feishu_workspace_version, _build_review_result_version: one more than the
\* highest number among the rows that were read.
NextNumber(key) == Latest(Of(key)) + 1

\* _derive_feishu_workspace_version: a draft that points to the file of its source; the
\* workspace is read here, before the version is stored.
Derive(e, src) ==
  /\ Stored(src)
  /\ Begin(e, "derive", [versionRows[src] EXCEPT !.number = NextNumber(versionRows[src].key),
                                                 !.parent = src])
  /\ UNCHANGED <<versionRows, workspace, contents>>

\* _build_review_result_version, after the review of a version; its parent is the latest
\* result by list_versions_by_artifact.
ReviewResult(e) ==
  /\ LET key == "review_result"
         last == {i \in Of(key) : versionRows[i].number = Latest(Of(key))}
     IN  \E p \in IF last = {} THEN {0} ELSE last :
           Begin(e, "review", [key |-> key, number |-> NextNumber(key), parent |-> p, file |-> 0])
  /\ UNCHANGED <<versionRows, workspace, contents>>

\* _update_feishu_workspace_roadmap reads the workspace.
Roadmap(e) ==
  /\ edit[e] = NoRow
  /\ edit' = [edit EXCEPT ![e] = [op |-> "roadmap", at |-> "workspace", id |-> 0,
                                  row |-> versionRows[1], copy |-> workspace]]
  /\ UNCHANGED <<versionRows, workspace, contents, issued>>

-----------------------------------------------------------------------------
\* upsert_version.  A derivation has read the workspace already, and does not look at
\* whether the call failed.
StoreVersion(e) ==
  /\ edit[e] # NoRow /\ edit[e].at = "version"
  /\ \/ versionRows' = [versionRows EXCEPT ![edit[e].id] = edit[e].row]
     \/ edit[e].op = "derive" /\ UNCHANGED versionRows
  /\ edit' = [edit EXCEPT ![e].at = IF edit[e].op = "derive" THEN "workspace" ELSE "read"]
  /\ UNCHANGED <<workspace, contents, issued>>

\* A workspace made anew, by _build_workspace_state: no other current version, no roadmap.
NewWorkspace == [current |-> [k \in Keys |-> 0], roadmap |-> 0]

\* get_workspace.  A patch takes a call that failed for a workspace that is not there; a
\* review gives up then.
ReadWorkspace(e) ==
  /\ edit[e] # NoRow /\ edit[e].at = "read"
  /\ \E copy \in {workspace} \cup (IF edit[e].op = "patch" THEN {NewWorkspace} ELSE {}) :
       edit' = [edit EXCEPT ![e].at = "workspace", ![e].copy = copy]
  /\ UNCHANGED <<versionRows, workspace, contents, issued>>

\* _build_workspace_state, register_version: the copy with the new version made current;
\* for a roadmap, the copy with the roadmap.
Changed(w) ==
  IF w.op = "roadmap" THEN [w.copy EXCEPT !.roadmap = 1]
  ELSE [w.copy EXCEPT !.current[w.row.key] = w.id]

\* Mutation: upsert_workspace writes the row of the workspace only.
StoreWorkspace_RowOnly(e) ==
  /\ edit[e] # NoRow /\ edit[e].at = "workspace"
  /\ workspace' = Changed(edit[e])
  /\ edit' = [edit EXCEPT ![e] = NoRow]
  /\ UNCHANGED <<versionRows, contents, issued>>

\* upsert_workspace writes the whole copy, and with it the versions it lists: the new
\* one, and the others as they were.
StoreWorkspace(e) ==
  /\ edit[e] # NoRow /\ edit[e].at = "workspace"
  /\ workspace' = Changed(edit[e])
  /\ versionRows' = IF edit[e].op = "roadmap" THEN versionRows
                    ELSE [versionRows EXCEPT ![edit[e].id] = edit[e].row]
  /\ edit' = [edit EXCEPT ![e] = NoRow]
  /\ UNCHANGED <<contents, issued>>

\* A repository call fails, or the process dies: what is stored so far stays.
Abandon(e) ==
  /\ edit[e] # NoRow
  /\ edit' = [edit EXCEPT ![e] = NoRow]
  /\ UNCHANGED <<versionRows, workspace, contents, issued>>

WorkspaceNext ==
  \E e \in Editors :
    \/ \E src \in Ids : Patch(e, src) \/ Derive(e, src)
    \/ ReviewResult(e) \/ Roadmap(e)
    \/ StoreVersion(e) \/ ReadWorkspace(e) \/ StoreWorkspace(e) \/ Abandon(e)

WorkspaceSpec == WorkspaceInit /\ [][WorkspaceNext]_workspaceVars

-----------------------------------------------------------------------------
\* The values the variables range over.
WorkspaceTypeOK ==
  /\ versionRows \in [Ids -> VersionRow \cup {NoRow}]
  /\ workspace \in Workspaces
  /\ contents \in [Ids -> 0 .. MaxVersions]
  /\ edit \in [Editors -> Edits \cup {NoRow}]
  /\ issued \in Ids

\* Whatever copies of the workspace are written back over each other, and wherever an
\* operation stops: the current version of an artifact is a stored version of it (with
\* any other validate_current_version_ids could never load the workspace again), a version
\* of the document has its file, and its number is higher than that of the version it
\* comes from, which is stored and belongs to the same artifact.
Lineage ==
  /\ \A k \in Keys : workspace.current[k] # 0 =>
       Stored(workspace.current[k]) /\ versionRows[workspace.current[k]].key = k
  /\ \A i \in Ids : Stored(i) /\ versionRows[i].parent # 0 =>
       LET p == versionRows[i].parent
       IN  Stored(p) /\ versionRows[p].key = versionRows[i].key
             /\ versionRows[p].number < versionRows[i].number
  /\ \A i \in Of("document") : contents[versionRows[i].file] # 0
=============================================================================
