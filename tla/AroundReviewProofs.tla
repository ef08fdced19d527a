------------------------- MODULE AroundReviewProofs -------------------------
(***************************************************************************)
(* Theorems about what surrounds the review: the artifact workspace, patch *)
(* documents, handoff, delivery planning, revision, notifications and      *)
(* memory, each by an inductive invariant of its own, and about all of     *)
(* them together.                                                          *)
(***************************************************************************)
EXTENDS MCAroundReview, PmConsoleProofs, WellFoundedInduction, FiniteSetTheorems

LEMMA MaxOf ==
  ASSUME NEW N \in Nat, NEW S \in SUBSET (0 .. N), S # {}
  PROVE  Max(S) \in S /\ \A x \in S : x <= Max(S)
<1> DEFINE R == OpToRel(<, Nat)
           T == {N - x : x \in S}
<1>1. T \subseteq Nat /\ T # {}
  <2>1. \A x \in S : N - x \in Nat OBVIOUS
  <2>2. PICK x \in S : TRUE OBVIOUS
  <2>3. N - x \in T OBVIOUS
  <2> QED BY <2>1, <2>3
<1>2. PICK t \in T : \A y \in T : ~ (<<y, t>> \in R)
  <2> HIDE DEF R, T
  <2>1. IsWellFoundedOn(R, Nat) BY NatLessThanWellFounded DEF R
  <2> QED BY <1>1, <2>1, WFMin
<1>3. \A y \in T : t <= y
  <2> SUFFICES ASSUME NEW y \in T PROVE t <= y OBVIOUS
  <2>1. y \in Nat /\ t \in Nat BY <1>1, <1>2
  <2>2. ~ (y < t) BY <1>2, <2>1 DEF OpToRel
  <2> HIDE DEF T
  <2> QED BY <2>1, <2>2
<1>4. PICK m \in S : t = N - m
  BY <1>2
<1>5. \A x \in S : m >= x
  BY <1>3, <1>4
<1> QED BY <1>5 DEF Max

-----------------------------------------------------------------------------
(* WorkspaceVersions: the inductive invariant. *)

\* What is said of a version is said of the rows that editors hold as well: the version it
\* comes from is stored, with a smaller number, and a version of the document has a file.
VersionRowFits(versions, files, row, id) ==
  /\ row.number <= id
  /\ row.parent # 0 =>
       versions[row.parent] # NoRow /\ versions[row.parent].key = row.key
         /\ versions[row.parent].number < row.number
  /\ row.key = "document" => row.file \in Ids /\ files[row.file] # 0

\* A copy of the workspace, however old, names stored versions.
CurrentFits(versions, w) ==
  \A k \in Keys : w.current[k] # 0 => versions[w.current[k]] # NoRow /\ versions[w.current[k]].key = k

VersionRowsInv ==
  /\ Stored(1)
  /\ \A i \in Ids : Stored(i) => i <= issued /\ VersionRowFits(versionRows, contents, versionRows[i], i)

Adds(e) == edit[e] # NoRow /\ edit[e].op # "roadmap"

\* An id is one editor's, and what is stored under it is what that editor holds.
EditInv ==
  \A e \in Editors :
    /\ edit[e] # NoRow => CurrentFits(versionRows, edit[e].copy)
    /\ edit[e] # NoRow /\ edit[e].op = "roadmap" => edit[e].at = "workspace"
    /\ Adds(e) =>
         /\ edit[e].id \in 1 .. issued
         /\ VersionRowFits(versionRows, contents, edit[e].row, edit[e].id)
         /\ Stored(edit[e].id) => versionRows[edit[e].id] = edit[e].row
         /\ \A f \in Editors : Adds(f) /\ f # e => edit[f].id # edit[e].id

WorkspaceInv ==
  WorkspaceTypeOK /\ CurrentFits(versionRows, workspace) /\ VersionRowsInv /\ EditInv

\* Versions stay as they are once they are stored, and a file is never taken away.
RowsGrow ==
  /\ \A i \in Ids : Stored(i) => versionRows'[i] = versionRows[i]
  /\ \A n \in Ids : contents[n] # 0 => contents'[n] # 0

LEMMA FitsStays ==
  ASSUME RowsGrow, NEW row \in VersionRow, NEW id, VersionRowFits(versionRows, contents, row, id)
  PROVE  VersionRowFits(versionRows', contents', row, id)
<1>1. row.parent # 0 => row.parent \in Ids
  BY WorkspaceAssumption DEF VersionRow, Ids
<1>2. row.parent # 0 => versionRows'[row.parent] = versionRows[row.parent]
  BY <1>1 DEF VersionRowFits, RowsGrow, Stored
<1> QED BY <1>2 DEF VersionRowFits, RowsGrow

LEMMA CurrentStays ==
  ASSUME RowsGrow, NEW w \in Workspaces, CurrentFits(versionRows, w)
  PROVE  CurrentFits(versionRows', w)
<1> SUFFICES ASSUME NEW k \in Keys, w.current[k] # 0
             PROVE  versionRows'[w.current[k]] # NoRow /\ versionRows'[w.current[k]].key = k
  BY DEF CurrentFits
<1>1. w.current[k] \in Ids BY WorkspaceAssumption DEF Workspaces, Ids
<1>2. versionRows'[w.current[k]] = versionRows[w.current[k]]
  BY <1>1 DEF CurrentFits, RowsGrow, Stored
<1> QED BY <1>2 DEF CurrentFits

LEMMA StoredRow ==
  ASSUME WorkspaceTypeOK, NEW i \in Ids, Stored(i)
  PROVE  versionRows[i] \in VersionRow
BY DEF WorkspaceTypeOK, Stored

LEMMA HeldEdit ==
  ASSUME WorkspaceTypeOK, NEW e \in Editors, edit[e] # NoRow
  PROVE  edit[e] \in Edits /\ edit[e].row \in VersionRow /\ edit[e].copy \in Workspaces
         /\ edit[e].id \in 0 .. MaxVersions
BY DEF WorkspaceTypeOK, Edits

\* The numbers of an artifact are at most the ids given out.
LEMMA LatestFits ==
  ASSUME WorkspaceTypeOK, VersionRowsInv, NEW key \in Keys
  PROVE  /\ Latest(Of(key)) \in 0 .. issued
         /\ \A i \in Of(key) : versionRows[i].number <= Latest(Of(key))
<1> DEFINE S == {0} \cup {versionRows[i].number : i \in Of(key)}
<1>1. issued \in Nat BY WorkspaceAssumption DEF WorkspaceTypeOK, Ids
<1>2. \A i \in Of(key) : versionRows[i].number \in 0 .. issued
  <2> SUFFICES ASSUME NEW i \in Of(key) PROVE versionRows[i].number \in 0 .. issued OBVIOUS
  <2>1. i \in Ids /\ Stored(i) BY DEF Of
  <2>2. versionRows[i].number \in Ids BY <2>1, StoredRow DEF VersionRow
  <2>3. versionRows[i].number <= i /\ i <= issued BY <2>1 DEF VersionRowsInv, VersionRowFits
  <2> QED BY <1>1, <2>1, <2>2, <2>3 DEF Ids
<1>3. S \in SUBSET (0 .. issued) /\ S # {} BY <1>1, <1>2
<1>4. \A i \in Of(key) : versionRows[i].number \in S OBVIOUS
<1>5. Latest(Of(key)) = Max(S) BY DEF Latest
<1> HIDE DEF S
<1>6. Max(S) \in S /\ \A x \in S : x <= Max(S) BY <1>1, <1>3, MaxOf
<1> QED BY <1>3, <1>4, <1>5, <1>6

-----------------------------------------------------------------------------
(* WorkspaceVersions: the steps. *)

\* What an editor holds stays true while rows and files only grow.
LEMMA HeldStays ==
  ASSUME WorkspaceInv, RowsGrow, NEW e \in Editors, edit[e] # NoRow
  PROVE  /\ CurrentFits(versionRows', edit[e].copy)
         /\ Adds(e) => VersionRowFits(versionRows', contents', edit[e].row, edit[e].id)
<1>1. edit[e].copy \in Workspaces /\ edit[e].row \in VersionRow BY HeldEdit DEF WorkspaceInv
<1>2. CurrentFits(versionRows, edit[e].copy) BY DEF WorkspaceInv, EditInv
<1>3. Adds(e) => VersionRowFits(versionRows, contents, edit[e].row, edit[e].id)
  BY DEF WorkspaceInv, EditInv
<1> QED BY <1>1, <1>2, <1>3, FitsStays, CurrentStays

\* An editor begins to add a version that fits: Patch, Derive, ReviewResult.
LEMMA BeginVersionStep ==
  ASSUME WorkspaceInv, NEW e \in Editors, NEW op \in {"patch", "derive", "review"},
         NEW row \in VersionRow, Begin(e, op, row),
         VersionRowFits(versionRows, contents', row, issued + 1), RowsGrow,
         contents' \in [Ids -> 0 .. MaxVersions], UNCHANGED <<versionRows, workspace>>
  PROVE  WorkspaceInv'
<1> DEFINE w == [op |-> op, at |-> "version", id |-> issued + 1, row |-> row, copy |-> workspace]
<1>1. /\ issued \in Ids /\ issued < MaxVersions /\ issued' = issued + 1 /\ issued' \in Ids
      /\ edit[e] = NoRow
      /\ workspace \in Workspaces /\ edit \in [Editors -> Edits \cup {NoRow}]
  BY WorkspaceAssumption DEF WorkspaceInv, WorkspaceTypeOK, Begin, Ids
<1>2. w \in Edits BY <1>1, WorkspaceAssumption DEF Edits, Ids
<1>3. edit' = [edit EXCEPT ![e] = w] BY <1>1 DEF Begin
<1>4. /\ w.op = op /\ w.id = issued + 1 /\ w.row = row /\ w.copy = workspace /\ w # NoRow
  BY <1>2, WorkspaceAssumption
<1> HIDE DEF w
<1>5. edit'[e] = w /\ \A f \in Editors \ {e} : edit'[f] = edit[f] BY <1>1, <1>3
<1>6. WorkspaceTypeOK' BY <1>1, <1>2, <1>3 DEF WorkspaceInv, WorkspaceTypeOK
<1>7. CurrentFits(versionRows', workspace') BY DEF WorkspaceInv
<1>8. VersionRowsInv'
  <2>1. \A i \in Ids : Stored(i) => VersionRowFits(versionRows', contents', versionRows[i], i)
    BY StoredRow, FitsStays DEF WorkspaceInv, VersionRowsInv
  <2> QED BY <1>1, <2>1 DEF WorkspaceInv, VersionRowsInv, Stored, Ids
<1>9. EditInv'
  <2>1. \A f \in Editors \ {e} : Adds(f)' <=> Adds(f) BY <1>5 DEF Adds
  <2>2. \A f \in Editors \ {e} : Adds(f) => edit[f].id \in 1 .. issued
    BY DEF WorkspaceInv, EditInv
  <2>3. ~ Stored(issued + 1) BY <1>1 DEF WorkspaceInv, VersionRowsInv, Ids
  <2>4. \A f \in Editors \ {e} : edit[f] # NoRow =>
          /\ CurrentFits(versionRows', edit[f].copy)
          /\ Adds(f) => VersionRowFits(versionRows', contents', edit[f].row, edit[f].id)
    BY HeldStays
  <2>9. \A f \in Editors : edit[f] # NoRow /\ edit[f].op = "roadmap" => edit[f].at = "workspace"
    BY DEF WorkspaceInv, EditInv
  <2>5. \A f \in Editors \ {e} : Adds(f) =>
          /\ Stored(edit[f].id) => versionRows[edit[f].id] = edit[f].row
          /\ \A g \in Editors : Adds(g) /\ g # f => edit[g].id # edit[f].id
    BY DEF WorkspaceInv, EditInv
  <2> SUFFICES ASSUME NEW f \in Editors
               PROVE  /\ edit'[f] # NoRow => CurrentFits(versionRows', edit'[f].copy)
                      /\ edit'[f] # NoRow /\ edit'[f].op = "roadmap" => edit'[f].at = "workspace"
                      /\ Adds(f)' =>
                           /\ edit'[f].id \in 1 .. issued'
                           /\ VersionRowFits(versionRows', contents', edit'[f].row, edit'[f].id)
                           /\ Stored(edit'[f].id)  => versionRows'[edit'[f].id] = edit'[f].row
                           /\ \A g \in Editors : Adds(g)' /\ g # f => edit'[g].id # edit'[f].id
    BY DEF EditInv, Stored
  <2>6. CASE f = e
    BY <1>1, <1>4, <1>5, <1>7, <2>1, <2>2, <2>3, <2>6, <2>9 DEF Ids
  <2>7. CASE f # e
    BY <1>1, <1>4, <1>5, <2>1, <2>2, <2>4, <2>5, <2>7, <2>9 DEF Ids, Adds
  <2> QED BY <2>6, <2>7
<1> QED BY <1>6, <1>7, <1>8, <1>9 DEF WorkspaceInv

\* An editor goes on or ends: StoreVersion, ReadWorkspace, StoreWorkspace, Abandon.
LEMMA MoveStep ==
  ASSUME WorkspaceInv, NEW e \in Editors, NEW w,
         edit' = [edit EXCEPT ![e] = w],
         w # NoRow => /\ w \in Edits /\ CurrentFits(versionRows, w.copy)
                      /\ w.op = "roadmap" => w.at = "workspace"
                      /\ w.op # "roadmap" => Adds(e) /\ w.id = edit[e].id /\ w.row = edit[e].row,
         \/ versionRows' = versionRows
         \/ Adds(e) /\ versionRows' = [versionRows EXCEPT ![edit[e].id] = edit[e].row],
         workspace' \in Workspaces, CurrentFits(versionRows', workspace'),
         UNCHANGED <<contents, issued>>
  PROVE  WorkspaceInv'
<1>1. /\ versionRows \in [Ids -> VersionRow \cup {NoRow}]
      /\ edit \in [Editors -> Edits \cup {NoRow}] /\ issued \in Ids
  BY DEF WorkspaceInv, WorkspaceTypeOK
<1>2. Adds(e) => /\ edit[e].id \in Ids /\ edit[e].id <= issued
                 /\ edit[e].row \in VersionRow /\ edit[e].row # NoRow
                 /\ VersionRowFits(versionRows, contents, edit[e].row, edit[e].id)
                 /\ Stored(edit[e].id) => versionRows[edit[e].id] = edit[e].row
  <2>1. Adds(e) => edit[e].row \in VersionRow BY HeldEdit DEF Adds, WorkspaceInv
  <2>2. edit[e].row \in VersionRow => edit[e].row # NoRow BY WorkspaceAssumption
  <2> QED BY <1>1, <2>1, <2>2, WorkspaceAssumption DEF WorkspaceInv, EditInv, Ids
<1>3. RowsGrow BY <1>1, <1>2 DEF RowsGrow
<1>4. edit'[e] = w /\ \A f \in Editors \ {e} : edit'[f] = edit[f] BY <1>1
<1>5. \A i \in Ids : Stored(i)' =>
        \/ Stored(i) /\ versionRows'[i] = versionRows[i]
        \/ Adds(e) /\ i = edit[e].id /\ versionRows'[i] = edit[e].row
  BY <1>1, <1>2 DEF Stored
<1>6. WorkspaceTypeOK'
  BY <1>1, <1>2 DEF WorkspaceInv, WorkspaceTypeOK
<1>7. VersionRowsInv'
  <2>1. Stored(1)'
    <3>1. 1 \in Ids BY WorkspaceAssumption DEF Ids
    <3> QED BY <1>3, <3>1 DEF WorkspaceInv, VersionRowsInv, RowsGrow, Stored
  <2>2. \A i \in Ids : Stored(i) => i <= issued /\ VersionRowFits(versionRows', contents', versionRows[i], i)
    BY <1>3, StoredRow, FitsStays DEF WorkspaceInv, VersionRowsInv
  <2>3. Adds(e) => VersionRowFits(versionRows', contents', edit[e].row, edit[e].id)
    BY <1>3, HeldStays DEF Adds
  <2> QED BY <1>2, <1>5, <2>1, <2>2, <2>3 DEF VersionRowsInv
<1>8. EditInv'
  <2>1. \A f \in Editors \ {e} : Adds(f)' <=> Adds(f) BY <1>4 DEF Adds
  <2>2. Adds(e)' => Adds(e) /\ w # NoRow /\ w.id = edit[e].id /\ w.row = edit[e].row BY <1>4 DEF Adds
  <2>3. w # NoRow => CurrentFits(versionRows', w.copy)
    <3>1. w # NoRow => w.copy \in Workspaces BY DEF Edits
    <3> QED BY <1>3, <3>1, CurrentStays
  <2>4. \A f \in Editors : edit[f] # NoRow =>
          /\ CurrentFits(versionRows', edit[f].copy)
          /\ Adds(f) => VersionRowFits(versionRows', contents', edit[f].row, edit[f].id)
    BY <1>3, HeldStays
  <2>9. \A f \in Editors : edit[f] # NoRow /\ edit[f].op = "roadmap" => edit[f].at = "workspace"
    BY DEF WorkspaceInv, EditInv
  <2>5. \A f \in Editors : Adds(f) =>
          /\ edit[f].id \in 1 .. issued
          /\ Stored(edit[f].id) => versionRows[edit[f].id] = edit[f].row
          /\ \A g \in Editors : Adds(g) /\ g # f => edit[g].id # edit[f].id
    BY DEF WorkspaceInv, EditInv
  <2>6. \A f \in Editors : Adds(f) /\ versionRows'[edit[f].id] # NoRow =>
          versionRows'[edit[f].id] = edit[f].row
    <3> SUFFICES ASSUME NEW f \in Editors, Adds(f), versionRows'[edit[f].id] # NoRow
                 PROVE  versionRows'[edit[f].id] = edit[f].row OBVIOUS
    <3>1. edit[f].id \in Ids BY <1>1, <2>5, WorkspaceAssumption DEF Ids
    <3>2. CASE Stored(edit[f].id) /\ versionRows'[edit[f].id] = versionRows[edit[f].id]
      BY <2>5, <3>2
    <3>3. CASE Adds(e) /\ edit[f].id = edit[e].id /\ versionRows'[edit[f].id] = edit[e].row
      BY <2>5, <3>3
    <3> QED BY <1>5, <3>1, <3>2, <3>3 DEF Stored
  <2> SUFFICES ASSUME NEW f \in Editors
               PROVE  /\ edit'[f] # NoRow => CurrentFits(versionRows', edit'[f].copy)
                      /\ edit'[f] # NoRow /\ edit'[f].op = "roadmap" => edit'[f].at = "workspace"
                      /\ Adds(f)' =>
                           /\ edit'[f].id \in 1 .. issued'
                           /\ VersionRowFits(versionRows', contents', edit'[f].row, edit'[f].id)
                           /\ versionRows'[edit'[f].id] # NoRow => versionRows'[edit'[f].id] = edit'[f].row
                           /\ \A g \in Editors : Adds(g)' /\ g # f => edit'[g].id # edit'[f].id
    BY DEF EditInv, Stored
  <2>7. CASE f = e
    BY <1>4, <2>1, <2>2, <2>3, <2>4, <2>5, <2>6, <2>7, <2>9 DEF Adds
  <2>8. CASE f # e
    BY <1>4, <2>1, <2>2, <2>4, <2>5, <2>6, <2>8, <2>9 DEF Adds
  <2> QED BY <2>7, <2>8
<1> QED BY <1>6, <1>7, <1>8 DEF WorkspaceInv

LEMMA PatchVersionStep ==
  ASSUME WorkspaceInv, NEW e \in Editors, NEW src \in Ids, Patch(e, src)
  PROVE  WorkspaceInv'
<1> DEFINE file == versionRows[src].file + 1
           row  == [key |-> "document", number |-> versionRows[src].number + 1,
                    parent |-> src, file |-> file]
<1>1. /\ Stored(src) /\ versionRows[src].key = "document" /\ file <= MaxVersions
      /\ Begin(e, "patch", row) /\ contents' = [contents EXCEPT ![file] = issued']
      /\ UNCHANGED <<versionRows, workspace>>
  BY DEF Patch
<1>2. /\ versionRows[src] \in VersionRow /\ versionRows[src].number \in Ids
      /\ versionRows[src].file \in 0 .. MaxVersions
  BY <1>1, StoredRow DEF WorkspaceInv, VersionRow
<1>3. /\ issued \in Ids /\ issued < MaxVersions /\ issued' = issued + 1
      /\ contents \in [Ids -> 0 .. MaxVersions]
  BY <1>1 DEF WorkspaceInv, WorkspaceTypeOK, Begin
<1>4. src <= issued /\ versionRows[src].number <= src BY <1>1 DEF WorkspaceInv, VersionRowsInv, VersionRowFits
<1>5. file \in Ids /\ versionRows[src].number + 1 \in Ids /\ versionRows[src].number + 1 <= issued + 1
  <2> DEFINE n == versionRows[src].number
             m == versionRows[src].file
  <2>1. MaxVersions \in Nat BY WorkspaceAssumption
  <2>2. n \in Nat /\ m \in Nat /\ src \in Nat /\ issued \in Nat /\ n >= 1
    BY <1>2, <1>3, <2>1 DEF Ids
  <2>3. n <= src /\ src <= issued /\ issued < MaxVersions /\ m + 1 <= MaxVersions
    BY <1>1, <1>3, <1>4
  <2> HIDE DEF n, m
  <2> QED BY <2>1, <2>2, <2>3 DEF Ids, n, m
<1>6. row \in VersionRow BY <1>5, WorkspaceAssumption DEF VersionRow, Ids, Keys
<1>7. contents' \in [Ids -> 0 .. MaxVersions] /\ contents'[file] # 0
  BY <1>1, <1>3, <1>5, WorkspaceAssumption DEF Ids
<1>8. RowsGrow BY <1>1, <1>3, <1>5, WorkspaceAssumption DEF RowsGrow, Ids
<1>9. VersionRowFits(versionRows, contents', row, issued + 1)
  BY <1>1, <1>2, <1>5, <1>7, WorkspaceAssumption DEF VersionRowFits, Stored, Ids
<1> HIDE DEF row, file
<1> QED BY <1>1, <1>6, <1>7, <1>8, <1>9, BeginVersionStep

LEMMA DeriveStep ==
  ASSUME WorkspaceInv, NEW e \in Editors, NEW src \in Ids, Derive(e, src)
  PROVE  WorkspaceInv'
<1> DEFINE key == versionRows[src].key
           row == [versionRows[src] EXCEPT !.number = NextNumber(key), !.parent = src]
<1>1. /\ Stored(src) /\ Begin(e, "derive", row) /\ UNCHANGED <<versionRows, workspace, contents>>
  BY DEF Derive
<1>2. versionRows[src] \in VersionRow /\ key \in Keys
  BY <1>1, StoredRow DEF WorkspaceInv, VersionRow
<1>3. /\ issued \in Ids /\ issued < MaxVersions /\ MaxVersions \in Nat
      /\ contents \in [Ids -> 0 .. MaxVersions]
  BY <1>1, WorkspaceAssumption DEF WorkspaceInv, WorkspaceTypeOK, Begin
<1>4. Latest(Of(key)) \in 0 .. issued /\ \A i \in Of(key) : versionRows[i].number <= Latest(Of(key))
  BY <1>2, LatestFits DEF WorkspaceInv
<1>5. src \in Of(key) BY <1>1 DEF Of
<1>6. versionRows[src].number \in Ids BY <1>2 DEF VersionRow
<1>7. NextNumber(key) \in Ids /\ NextNumber(key) <= issued + 1 /\ versionRows[src].number < NextNumber(key)
  <2> DEFINE n == Latest(Of(key))
             m == versionRows[src].number
  <2>1. m <= n BY <1>4, <1>5
  <2> HIDE DEF n, m
  <2>2. n \in 0 .. issued /\ m \in Ids BY <1>4, <1>6 DEF n, m
  <2>3. n + 1 \in Ids /\ n + 1 <= issued + 1 /\ m < n + 1 BY <1>3, <2>1, <2>2 DEF Ids
  <2> QED BY <2>3 DEF NextNumber, n, m
<1>8. VersionRowFits(versionRows, contents, versionRows[src], src) BY <1>1 DEF WorkspaceInv, VersionRowsInv
<1>9. /\ row \in VersionRow /\ row.number = NextNumber(key) /\ row.parent = src
      /\ row.key = key /\ row.file = versionRows[src].file
  <2>2. NextNumber(key) \in Ids /\ src \in 0 .. MaxVersions BY <1>3, <1>7 DEF Ids
  <2> DEFINE n == NextNumber(key)
             r == versionRows[src]
  <2>3. r \in VersionRow /\ n \in Ids /\ row = [r EXCEPT !.number = n, !.parent = src] BY <1>2, <2>2
  <2>4. key = r.key OBVIOUS
  <2> HIDE DEF n, r, row, key
  <2>5. row \in VersionRow /\ row.number = n /\ row.parent = src /\ row.key = r.key /\ row.file = r.file
    BY <2>2, <2>3 DEF VersionRow
  <2> QED BY <2>4, <2>5 DEF n, r
<1>10. VersionRowFits(versionRows, contents, row, issued + 1)
  BY <1>1, <1>7, <1>8, <1>9 DEF VersionRowFits, Stored
<1>11. RowsGrow BY <1>1 DEF RowsGrow
<1> HIDE DEF row, key
<1> QED BY <1>1, <1>3, <1>9, <1>10, <1>11, BeginVersionStep

LEMMA ReviewResultStep ==
  ASSUME WorkspaceInv, NEW e \in Editors, ReviewResult(e)
  PROVE  WorkspaceInv'
<1> DEFINE key == "review_result"
           last == {i \in Of(key) : versionRows[i].number = Latest(Of(key))}
<1>1. UNCHANGED <<versionRows, workspace, contents>> BY DEF ReviewResult
<1>2. PICK p \in IF last = {} THEN {0} ELSE last :
        Begin(e, "review", [key |-> key, number |-> NextNumber(key), parent |-> p, file |-> 0])
  BY DEF ReviewResult
<1> DEFINE row == [key |-> key, number |-> NextNumber(key), parent |-> p, file |-> 0]
<1>3. /\ issued \in Ids /\ issued < MaxVersions /\ MaxVersions \in Nat
      /\ contents \in [Ids -> 0 .. MaxVersions]
  BY <1>2, WorkspaceAssumption DEF WorkspaceInv, WorkspaceTypeOK, Begin
<1>4. Latest(Of(key)) \in 0 .. issued BY LatestFits DEF WorkspaceInv, Keys
<1>5. p = 0 \/ (p \in Ids /\ Stored(p) /\ versionRows[p].key = key /\ versionRows[p].number = Latest(Of(key)))
  BY <1>2 DEF Of
<1>6. /\ NextNumber(key) \in Ids /\ NextNumber(key) <= issued + 1
      /\ Latest(Of(key)) < NextNumber(key)
  <2> DEFINE n == Latest(Of(key))
  <2>1. n \in 0 .. issued BY <1>4
  <2> HIDE DEF n
  <2>2. n + 1 \in Ids /\ n + 1 <= issued + 1 /\ n < n + 1 BY <1>3, <2>1 DEF Ids
  <2> QED BY <2>2 DEF NextNumber, n
<1>7. row \in VersionRow BY <1>3, <1>5, <1>6 DEF VersionRow, Ids, Keys
<1>8. VersionRowFits(versionRows, contents, row, issued + 1)
  BY <1>5, <1>6 DEF VersionRowFits, Stored
<1>9. RowsGrow BY <1>1 DEF RowsGrow
<1>10. Begin(e, "review", row) BY <1>2
<1> HIDE DEF row
<1> QED BY <1>1, <1>3, <1>7, <1>8, <1>9, <1>10, BeginVersionStep

\* What StoreVersion, ReadWorkspace and StoreWorkspace find.
LEMMA Holding ==
  ASSUME WorkspaceInv, NEW e \in Editors, edit[e] # NoRow
  PROVE  /\ edit \in [Editors -> Edits \cup {NoRow}] /\ edit[e] \in Edits
         /\ workspace \in Workspaces
         /\ CurrentFits(versionRows, edit[e].copy) /\ CurrentFits(versionRows, workspace)
         /\ edit[e].op = "roadmap" => edit[e].at = "workspace"
         /\ edit[e].op # "roadmap" => Adds(e)
BY HeldEdit DEF WorkspaceInv, WorkspaceTypeOK, EditInv, Adds

LEMMA RoadmapStep ==
  ASSUME WorkspaceInv, NEW e \in Editors, Roadmap(e)
  PROVE  WorkspaceInv'
<1> DEFINE w == [op |-> "roadmap", at |-> "workspace", id |-> 0, row |-> versionRows[1], copy |-> workspace]
<1>1. versionRows[1] \in VersionRow
  BY StoredRow, WorkspaceAssumption DEF WorkspaceInv, VersionRowsInv, Ids
<1>2. workspace \in Workspaces /\ CurrentFits(versionRows, workspace)
  BY DEF WorkspaceInv, WorkspaceTypeOK
<1>3. w \in Edits BY <1>1, <1>2, WorkspaceAssumption DEF Edits
<1>4. edit' = [edit EXCEPT ![e] = w] /\ UNCHANGED <<versionRows, workspace, contents, issued>>
  BY DEF Roadmap
<1>5. w.op = "roadmap" /\ w.at = "workspace" /\ w.copy = workspace OBVIOUS
<1> HIDE DEF w
<1> QED BY <1>2, <1>3, <1>4, <1>5, MoveStep

LEMMA StoreVersionStep ==
  ASSUME WorkspaceInv, NEW e \in Editors, StoreVersion(e)
  PROVE  WorkspaceInv'
<1> DEFINE at == IF edit[e].op = "derive" THEN "workspace" ELSE "read"
           w == [edit[e] EXCEPT !.at = at]
<1>1. edit[e] # NoRow /\ edit[e].at = "version" BY DEF StoreVersion
<1>2. Adds(e) /\ edit[e] \in Edits BY <1>1, Holding
<1>3. edit' = [edit EXCEPT ![e] = w] BY <1>2, Holding DEF StoreVersion
<1>4. w \in Edits /\ w.copy = edit[e].copy /\ w.op = edit[e].op /\ w.id = edit[e].id /\ w.row = edit[e].row
  BY <1>2 DEF Edits
<1>5. \/ versionRows' = versionRows
      \/ versionRows' = [versionRows EXCEPT ![edit[e].id] = edit[e].row]
  BY DEF StoreVersion
<1>6. UNCHANGED <<workspace, contents, issued>> BY DEF StoreVersion
<1>7. CurrentFits(versionRows', workspace')
  <2>1. Stored(edit[e].id) => versionRows[edit[e].id] = edit[e].row
    BY <1>2 DEF WorkspaceInv, EditInv
  <2>2. RowsGrow
    BY <1>5, <1>6, <2>1 DEF RowsGrow, WorkspaceInv, WorkspaceTypeOK
  <2> QED BY <1>1, <1>6, <2>2, Holding, CurrentStays
<1> HIDE DEF w
<1> QED BY <1>1, <1>2, <1>3, <1>4, <1>5, <1>6, <1>7, Holding, MoveStep DEF Adds

LEMMA ReadWorkspaceStep ==
  ASSUME WorkspaceInv, NEW e \in Editors, ReadWorkspace(e)
  PROVE  WorkspaceInv'
<1>1. edit[e] # NoRow /\ edit[e].at = "read" BY DEF ReadWorkspace
<1>2. PICK copy \in {workspace, NewWorkspace} :
        edit' = [edit EXCEPT ![e].at = "workspace", ![e].copy = copy]
  BY DEF ReadWorkspace
<1>3. copy \in Workspaces /\ CurrentFits(versionRows, copy)
  <2>1. NewWorkspace \in Workspaces /\ CurrentFits(versionRows, NewWorkspace)
    BY WorkspaceAssumption DEF NewWorkspace, Workspaces, CurrentFits
  <2> QED BY <1>1, <2>1, Holding
<1> DEFINE w == [edit[e] EXCEPT !.at = "workspace", !.copy = copy]
<1>4. Adds(e) /\ edit[e] \in Edits BY <1>1, Holding
<1>5. edit' = [edit EXCEPT ![e] = w] BY <1>2, <1>4, Holding DEF Edits
<1>6. w \in Edits /\ w.copy = copy /\ w.op = edit[e].op /\ w.id = edit[e].id /\ w.row = edit[e].row
  BY <1>3, <1>4 DEF Edits
<1>7. UNCHANGED <<versionRows, workspace, contents, issued>> BY DEF ReadWorkspace
<1> HIDE DEF w
<1> QED BY <1>1, <1>3, <1>4, <1>5, <1>6, <1>7, Holding, MoveStep DEF Adds

LEMMA StoreWorkspaceStep ==
  ASSUME WorkspaceInv, NEW e \in Editors, StoreWorkspace(e)
  PROVE  WorkspaceInv'
<1> DEFINE w == edit[e]
<1>1. /\ w # NoRow /\ workspace' = Changed(w) /\ edit' = [edit EXCEPT ![e] = NoRow]
      /\ versionRows' = IF w.op = "roadmap" THEN versionRows
                        ELSE [versionRows EXCEPT ![w.id] = w.row]
      /\ UNCHANGED <<contents, issued>>
  BY DEF StoreWorkspace
<1>2. /\ w \in Edits /\ w.copy \in Workspaces /\ w.row \in VersionRow /\ w.id \in 0 .. MaxVersions
      /\ CurrentFits(versionRows, w.copy)
      /\ w.op # "roadmap" => Adds(e)
  BY <1>1, Holding, HeldEdit DEF WorkspaceInv
<1>3. CASE w.op = "roadmap"
  <2>1. workspace' = [w.copy EXCEPT !.roadmap = 1] BY <1>1, <1>3 DEF Changed
  <2>2. workspace' \in Workspaces /\ workspace'.current = w.copy.current
    BY <1>2, <2>1 DEF Workspaces
  <2>3. CurrentFits(versionRows', workspace') BY <1>1, <1>2, <1>3, <2>2 DEF CurrentFits
  <2> QED BY <1>1, <1>3, <2>2, <2>3, MoveStep
<1>4. CASE w.op # "roadmap"
  <2>1. workspace' = [w.copy EXCEPT !.current[w.row.key] = w.id] BY <1>1, <1>4 DEF Changed
  <2>2. w.row.key \in Keys /\ w.copy.current \in [Keys -> 0 .. MaxVersions] BY <1>2 DEF VersionRow, Workspaces
  <2>3. workspace' \in Workspaces /\ workspace'.current = [w.copy.current EXCEPT ![w.row.key] = w.id]
    BY <1>2, <2>1, <2>2 DEF Workspaces
  <2>4. /\ versionRows' = [versionRows EXCEPT ![w.id] = w.row]
        /\ w.id \in Ids /\ (Stored(w.id) => versionRows[w.id] = w.row)
        /\ versionRows \in [Ids -> VersionRow \cup {NoRow}]
    BY <1>1, <1>2, <1>4, WorkspaceAssumption DEF WorkspaceInv, WorkspaceTypeOK, EditInv, Ids
  <2>5. RowsGrow BY <1>1, <2>4 DEF RowsGrow
  <2>6. CurrentFits(versionRows', w.copy) BY <1>2, <2>5, CurrentStays
  <2>7. versionRows'[w.id] = w.row /\ w.row # NoRow BY <1>2, <2>4, WorkspaceAssumption
  <2>8. CurrentFits(versionRows', workspace')
    BY <2>2, <2>3, <2>6, <2>7 DEF CurrentFits
  <2> QED BY <1>1, <1>2, <1>4, <2>3, <2>4, <2>8, MoveStep
<1> QED BY <1>3, <1>4

LEMMA AbandonStep ==
  ASSUME WorkspaceInv, NEW e \in Editors, Abandon(e)
  PROVE  WorkspaceInv'
BY MoveStep DEF Abandon, WorkspaceInv, WorkspaceTypeOK

LEMMA WorkspaceInitHolds == WorkspaceInit => WorkspaceInv
<1> SUFFICES ASSUME WorkspaceInit PROVE WorkspaceInv OBVIOUS
<1> DEFINE row == [key |-> "document", number |-> 1, parent |-> 0, file |-> 1]
<1>1. 1 \in Ids /\ MaxVersions \in Nat BY WorkspaceAssumption DEF Ids
<1>2. row \in VersionRow /\ row # NoRow
  BY <1>1, WorkspaceAssumption DEF VersionRow, Keys, Ids
<1>3. row.key = "document" /\ row.number = 1 /\ row.parent = 0 /\ row.file = 1 OBVIOUS
<1> HIDE DEF row
<1>4. \A i \in Ids : versionRows[i] = IF i = 1 THEN row ELSE NoRow BY DEF WorkspaceInit, row
<1>5. versionRows \in [Ids -> VersionRow \cup {NoRow}] BY <1>2 DEF WorkspaceInit, row
<1>6. /\ workspace \in Workspaces
      /\ workspace.current = [k \in Keys |-> IF k = "document" THEN 1 ELSE 0]
  BY <1>1, WorkspaceAssumption DEF WorkspaceInit, Workspaces, Ids
<1>7. WorkspaceTypeOK
  BY <1>1, <1>5, <1>6 DEF WorkspaceInit, WorkspaceTypeOK, Ids
<1>8. CurrentFits(versionRows, workspace) BY <1>1, <1>2, <1>3, <1>4, <1>6 DEF CurrentFits
<1>9. VersionRowsInv
  BY <1>1, <1>2, <1>3, <1>4 DEF WorkspaceInit, VersionRowsInv, Stored, VersionRowFits, Ids
<1>10. EditInv BY DEF WorkspaceInit, EditInv, Adds
<1> QED BY <1>7, <1>8, <1>9, <1>10 DEF WorkspaceInv

LEMMA WorkspaceStep == WorkspaceInv /\ [WorkspaceNext]_workspaceVars => WorkspaceInv'
<1> SUFFICES ASSUME WorkspaceInv, [WorkspaceNext]_workspaceVars PROVE WorkspaceInv' OBVIOUS
<1>1. CASE UNCHANGED workspaceVars
  BY <1>1 DEF workspaceVars, WorkspaceInv, WorkspaceTypeOK, VersionRowsInv, EditInv, Adds, Stored
<1>2. CASE WorkspaceNext
  BY <1>2, PatchVersionStep, DeriveStep, ReviewResultStep, RoadmapStep, StoreVersionStep,
     ReadWorkspaceStep, StoreWorkspaceStep, AbandonStep DEF WorkspaceNext
<1> QED BY <1>1, <1>2

LEMMA WorkspaceInvHolds == WorkspaceSpec => []WorkspaceInv
BY WorkspaceInitHolds, WorkspaceStep, PTL DEF WorkspaceSpec

\* The rows, the files and what editors hold stay in their types; no number and no id
\* leaves its range.
THEOREM WorkspaceTypes == WorkspaceSpec => []WorkspaceTypeOK
<1>1. WorkspaceInv => WorkspaceTypeOK BY DEF WorkspaceInv
<1> QED BY <1>1, WorkspaceInvHolds, PTL

\* Whatever copies are written over each other by any number of editors and wherever one
\* stops, the current versions are stored, a version of the document has its file, and its
\* number is higher than that of the version it comes from (artifact_patch_service.py).
THEOREM LineageHolds == WorkspaceSpec => []Lineage
<1>1. WorkspaceInv => Lineage
  BY DEF WorkspaceInv, CurrentFits, VersionRowsInv, VersionRowFits, Lineage, Stored, Of
<1> QED BY <1>1, WorkspaceInvHolds, PTL

-----------------------------------------------------------------------------
(* PatchDocument: a block is taken out of an order. *)

\* Induction, for a set of numbers.
LEMMA AllNumbers ==
  ASSUME NEW G, 0 \in G, \A n \in Nat : n \in G => n + 1 \in G
  PROVE  Nat \subseteq G
<1> DEFINE R == OpToRel(<, Nat)
           T == Nat \ G
<1> SUFFICES ASSUME T # {} PROVE FALSE OBVIOUS
<1>1. IsWellFoundedOn(R, Nat) BY NatLessThanWellFounded DEF R
<1>2. PICK t \in T : \A y \in T : ~ (<<y, t>> \in R)
  <2> HIDE DEF R
  <2> QED BY <1>1, WFMin
<1>3. t \in Nat /\ t # 0 OBVIOUS
<1>4. t - 1 \in Nat BY <1>3
<1>5. t - 1 \in G
  <2>1. SUFFICES ASSUME t - 1 \in T PROVE FALSE BY <1>4
  <2>2. <<t - 1, t>> \in R BY <1>3, <1>4 DEF OpToRel
  <2> QED BY <1>2, <2>1, <2>2
<1>6. (t - 1) + 1 = t BY <1>3
<1> QED BY <1>4, <1>5, <1>6

\* The values of the first i of a sequence that are kept, as a function of i.
KeptOf(n, keep, val, f) ==
  f = [i \in 0 .. n |->
         IF i = 0 THEN << >> ELSE IF i \in keep THEN Append(f[i - 1], val[i]) ELSE f[i - 1]]

LEMMA KeptExists ==
  ASSUME NEW N \in Nat, NEW keep, NEW val
  PROVE  \E f : KeptOf(N, keep, val, f)
<1> DEFINE G == {n \in Nat : \E f : KeptOf(n, keep, val, f)}
<1>1. 0 \in G
  <2> DEFINE f == [i \in 0 .. 0 |-> << >>]
  <2>1. KeptOf(0, keep, val, f) BY DEF KeptOf
  <2>2. \E k : KeptOf(0, keep, val, k)
    <3> HIDE DEF f
    <3> QED BY <2>1
  <2> QED BY <2>2
<1>2. ASSUME NEW n \in Nat, n \in G PROVE n + 1 \in G
  <2>1. PICK f : KeptOf(n, keep, val, f) BY <1>2
  <2> DEFINE last == IF n + 1 \in keep THEN Append(f[n], val[n + 1]) ELSE f[n]
             g == [i \in 0 .. n + 1 |-> IF i = n + 1 THEN last ELSE f[i]]
             h == [i \in 0 .. n + 1 |->
                    IF i = 0 THEN << >> ELSE IF i \in keep THEN Append(g[i - 1], val[i]) ELSE g[i - 1]]
  <2>2. n + 1 # 0 /\ n + 1 - 1 = n /\ n \in 0 .. n + 1 /\ n # n + 1 OBVIOUS
  <2>3. ASSUME NEW i \in 0 .. n + 1 PROVE g[i] = h[i]
    <3>1. CASE i = n + 1
      <4>1. g[i] = last BY <3>1
      <4>2. g[i - 1] = f[n] BY <2>2, <3>1
      <4>3. h[i] = IF i \in keep THEN Append(g[i - 1], val[i]) ELSE g[i - 1]
        BY <2>2, <3>1
      <4> HIDE DEF g, h
      <4> QED BY <3>1, <4>1, <4>2, <4>3
    <3>2. CASE i # n + 1
      <4>1. i \in 0 .. n /\ (i # 0 => i - 1 \in 0 .. n + 1 /\ i - 1 # n + 1) BY <3>2
      <4>2. g[i] = f[i] BY <3>2
      <4>3. i # 0 => g[i - 1] = f[i - 1] BY <4>1
      <4>4. f[i] = IF i = 0 THEN << >> ELSE IF i \in keep THEN Append(f[i - 1], val[i]) ELSE f[i - 1]
        BY <2>1, <4>1 DEF KeptOf
      <4>5. h[i] = IF i = 0 THEN << >> ELSE IF i \in keep THEN Append(g[i - 1], val[i]) ELSE g[i - 1]
        OBVIOUS
      <4> HIDE DEF g, h
      <4> QED BY <4>2, <4>3, <4>4, <4>5
    <3> QED BY <3>1, <3>2
  <2>4. g = h
    <3> HIDE DEF last
    <3> QED BY <2>3
  <2>5. KeptOf(n + 1, keep, val, g) BY <2>4 DEF KeptOf
  <2>6. \E k : KeptOf(n + 1, keep, val, k)
    <3> HIDE DEF g
    <3> QED BY <2>5
  <2> QED BY <2>6
<1>3. Nat \subseteq G
  <2> HIDE DEF G
  <2> QED BY <1>1, <1>2, AllNumbers
<1> QED BY <1>3

\* One more entry, kept or not.
LEMMA KeptNext ==
  ASSUME NEW N \in Nat, NEW keep, NEW val, NEW f, KeptOf(N, keep, val, f), NEW n \in Nat, n + 1 <= N
  PROVE  f[0] = << >> /\ f[n + 1] = IF n + 1 \in keep THEN Append(f[n], val[n + 1]) ELSE f[n]
<1> DEFINE k == n + 1
<1>1. k \in 0 .. N /\ k # 0 /\ k - 1 = n /\ 0 \in 0 .. N OBVIOUS
<1> HIDE DEF k
<1>2. f[k] = IF k = 0 THEN << >> ELSE IF k \in keep THEN Append(f[k - 1], val[k]) ELSE f[k - 1]
  BY <1>1 DEF KeptOf
<1>3. f[k] = IF k \in keep THEN Append(f[n], val[k]) ELSE f[n] BY <1>1, <1>2
<1>4. f[0] = << >> BY <1>1 DEF KeptOf
<1> QED BY <1>3, <1>4 DEF k

\* What is kept is a sequence of the values.
LEMMA KeptSeq ==
  ASSUME NEW N \in Nat, NEW keep, NEW val, NEW f, KeptOf(N, keep, val, f), NEW S,
         \A i \in 1 .. N : i \in keep => val[i] \in S
  PROVE  f[N] \in Seq(S)
<1> DEFINE G == {n \in Nat : n <= N => f[n] \in Seq(S)}
<1>1. 0 \in G
  <2>1. f[0] = << >> BY DEF KeptOf
  <2>2. f[0] \in Seq(S) BY <2>1
  <2> QED BY <2>2
<1>2. ASSUME NEW n \in Nat, n \in G PROVE n + 1 \in G
  <2>1. SUFFICES ASSUME n + 1 <= N PROVE f[n + 1] \in Seq(S) OBVIOUS
  <2>2. f[n] \in Seq(S) /\ n + 1 \in 1 .. N BY <1>2, <2>1
  <2>3. f[n + 1] = IF n + 1 \in keep THEN Append(f[n], val[n + 1]) ELSE f[n] BY <2>1, KeptNext
  <2> QED BY <2>2, <2>3
<1>3. Nat \subseteq G
  <2> HIDE DEF G
  <2> QED BY <1>1, <1>2, AllNumbers
<1> QED BY <1>3

LEMMA WithoutKept ==
  ASSUME NEW S, NEW s \in Seq(S), NEW b
  PROVE  \E f : KeptOf(Len(s), {i \in 1 .. Len(s) : s[i] # b}, s, f) /\ Removed(s, b) = f[Len(s)]
<1> DEFINE is(f) == f = [i \in 0 .. Len(s) |->
                          IF i = 0 THEN << >> ELSE IF s[i] = b THEN f[i - 1] ELSE Append(f[i - 1], s[i])]
           keep == {i \in 1 .. Len(s) : s[i] # b}
<1>1. Len(s) \in Nat OBVIOUS
<1>2. ASSUME NEW f PROVE is(f) <=> KeptOf(Len(s), keep, s, f)
  <2>1. ASSUME NEW i \in 0 .. Len(s)
        PROVE  (IF i = 0 THEN << >> ELSE IF s[i] = b THEN f[i - 1] ELSE Append(f[i - 1], s[i]))
                = IF i = 0 THEN << >> ELSE IF i \in keep THEN Append(f[i - 1], s[i]) ELSE f[i - 1]
    <3>1. i # 0 => (i \in keep <=> s[i] # b) OBVIOUS
    <3> HIDE DEF keep
    <3> QED BY <3>1
  <2> HIDE DEF keep
  <2>2. [i \in 0 .. Len(s) |-> IF i = 0 THEN << >> ELSE IF s[i] = b THEN f[i - 1] ELSE Append(f[i - 1], s[i])]
         = [i \in 0 .. Len(s) |->
              IF i = 0 THEN << >> ELSE IF i \in keep THEN Append(f[i - 1], s[i]) ELSE f[i - 1]]
    BY <2>1
  <2> QED BY <2>2 DEF KeptOf
<1>3. \E f : KeptOf(Len(s), keep, s, f)
  <2> HIDE DEF keep
  <2> QED BY <1>1, KeptExists
<1>4. \E f : is(f)
  <2> HIDE DEF is, keep
  <2> QED BY <1>2, <1>3
<1> DEFINE k == CHOOSE f : is(f)
<1>5. is(k)
  <2> HIDE DEF is
  <2> QED BY <1>4, Zenon
<1>6. Removed(s, b) = k[Len(s)] BY Zenon DEF Removed
<1>7. KeptOf(Len(s), keep, s, k)
  <2> HIDE DEF is, k, keep
  <2> QED BY <1>2, <1>5
<1> HIDE DEF k
<1> QED BY <1>6, <1>7

\* Removed keeps the other blocks, each once if each was there once.
LEMMA WithoutOf ==
  ASSUME NEW S, NEW s \in Seq(S), NEW b, IsInjective(s)
  PROVE  /\ Removed(s, b) \in Seq(S) /\ IsInjective(Removed(s, b))
         /\ ToSet(Removed(s, b)) = ToSet(s) \ {b}
<1>1. PICK f : KeptOf(Len(s), {i \in 1 .. Len(s) : s[i] # b}, s, f) /\ Removed(s, b) = f[Len(s)] BY WithoutKept
<1> DEFINE Good(n) == /\ f[n] \in Seq(S) /\ IsInjective(f[n])
                      /\ ToSet(f[n]) = {s[i] : i \in 1 .. n} \ {b}
           G == {n \in Nat : n <= Len(s) => Good(n)}
<1>2. Len(s) \in Nat /\ s \in [1 .. Len(s) -> S] OBVIOUS
<1>3. 0 \in G
  <2>1. f[0] = << >> BY <1>1, <1>2 DEF KeptOf
  <2>2. Good(0) BY <2>1 DEF IsInjective, ToSet
  <2> HIDE DEF Good
  <2> QED BY <2>2
<1>4. ASSUME NEW n \in Nat, n \in G PROVE n + 1 \in G
  <2>1. SUFFICES ASSUME n + 1 <= Len(s) PROVE Good(n + 1)
    <3> HIDE DEF Good
    <3> QED OBVIOUS
  <2>2. n <= Len(s) /\ n + 1 \in 0 .. Len(s) /\ n + 1 # 0 /\ n + 1 - 1 = n /\ n + 1 \in 1 .. Len(s)
    BY <1>2, <2>1
  <2>3. Good(n)
    <3> HIDE DEF Good
    <3> QED BY <1>4, <2>2
  <2>4. f[n + 1] = IF s[n + 1] = b THEN f[n] ELSE Append(f[n], s[n + 1])
    <3> DEFINE keep == {i \in 1 .. Len(s) : s[i] # b}
    <3>1. n + 1 \in keep <=> s[n + 1] # b BY <2>2
    <3> HIDE DEF keep
    <3>2. f[n + 1] = IF n + 1 \in keep THEN Append(f[n], s[n + 1]) ELSE f[n]
      BY <1>1, <1>2, <2>1, KeptNext DEF keep
    <3> QED BY <3>1, <3>2
  <2>5. {s[i] : i \in 1 .. n + 1} = {s[i] : i \in 1 .. n} \cup {s[n + 1]}
    <3>1. \A i \in 1 .. n + 1 : i \in 1 .. n \/ i = n + 1 OBVIOUS
    <3>2. \A i \in 1 .. n : i \in 1 .. n + 1 OBVIOUS
    <3>3. n + 1 \in 1 .. n + 1 OBVIOUS
    <3> QED BY <3>1, <3>2, <3>3
  <2>6. CASE s[n + 1] = b
    BY <2>3, <2>4, <2>5, <2>6
  <2>7. CASE s[n + 1] # b
    <3> DEFINE t == f[n]
               u == f[n + 1]
               m == Len(f[n])
    <3>1. t \in Seq(S) /\ m \in Nat /\ u = Append(t, s[n + 1]) /\ s[n + 1] \in S BY <1>2, <2>2, <2>3, <2>4, <2>7
    <3>2. u \in Seq(S) /\ Len(u) = m + 1 /\ DOMAIN u = 1 .. m + 1 /\ DOMAIN t = 1 .. m BY <3>1
    <3>3. (\A i \in 1 .. m : u[i] = t[i]) /\ u[m + 1] = s[n + 1] BY <3>1
    <3>4. ToSet(t) = {s[i] : i \in 1 .. n} \ {b} /\ IsInjective(t) BY <2>3
    <3>5. \A i \in 1 .. m : t[i] # s[n + 1]
      <4> SUFFICES ASSUME NEW i \in 1 .. m, t[i] = s[n + 1] PROVE FALSE OBVIOUS
      <4>1. t[i] \in ToSet(t) BY <3>2 DEF ToSet
      <4>2. PICK j \in 1 .. n : s[j] = s[n + 1] BY <3>4, <4>1
      <4>3. j \in DOMAIN s /\ n + 1 \in DOMAIN s /\ j # n + 1 BY <1>2, <2>2
      <4> QED BY <4>2, <4>3 DEF IsInjective
    <3> HIDE DEF t, u, m
    <3>6. \A i \in 1 .. m + 1 : i \in 1 .. m \/ i = m + 1 BY <3>1
    <3>7. m + 1 \in 1 .. m + 1 /\ \A i \in 1 .. m : i \in 1 .. m + 1 BY <3>1
    <3>8. IsInjective(u)
      BY <3>2, <3>3, <3>4, <3>5, <3>6 DEF IsInjective
    <3>9. ToSet(u) = ToSet(t) \cup {s[n + 1]}
      <4>1. ToSet(u) = {u[i] : i \in 1 .. m + 1} /\ ToSet(t) = {t[i] : i \in 1 .. m} BY <3>2 DEF ToSet
      <4> QED BY <4>1, <3>3, <3>6, <3>7
    <3>10. ToSet(u) = {s[i] : i \in 1 .. n + 1} \ {b} BY <3>4, <3>9, <2>5, <2>7
    <3> QED BY <3>2, <3>8, <3>10 DEF u
  <2> HIDE DEF Good
  <2> QED BY <2>6, <2>7
<1>5. Nat \subseteq G
  <2> HIDE DEF G
  <2> QED BY <1>3, <1>4, AllNumbers
<1>6. Good(Len(s))
  <2> HIDE DEF Good
  <2> QED BY <1>2, <1>5
<1>7. {s[i] : i \in 1 .. Len(s)} = ToSet(s) BY <1>2 DEF ToSet
<1> QED BY <1>1, <1>6, <1>7

LEMMA ConcatOf ==
  ASSUME NEW S, NEW s \in Seq(S), NEW t \in Seq(S)
  PROVE  /\ s \o t \in Seq(S) /\ Len(s \o t) = Len(s) + Len(t)
         /\ \A j \in 1 .. Len(s) + Len(t) : (s \o t)[j] = IF j <= Len(s) THEN s[j] ELSE t[j - Len(s)]
OBVIOUS

\* A block is inserted.
LEMMA InsertOf ==
  ASSUME NEW S, NEW s \in Seq(S), NEW e \in S, NEW i \in 1 .. Len(s) + 1
  PROVE  /\ InsertAt(s, i, e) \in Seq(S) /\ Len(InsertAt(s, i, e)) = Len(s) + 1
         /\ InsertAt(s, i, e)[i] = e
         /\ \A j \in 1 .. Len(s) + 1 :
              /\ j < i => InsertAt(s, i, e)[j] = s[j]
              /\ j > i => InsertAt(s, i, e)[j] = s[j - 1]
<1> DEFINE n == Len(s)
           a == SubSeq(s, 1, i - 1)
           c == SubSeq(s, i, n)
<1>1. n \in Nat /\ i \in Nat /\ 1 <= i /\ i <= n + 1 OBVIOUS
<1>2. a \in Seq(S) /\ Len(a) = i - 1 /\ \A j \in 1 .. i - 1 : a[j] = s[j]
  BY <1>1
<1>3. c \in Seq(S) /\ Len(c) = n - i + 1 /\ \A j \in 1 .. n - i + 1 : c[j] = s[i + j - 1]
  BY <1>1
<1>4. <<e>> \in Seq(S) /\ Len(<<e>>) = 1 /\ <<e>>[1] = e OBVIOUS
<1>5. InsertAt(s, i, e) = (a \o <<e>>) \o c BY DEF InsertAt
<1> HIDE DEF a, c, n
<1> DEFINE d == a \o <<e>>
<1>6. d \in Seq(S) /\ Len(d) = i /\ (\A j \in 1 .. i - 1 : d[j] = s[j]) /\ d[i] = e
  BY <1>1, <1>2, <1>4
<1> HIDE DEF d
<1>7. d \o c \in Seq(S) /\ Len(d \o c) = n + 1
  <2>1. d \o c \in Seq(S) /\ Len(d \o c) = Len(d) + Len(c) BY <1>3, <1>6, ConcatOf
  <2>2. i + (n - i + 1) = n + 1 BY <1>1
  <2> QED BY <2>1, <2>2, <1>3, <1>6
<1>8. ASSUME NEW j \in 1 .. n + 1
      PROVE  /\ j < i => (d \o c)[j] = s[j]
             /\ j = i => (d \o c)[j] = e
             /\ j > i => (d \o c)[j] = s[j - 1]
  <2>1. (d \o c)[j] = IF j <= i THEN d[j] ELSE c[j - i]
    <3>1. Len(d) = i /\ Len(c) = n - i + 1 /\ j \in 1 .. Len(d) + Len(c) BY <1>1, <1>3, <1>6
    <3> QED BY <1>3, <1>6, <3>1, ConcatOf
  <2>2. CASE j < i
    <3>1. j \in 1 .. i - 1 /\ j <= i BY <1>1, <2>2
    <3> QED BY <2>1, <2>2, <3>1, <1>6
  <2>3. CASE j = i BY <2>1, <2>3, <1>1, <1>6
  <2>4. CASE j > i
    <3>1. j - i \in 1 .. n - i + 1 /\ i + (j - i) - 1 = j - 1 /\ ~ (j <= i) /\ ~ (j < i) /\ j # i BY <1>1, <2>4
    <3>2. c[j - i] = s[j - 1] BY <1>3, <3>1
    <3> QED BY <2>1, <3>1, <3>2
  <2> QED BY <2>2, <2>3, <2>4
<1> QED BY <1>5, <1>7, <1>8 DEF n, d

LEMMA InsertKeeps ==
  ASSUME NEW S, NEW s \in Seq(S), NEW e \in S, NEW i \in 1 .. Len(s) + 1, IsInjective(s), e \notin ToSet(s)
  PROVE  /\ InsertAt(s, i, e) \in Seq(S) /\ IsInjective(InsertAt(s, i, e))
         /\ ToSet(InsertAt(s, i, e)) = ToSet(s) \cup {e}
<1> DEFINE n == Len(s)
           t == InsertAt(s, i, e)
           from(j) == IF j < i THEN j ELSE j - 1
<1> HIDE DEF t
<1>1. t \in Seq(S) /\ Len(t) = n + 1 /\ DOMAIN t = 1 .. n + 1 /\ n \in Nat /\ DOMAIN s = 1 .. n
  <2>1. t \in Seq(S) /\ Len(t) = n + 1 BY InsertOf DEF t
  <2> QED BY <2>1
<1>2. \A j \in 1 .. n + 1 : (j < i => t[j] = s[j]) /\ (j > i => t[j] = s[j - 1])
  BY InsertOf DEF t
<1>3. i \in 1 .. n + 1 OBVIOUS
<1>4. \A j \in 1 .. n : s[j] # e BY <1>1 DEF ToSet
<1> HIDE DEF n
<1>5. ASSUME NEW j \in 1 .. n + 1, j # i
      PROVE  from(j) \in 1 .. n /\ t[j] = s[from(j)]
  <2>1. from(j) \in 1 .. n BY <1>1, <1>3, <1>5
  <2> QED BY <2>1, <1>2, <1>5
<1>6. \A j, k \in 1 .. n + 1 : j # i /\ k # i /\ from(j) = from(k) => j = k
  BY <1>1, <1>3
<1>7. \A j \in 1 .. n : \E k \in 1 .. n + 1 : k # i /\ from(k) = j
  <2> SUFFICES ASSUME NEW j \in 1 .. n PROVE \E k \in 1 .. n + 1 : k # i /\ from(k) = j OBVIOUS
  <2>1. CASE j < i
    <3>1. j \in 1 .. n + 1 /\ j # i /\ from(j) = j BY <2>1, <1>1, <1>3
    <3> QED BY <3>1
  <2>2. CASE ~ (j < i)
    <3>1. j + 1 \in 1 .. n + 1 /\ j + 1 # i /\ from(j + 1) = j BY <2>2, <1>1, <1>3
    <3> QED BY <3>1
  <2> QED BY <2>1, <2>2
<1>8. t[i] = e BY InsertOf DEF t
<1> HIDE DEF from
<1>9. IsInjective(t)
  <2> SUFFICES ASSUME NEW j \in 1 .. n + 1, NEW k \in 1 .. n + 1, t[j] = t[k] PROVE j = k
    BY <1>1 DEF IsInjective
  <2>1. CASE j # i /\ k # i
    <3>1. from(j) = from(k) BY <1>1, <1>5, <2>1 DEF IsInjective
    <3> QED BY <2>1, <3>1, <1>6
  <2>2. CASE j = i \/ k = i BY <2>2, <1>4, <1>5, <1>8
  <2> QED BY <2>1, <2>2
<1>10. ToSet(t) = ToSet(s) \cup {e}
  <2>1. ToSet(t) = {t[j] : j \in 1 .. n + 1} /\ ToSet(s) = {s[j] : j \in 1 .. n} BY <1>1 DEF ToSet
  <2>2. \A j \in 1 .. n + 1 : t[j] \in ToSet(s) \cup {e} BY <1>5, <1>8, <2>1
  <2>3. \A j \in 1 .. n : s[j] \in ToSet(t) BY <1>5, <1>7, <2>1
  <2>4. e \in ToSet(t) BY <1>3, <1>8, <2>1
  <2> QED BY <2>1, <2>2, <2>3, <2>4
<1> QED BY <1>1, <1>9, <1>10 DEF t

-----------------------------------------------------------------------------
(* PatchDocument: the inductive invariant. *)

Documents == Seq([id : Blocks, text : Texts])

\* The order of a copy and its blocks agree.
Joined(w) == IsInjective(w.order) /\ ToSet(w.order) = DOMAIN w.text

PatchInv ==
  /\ document \in Documents /\ IsInjective(Order(document))
  /\ working \in Copies \cup {NoPatch}
  /\ working # NoPatch => Joined(working)

LEMMA OrderOf ==
  ASSUME NEW d \in Documents
  PROVE  /\ Order(d) \in Seq(Blocks)
         /\ ToSet(Order(d)) = {d[i].id : i \in DOMAIN d}
         /\ DOMAIN BlockMap(d) = ToSet(Order(d)) /\ BlockMap(d) \in [ToSet(Order(d)) -> Texts]
<1>1. Len(d) \in Nat /\ DOMAIN d = 1 .. Len(d) /\ \A i \in DOMAIN d : d[i].id \in Blocks /\ d[i].text \in Texts
  <2>1. d \in Seq([id : Blocks, text : Texts]) BY DEF Documents
  <2>2. Len(d) \in Nat /\ DOMAIN d = 1 .. Len(d) BY <2>1
  <2> DEFINE R == [id : Blocks, text : Texts]
  <2>3. \A i \in 1 .. Len(d) : d[i] \in R
    <3>1. d \in Seq(R) BY <2>1
    <3> HIDE DEF R
    <3> QED BY <3>1
  <2> QED BY <2>2, <2>3
<1>2. Order(d) = [i \in 1 .. Len(d) |-> d[i].id] BY <1>1 DEF Order
<1>3. Order(d) \in Seq(Blocks) /\ DOMAIN Order(d) = DOMAIN d /\ \A i \in DOMAIN d : Order(d)[i] = d[i].id
  <2>1. [i \in 1 .. Len(d) |-> d[i].id] \in Seq(Blocks) BY <1>1
  <2> QED BY <1>1, <1>2, <2>1
<1>4. ToSet(Order(d)) = {d[i].id : i \in DOMAIN d} BY <1>3 DEF ToSet
<1>5. ASSUME NEW b \in ToSet(Order(d))
      PROVE  (CHOOSE x \in {d[i] : i \in DOMAIN d} : x.id = b).text \in Texts
  <2>1. \E x \in {d[i] : i \in DOMAIN d} : x.id = b BY <1>4
  <2>2. (CHOOSE x \in {d[i] : i \in DOMAIN d} : x.id = b) \in {d[i] : i \in DOMAIN d} BY <2>1
  <2> QED BY <1>1, <2>2
<1>6. BlockMap(d) = [b \in ToSet(Order(d)) |-> (CHOOSE x \in {d[i] : i \in DOMAIN d} : x.id = b).text]
  BY <1>4 DEF BlockMap
<1> QED BY <1>3, <1>4, <1>5, <1>6

\* The place of a block in an order.
LEMMA PositionOf ==
  ASSUME NEW w \in Copies, Joined(w), NEW b \in DOMAIN w.text
  PROVE  Position(w, b) \in 1 .. Len(w.order) /\ w.order[Position(w, b)] = b
<1>1. w.order \in Seq(Blocks) BY DEF Copies
<1>2. DOMAIN w.order = 1 .. Len(w.order) BY <1>1
<1>3. \E i \in DOMAIN w.order : w.order[i] = b BY DEF Joined, ToSet
<1>4. Position(w, b) \in DOMAIN w.order /\ w.order[Position(w, b)] = b
  BY <1>3 DEF Position
<1> QED BY <1>2, <1>4

\* An operation that fits changes order and blocks alike.
LEMMA OpKeeps ==
  ASSUME NEW w \in Copies, Joined(w), NEW op \in Ops, Fits(w, op)
  PROVE  /\ OrderAfter(w, op) \in Seq(Blocks)
         /\ TextAfter(w, op) \in UNION {[bs -> Texts] : bs \in SUBSET Blocks}
         /\ IsInjective(OrderAfter(w, op)) /\ ToSet(OrderAfter(w, op)) = DOMAIN TextAfter(w, op)
<1>1. w.order \in Seq(Blocks) /\ IsInjective(w.order) /\ ToSet(w.order) = DOMAIN w.text
  BY DEF Copies, Joined
<1>2. PICK bs \in SUBSET Blocks : w.text \in [bs -> Texts] BY DEF Copies
<1>3. DOMAIN w.text = bs /\ op.target \in bs BY <1>2 DEF Fits
<1>4. op.new \in Texts /\ op.newBlock \in Blocks
      /\ op.action \in {"set_field", "append_text", "insert_block_after", "insert_block_before", "delete_block"}
  BY DEF Ops
<1>5. Position(w, op.target) \in 1 .. Len(w.order)
  BY <1>3, PositionOf
<1>6. Len(w.order) \in Nat BY <1>1
<1>7. ASSUME NEW f, NEW ds \in SUBSET Blocks, f \in [ds -> Texts]
      PROVE  f \in UNION {[cs -> Texts] : cs \in SUBSET Blocks}
  BY <1>7
<1>8. CASE op.action \in {"set_field", "append_text"}
  <2>1. OrderAfter(w, op) = w.order BY <1>8 DEF OrderAfter
  <2>2. TextAfter(w, op) = [w.text EXCEPT ![op.target] = op.new] BY <1>8 DEF TextAfter
  <2>3. [w.text EXCEPT ![op.target] = op.new] \in [bs -> Texts] BY <1>2, <1>3, <1>4
  <2> QED BY <1>1, <1>3, <1>7, <2>1, <2>2, <2>3
<1>9. CASE op.action = "delete_block"
  <2>1. OrderAfter(w, op) = Removed(w.order, op.target) BY <1>9 DEF OrderAfter
  <2>2. TextAfter(w, op) = [b \in bs \ {op.target} |-> w.text[b]] BY <1>3, <1>9 DEF TextAfter
  <2>3. TextAfter(w, op) \in [bs \ {op.target} -> Texts] BY <1>2, <2>2
  <2>4. TextAfter(w, op) \in UNION {[cs -> Texts] : cs \in SUBSET Blocks} BY <2>3, <1>7
  <2>5. DOMAIN TextAfter(w, op) = bs \ {op.target} BY <2>3
  <2>6. /\ Removed(w.order, op.target) \in Seq(Blocks) /\ IsInjective(Removed(w.order, op.target))
        /\ ToSet(Removed(w.order, op.target)) = ToSet(w.order) \ {op.target}
    BY <1>1, WithoutOf
  <2>7. ToSet(OrderAfter(w, op)) = DOMAIN TextAfter(w, op) BY <1>1, <1>3, <2>1, <2>5, <2>6
  <2>8. OrderAfter(w, op) \in Seq(Blocks) /\ IsInjective(OrderAfter(w, op)) BY <2>1, <2>6
  <2> QED BY <2>4, <2>7, <2>8
<1>10. CASE op.action \in {"insert_block_after", "insert_block_before"}
  <2>1. PICK i \in 1 .. Len(w.order) + 1 : OrderAfter(w, op) = InsertAt(w.order, i, op.newBlock)
    <3>1. Position(w, op.target) \in 1 .. Len(w.order) + 1 /\ Position(w, op.target) + 1 \in 1 .. Len(w.order) + 1
      BY <1>5, <1>6
    <3>2. CASE op.action = "insert_block_after"
      <4>1. OrderAfter(w, op) = InsertAt(w.order, Position(w, op.target) + 1, op.newBlock)
        BY <3>2 DEF OrderAfter
      <4> QED BY <3>1, <4>1
    <3>3. CASE op.action = "insert_block_before"
      <4>1. OrderAfter(w, op) = InsertAt(w.order, Position(w, op.target), op.newBlock)
        BY <3>3 DEF OrderAfter
      <4> QED BY <3>1, <4>1
    <3> QED BY <1>10, <3>2, <3>3
  <2>2. op.newBlock \notin bs BY <1>3, <1>10 DEF Fits
  <2>3. TextAfter(w, op) = [b \in bs \cup {op.newBlock} |-> IF b = op.newBlock THEN op.new ELSE w.text[b]]
    BY <1>3, <1>10 DEF TextAfter
  <2>4. TextAfter(w, op) \in [bs \cup {op.newBlock} -> Texts]
    BY <1>2, <1>4, <2>3
  <2>5. TextAfter(w, op) \in UNION {[cs -> Texts] : cs \in SUBSET Blocks}
    BY <1>4, <1>7, <2>4
  <2>6. DOMAIN TextAfter(w, op) = bs \cup {op.newBlock} BY <2>4
  <2>7. op.newBlock \notin ToSet(w.order) BY <1>1, <1>3, <2>2
  <2>8. /\ InsertAt(w.order, i, op.newBlock) \in Seq(Blocks) /\ IsInjective(InsertAt(w.order, i, op.newBlock))
        /\ ToSet(InsertAt(w.order, i, op.newBlock)) = ToSet(w.order) \cup {op.newBlock}
    BY <1>1, <1>4, <2>7, InsertKeeps
  <2>9. ToSet(OrderAfter(w, op)) = DOMAIN TextAfter(w, op) BY <1>1, <1>3, <2>1, <2>6, <2>8
  <2>10. OrderAfter(w, op) \in Seq(Blocks) /\ IsInjective(OrderAfter(w, op)) BY <2>1, <2>8
  <2> QED BY <2>5, <2>9, <2>10
<1> QED BY <1>4, <1>8, <1>9, <1>10

LEMMA PatchInitHolds == PatchInit => PatchInv
<1> SUFFICES ASSUME PatchInit PROVE PatchInv OBVIOUS
<1>1. PICK b \in Blocks, t \in Texts : document = <<[id |-> b, text |-> t]>>
  BY DEF PatchInit
<1>2. document \in Documents BY <1>1 DEF Documents
<1>3. DOMAIN document = {1}
  <2>1. Len(document) = 1 BY <1>1
  <2> QED BY <1>2, <2>1 DEF Documents
<1>4. IsInjective(Order(document)) BY <1>3 DEF IsInjective, Order
<1> QED BY <1>2, <1>4 DEF PatchInv, PatchInit

LEMMA BeginPatchStep == ASSUME PatchInv, BeginPatch PROVE PatchInv'
<1> DEFINE next == [order |-> Order(document), text |-> BlockMap(document), ops |-> 0]
<1>1. document \in Documents /\ IsInjective(Order(document)) BY DEF PatchInv
<1>2. /\ Order(document) \in Seq(Blocks) /\ BlockMap(document) \in [ToSet(Order(document)) -> Texts]
      /\ DOMAIN BlockMap(document) = ToSet(Order(document))
  BY <1>1, OrderOf
<1>3. ToSet(Order(document)) \subseteq Blocks
  BY <1>2 DEF ToSet
<1>4. BlockMap(document) \in UNION {[cs -> Texts] : cs \in SUBSET Blocks}
  BY <1>2, <1>3
<1>5. next \in Copies
  <2>1. 0 \in 0 .. MaxPatchOps BY PatchAssumption
  <2> QED BY <1>2, <1>4, <2>1 DEF Copies
<1>6. next.order = Order(document) /\ next.text = BlockMap(document) OBVIOUS
<1> HIDE DEF next
<1>7. Joined(next) BY <1>1, <1>2, <1>6 DEF Joined
<1>8. working' = next /\ document' = document BY DEF BeginPatch, next
<1>9. Joined(working') BY <1>7, <1>8
<1>10. IsInjective(Order(document')) BY <1>1, <1>8
<1> QED BY <1>1, <1>5, <1>8, <1>9, <1>10 DEF PatchInv

LEMMA ApplyOpStep ==
  ASSUME PatchInv, NEW op \in Ops, ApplyOp(op)
  PROVE  PatchInv'
<1>1. PICK w \in Copies : w = working /\ Joined(w) /\ Fits(w, op) /\ w.ops < MaxPatchOps
  BY DEF PatchInv, ApplyOp
<1> DEFINE next == [order |-> OrderAfter(w, op), text |-> TextAfter(w, op), ops |-> w.ops + 1]
<1>2. /\ OrderAfter(w, op) \in Seq(Blocks)
      /\ TextAfter(w, op) \in UNION {[bs -> Texts] : bs \in SUBSET Blocks}
      /\ IsInjective(OrderAfter(w, op)) /\ ToSet(OrderAfter(w, op)) = DOMAIN TextAfter(w, op)
  BY <1>1, OpKeeps
<1>3. w.ops + 1 \in 0 .. MaxPatchOps
  BY <1>1, PatchAssumption DEF Copies
<1>4. next \in Copies BY <1>2, <1>3 DEF Copies
<1>5. Joined(next) BY <1>2 DEF Joined
<1>6. working' = next BY <1>1 DEF ApplyOp
<1> HIDE DEF next
<1>7. Joined(working') BY <1>5, <1>6
<1>8. document' = document /\ IsInjective(Order(document')) BY DEF PatchInv, ApplyOp
<1> QED BY <1>4, <1>6, <1>7, <1>8 DEF PatchInv

LEMMA EndOfPatchStep == ASSUME PatchInv, EndOfPatch PROVE PatchInv'
<1>1. PICK w \in Copies : w = working /\ Joined(w) BY DEF PatchInv, EndOfPatch
<1>2. CASE w.ops = 0
  <2>1. document' = document /\ working' = NoPatch BY <1>1, <1>2 DEF EndOfPatch
  <2>2. IsInjective(Order(document')) BY <2>1 DEF PatchInv
  <2> QED BY <2>1, <2>2 DEF PatchInv
<1>3. CASE w.ops # 0
  <2> DEFINE next == [i \in DOMAIN w.order |-> [id |-> w.order[i], text |-> w.text[w.order[i]]]]
  <2>1. w.order \in Seq(Blocks) /\ IsInjective(w.order) /\ ToSet(w.order) = DOMAIN w.text
    BY <1>1 DEF Copies, Joined
  <2>2. Len(w.order) \in Nat /\ DOMAIN w.order = 1 .. Len(w.order) BY <2>1
  <2>3. PICK bs \in SUBSET Blocks : w.text \in [bs -> Texts] BY DEF Copies
  <2>4. \A i \in DOMAIN w.order : w.order[i] \in Blocks /\ w.text[w.order[i]] \in Texts
    BY <2>1, <2>3 DEF ToSet
  <2>5. next \in Documents /\ DOMAIN next = DOMAIN w.order
    <3>1. \A i \in 1 .. Len(w.order) : [id |-> w.order[i], text |-> w.text[w.order[i]]] \in [id : Blocks, text : Texts]
      BY <2>2, <2>4
    <3> QED BY <2>2, <3>1 DEF Documents
  <2>6. IsInjective(Order(next))
    <3>1. \A i \in DOMAIN next : next[i].id = w.order[i] OBVIOUS
    <3> HIDE DEF next
    <3> QED BY <2>1, <2>5, <3>1 DEF IsInjective, Order
  <2>7. document' = next /\ working' = NoPatch BY <1>1, <1>3 DEF EndOfPatch
  <2> HIDE DEF next
  <2>8. IsInjective(Order(document')) BY <2>6, <2>7
  <2> QED BY <2>5, <2>7, <2>8 DEF PatchInv
<1> QED BY <1>2, <1>3

LEMMA PatchStep == PatchInv /\ [PatchNext]_patchVars => PatchInv'
<1> SUFFICES ASSUME PatchInv, [PatchNext]_patchVars PROVE PatchInv' OBVIOUS
<1>1. ASSUME document' = document, working' \in {working, NoPatch} PROVE PatchInv'
  <2>1. IsInjective(Order(document')) BY <1>1 DEF PatchInv
  <2>2. working' # NoPatch => Joined(working')
    <3>1. SUFFICES ASSUME working' # NoPatch PROVE Joined(working') OBVIOUS
    <3>2. working' = working BY <1>1, <3>1
    <3> QED BY <3>1, <3>2 DEF PatchInv
  <2> QED BY <1>1, <2>1, <2>2 DEF PatchInv
<1>2. CASE UNCHANGED patchVars BY <1>1, <1>2 DEF patchVars
<1>3. ASSUME NEW op \in Ops, Reject(op) PROVE PatchInv'
  BY <1>1, <1>3 DEF Reject
<1> QED BY <1>2, <1>3, BeginPatchStep, EndOfPatchStep, ApplyOpStep DEF PatchNext

LEMMA PatchInvHolds == PatchSpec => []PatchInv
BY PatchInitHolds, PatchStep, PTL DEF PatchSpec

\* Whatever a patch inserts, deletes and sets, for documents and patches of any length: no
\* block is lost and none is there twice, in the copy and in the next version
\* (artifact_patch_service.py).
THEOREM OneOfEachHolds == PatchSpec => []OneOfEach
<1>1. PatchInv => OneOfEach BY DEF PatchInv, Joined, OneOfEach
<1> QED BY <1>1, PatchInvHolds, PTL

-----------------------------------------------------------------------------
(* Handoff: suffixes. *)

LEMMA ReverseOf ==
  ASSUME NEW S, NEW s \in Seq(S)
  PROVE  /\ Reverse(s) \in Seq(S) /\ Len(Reverse(s)) = Len(s)
         /\ \A i \in 1 .. Len(s) : Reverse(s)[i] = s[Len(s) - i + 1]
<1>1. \A i \in 1 .. Len(s) : Len(s) - i + 1 \in 1 .. Len(s) OBVIOUS
<1>2. \A i \in 1 .. Len(s) : s[Len(s) - i + 1] \in S BY <1>1
<1> QED BY <1>2 DEF Reverse

\* What it is to be a suffix, entry by entry.
LEMMA SuffixOf ==
  ASSUME NEW S, NEW s \in Seq(S), NEW t \in Seq(S)
  PROVE  IsSuffix(s, t) <=>
           /\ Len(s) <= Len(t)
           /\ \A i \in 1 .. Len(s) : s[i] = t[Len(t) - Len(s) + i]
<1> DEFINE n == Len(s)
           m == Len(t)
           a == Reverse(s)
           b == Reverse(t)
<1>1. a \in Seq(S) /\ Len(a) = n /\ b \in Seq(S) /\ Len(b) = m BY ReverseOf
<1>2. \A i \in 1 .. n : a[i] = s[n - i + 1] BY ReverseOf
<1>3. \A i \in 1 .. m : b[i] = t[m - i + 1] BY ReverseOf
<1>4. n \in Nat /\ m \in Nat OBVIOUS
<1>5. IsSuffix(s, t) <=> n <= m /\ SubSeq(a, 1, n) = SubSeq(b, 1, n)
  BY <1>1 DEF IsSuffix, IsPrefix
<1> HIDE DEF a, b, n, m
<1>6. ASSUME n <= m
      PROVE  SubSeq(a, 1, n) = SubSeq(b, 1, n) <=> \A i \in 1 .. n : a[i] = b[i]
  <2>1. SubSeq(a, 1, n) = [i \in 1 .. n |-> a[i]]
    BY <1>1, <1>4
  <2>2. SubSeq(b, 1, n) = [i \in 1 .. n |-> b[i]]
    BY <1>1, <1>4, <1>6
  <2> QED BY <2>1, <2>2
<1>7. ASSUME n <= m
      PROVE  (\A i \in 1 .. n : a[i] = b[i]) <=> \A i \in 1 .. n : s[i] = t[m - n + i]
  <2>1. \A i \in 1 .. n : n - i + 1 \in 1 .. n /\ n - (n - i + 1) + 1 = i
                            /\ m - (n - i + 1) + 1 = m - n + i /\ m - n + (n - i + 1) = m - i + 1
    BY <1>4
  <2>2. \A i \in 1 .. n : b[i] = t[m - i + 1] BY <1>3, <1>4, <1>7
  <2>3. ASSUME \A i \in 1 .. n : a[i] = b[i], NEW i \in 1 .. n PROVE s[i] = t[m - n + i]
    <3> DEFINE j == n - i + 1
    <3>1. j \in 1 .. n /\ n - j + 1 = i /\ m - j + 1 = m - n + i BY <2>1
    <3> HIDE DEF j
    <3> QED BY <3>1, <2>2, <2>3, <1>2
  <2>4. ASSUME \A i \in 1 .. n : s[i] = t[m - n + i], NEW i \in 1 .. n PROVE a[i] = b[i]
    <3> DEFINE j == n - i + 1
    <3>1. j \in 1 .. n /\ m - n + j = m - i + 1 BY <2>1
    <3> HIDE DEF j
    <3>2. a[i] = s[j] BY <1>2 DEF j
    <3> QED BY <3>1, <3>2, <2>2, <2>4
  <2> QED BY <2>3, <2>4
<1> QED BY <1>5, <1>6, <1>7 DEF n, m

LEMMA SuffixAppends ==
  ASSUME NEW S, NEW s \in Seq(S), NEW t \in Seq(S), NEW e \in S, IsSuffix(s, t)
  PROVE  IsSuffix(Append(s, e), Append(t, e))
<1> DEFINE n == Len(s)
           m == Len(t)
           u == Append(s, e)
           v == Append(t, e)
<1>1. n \in Nat /\ m \in Nat /\ n <= m /\ \A i \in 1 .. n : s[i] = t[m - n + i] BY SuffixOf
<1>2. u \in Seq(S) /\ Len(u) = n + 1 /\ v \in Seq(S) /\ Len(v) = m + 1 OBVIOUS
<1>3. (\A i \in 1 .. n : u[i] = s[i]) /\ u[n + 1] = e OBVIOUS
<1>4. (\A i \in 1 .. m : v[i] = t[i]) /\ v[m + 1] = e OBVIOUS
<1> HIDE DEF n, m, u, v
<1>5. \A i \in 1 .. n + 1 : u[i] = v[(m + 1) - (n + 1) + i]
  <2> SUFFICES ASSUME NEW i \in 1 .. n + 1 PROVE u[i] = v[(m + 1) - (n + 1) + i] OBVIOUS
  <2>1. (m + 1) - (n + 1) + i = m - n + i BY <1>1
  <2>2. CASE i = n + 1
    <3>1. m - n + i = m + 1 BY <1>1, <2>2
    <3> QED BY <2>1, <2>2, <3>1, <1>3, <1>4
  <2>3. CASE i # n + 1
    <3>1. i \in 1 .. n /\ m - n + i \in 1 .. m BY <1>1, <2>3
    <3> QED BY <2>1, <3>1, <1>1, <1>3, <1>4
  <2> QED BY <2>2, <2>3
<1>6. n + 1 <= m + 1 BY <1>1
<1>7. IsSuffix(u, v) BY <1>2, <1>5, <1>6, SuffixOf
<1> QED BY <1>7 DEF u, v

\* The empty history is a suffix, and the last entry of a suffix is there in the whole.
LEMMA SuffixFacts ==
  ASSUME NEW S, NEW t \in Seq(S)
  PROVE  /\ IsSuffix(<< >>, t)
         /\ \A s \in Seq(S) : \A i \in DOMAIN s :
              IsSuffix(s, t) => \E j \in DOMAIN t : t[j] = s[i]
<1>1. IsSuffix(<< >>, t)
  <2>1. << >> \in Seq(S) /\ Len(<< >>) = 0 /\ Len(<< >>) <= Len(t) OBVIOUS
  <2>2. \A i \in 1 .. Len(<< >>) : << >>[i] = t[Len(t) - Len(<< >>) + i] OBVIOUS
  <2> QED BY <2>1, <2>2, SuffixOf
<1>2. ASSUME NEW s \in Seq(S), NEW i \in DOMAIN s, IsSuffix(s, t)
      PROVE  \E j \in DOMAIN t : t[j] = s[i]
  <2>1. i \in 1 .. Len(s) OBVIOUS
  <2>2. Len(s) <= Len(t) /\ s[i] = t[Len(t) - Len(s) + i] BY <1>2, <2>1, SuffixOf
  <2>3. Len(t) - Len(s) + i \in 1 .. Len(t) BY <2>1, <2>2
  <2> QED BY <2>2, <2>3
<1> QED BY <1>1, <1>2

-----------------------------------------------------------------------------
(* Handoff: the inductive invariant. *)

\* A decision is lost with the process only, so that what is approved is on record unless
\* something died.
HandoffInv == HandoffTypeOK /\ unrecorded <= deaths /\ ApprovedWork

LEMMA HandoffInitHolds == HandoffInit => HandoffInv
<1> SUFFICES ASSUME HandoffInit PROVE HandoffInv OBVIOUS
<1>1. HandoffTypeOK
  <2>1. records \in Seq(BundleStatus) BY DEF HandoffInit
  <2>2. builds \in 0 .. MaxBuilds /\ deaths \in 0 .. MaxDeaths /\ unrecorded \in 0 .. MaxDeaths
    BY HandoffAssumption DEF HandoffInit
  <2> QED BY <2>1, <2>2 DEF HandoffInit, HandoffTypeOK
<1>2. ApprovedWork
  <2>1. NoFile # "routed" BY HandoffAssumption
  <2> QED BY <2>1 DEF HandoffInit, ApprovedWork, HistoryIsPath
<1>3. unrecorded <= deaths BY DEF HandoffInit
<1> QED BY <1>1, <1>2, <1>3 DEF HandoffInv

LEMMA NewBundleFits ==
  /\ NewBundle \in Bundles /\ NewBundle # NoFile /\ NewBundle.history = << >>
  /\ NewBundle.status = "draft"
<1>1. << >> \in Seq(BundleStatus) OBVIOUS
<1>2. NewBundle \in Bundles BY <1>1 DEF NewBundle, Bundles, BundleStatus
<1>3. NewBundle # NoFile BY <1>2, HandoffAssumption
<1> QED BY <1>2, <1>3 DEF NewBundle

\* A bundle is built anew, with or without packs.
LEMMA GeneratePackStep ==
  ASSUME HandoffInv, GenerateBundle, Live, UNCHANGED <<records, snapshot, tasks, requests, linked, unrecorded>>,
         highRisk' \in BOOLEAN
  PROVE  HandoffInv'
<1> USE DEF HandoffInv
<1>1. bundle' \in Bundles /\ bundle' # NoFile /\ bundle'.history = << >> /\ bundle'.status = "draft"
  BY NewBundleFits DEF GenerateBundle
<1>2. HandoffTypeOK'
  <2>1. builds' \in 0 .. MaxBuilds BY HandoffAssumption DEF GenerateBundle, HandoffTypeOK
  <2> QED BY <1>1, <2>1 DEF HandoffTypeOK, Live
<1>3. HistoryIsPath'
  BY <1>1 DEF HistoryIsPath
<1>4. IsSuffix(bundle'.history, records)
  BY <1>1, SuffixFacts DEF HandoffTypeOK
<1>5. ApprovedWork'
  BY <1>3, <1>4 DEF ApprovedWork
<1> QED BY <1>2, <1>5 DEF Live

\* The death of an operation that has written packs only.
LEMMA NothingBuilt ==
  ASSUME HandoffInv, UNCHANGED <<bundle, builds>>, Live \/ Die, highRisk' \in BOOLEAN,
         UNCHANGED <<records, snapshot, tasks, requests, linked, unrecorded>>
  PROVE  HandoffInv'
<1> USE DEF HandoffInv
<1>1. deaths' \in 0 .. MaxDeaths /\ unrecorded <= deaths'
  BY HandoffAssumption DEF HandoffTypeOK, Live, Die
<1>2. HandoffTypeOK' BY <1>1 DEF HandoffTypeOK
<1>3. ApprovedWork' BY DEF ApprovedWork, HistoryIsPath
<1> QED BY <1>1, <1>2, <1>3

LEMMA TransitionFits ==
  ASSUME HandoffInv, NEW to \in BundleStatus, Transition(to)
  PROVE  /\ bundle \in Bundles /\ bundle' \in Bundles /\ bundle' # NoFile
         /\ bundle'.history = Append(bundle.history, to)
         /\ HistoryIsPath'
<1> DEFINE h == bundle.history
           n == Len(h)
<1>1. bundle \in Bundles /\ h \in Seq(BundleStatus) /\ bundle.status \in BundleStatus /\ n \in Nat
  BY DEF HandoffInv, HandoffTypeOK, Transition, Bundles
<1>2. /\ bundle.status = IF h = << >> THEN "draft" ELSE h[n]
      /\ \A i \in 1 .. n : h[i] = "approved" => i = n /\ (i = 1 \/ h[i - 1] = "draft")
  BY <1>1 DEF HandoffInv, ApprovedWork, HistoryIsPath, Transition, Last
<1>3. bundle'.status = to /\ bundle'.history = Append(h, to) /\ bundle' \in Bundles
  BY <1>1 DEF Transition, Bundles
<1>4. bundle' # NoFile BY <1>3, HandoffAssumption
<1>5. Len(bundle'.history) = n + 1 /\ bundle'.history[n + 1] = to /\ \A i \in 1 .. n : bundle'.history[i] = h[i]
      /\ DOMAIN bundle'.history = 1 .. n + 1 /\ bundle'.history # << >>
  BY <1>1, <1>3
<1>6. ASSUME NEW i \in 1 .. n, h[i] = "approved" PROVE FALSE
  <2>1. i = n /\ h[n] = "approved" BY <1>2, <1>6
  <2>2. h # << >> BY <1>1, <2>1
  <2>3. bundle.status = "approved" BY <1>2, <2>1, <2>2
  <2> QED BY <2>3 DEF Transition, ValidTransition
<1>7. ASSUME to = "approved", n # 0 PROVE h[n] = "draft"
  <2>1. bundle.status = "draft" BY <1>7 DEF Transition, ValidTransition
  <2>2. h # << >> BY <1>7
  <2> QED BY <2>1, <2>2, <1>2
<1> HIDE DEF h, n
<1>8. ASSUME NEW i \in 1 .. n + 1, bundle'.history[i] = "approved"
      PROVE  i = n + 1 /\ (i = 1 \/ bundle'.history[i - 1] = "draft")
  <2>1. i = n + 1
    BY <1>1, <1>5, <1>6, <1>8
  <2>2. ASSUME n # 0 PROVE bundle'.history[i - 1] = "draft"
    <3>1. i - 1 = n /\ n \in 1 .. n BY <2>1, <2>2, <1>1
    <3>2. to = "approved" BY <2>1, <1>5, <1>8
    <3> QED BY <3>1, <3>2, <2>2, <1>5, <1>7
  <2> QED BY <2>1, <2>2
<1>9. HistoryIsPath'
  BY <1>3, <1>5, <1>8 DEF HistoryIsPath, Last
<1> QED BY <1>1, <1>3, <1>4, <1>9 DEF h

LEMMA DecidePackStep ==
  ASSUME HandoffInv, NEW to \in BundleStatus, DecideOnBundle(to)
  PROVE  HandoffInv'
<1> USE DEF HandoffInv
<1>1. /\ bundle \in Bundles /\ bundle' \in Bundles /\ bundle' # NoFile
      /\ bundle'.history = Append(bundle.history, to) /\ HistoryIsPath'
  BY TransitionFits DEF DecideOnBundle
<1>2. bundle # NoFile /\ bundle.history \in Seq(BundleStatus) /\ records \in Seq(BundleStatus)
  BY <1>1, HandoffAssumption DEF Bundles, HandoffTypeOK
<1>3. CASE AppendRecord(to) /\ unrecorded' = unrecorded /\ (Live \/ Die) /\ snapshot' \in {snapshot, to}
  <2>1. records' \in Seq(BundleStatus) /\ records' = Append(records, to)
    BY <1>2, <1>3 DEF AppendRecord
  <2>2. deaths' \in 0 .. MaxDeaths /\ unrecorded' <= deaths'
    BY <1>3, HandoffAssumption DEF HandoffTypeOK, Live, Die
  <2>3. HandoffTypeOK'
    BY <1>1, <1>3, <2>1, <2>2 DEF HandoffTypeOK, DecideOnBundle
  <2>4. unrecorded' = 0 => IsSuffix(bundle'.history, records')
    BY <1>1, <1>2, <1>3, <2>1, SuffixAppends DEF ApprovedWork
  <2>5. ASSUME NEW i \in DOMAIN records PROVE i \in DOMAIN records' /\ records'[i] = records[i]
    BY <1>2, <2>1
  <2>6. (\E p \in Packs : tasks'[p] # NoFile \/ requests'[p] = "routed") =>
          unrecorded' > 0 \/ \E i \in DOMAIN records' : records'[i] = "approved"
    BY <1>3, <2>5 DEF ApprovedWork, DecideOnBundle
  <2>7. ApprovedWork' BY <1>1, <2>4, <2>6 DEF ApprovedWork, DecideOnBundle
  <2> QED BY <2>2, <2>3, <2>7
<1>4. CASE unrecorded' = unrecorded + 1 /\ Die /\ UNCHANGED <<records, snapshot>>
  <2>1. unrecorded' \in 0 .. MaxDeaths /\ deaths' \in 0 .. MaxDeaths /\ unrecorded' <= deaths' /\ unrecorded' > 0
    BY <1>4, HandoffAssumption DEF HandoffTypeOK, Die
  <2>2. HandoffTypeOK'
    BY <1>1, <1>4, <2>1 DEF HandoffTypeOK, DecideOnBundle
  <2>3. ApprovedWork' BY <1>1, <2>1, <1>4 DEF ApprovedWork, DecideOnBundle
  <2> QED BY <2>1, <2>2, <2>3
<1> QED BY <1>3, <1>4 DEF DecideOnBundle, Persist, SaveSnapshot

\* What is routed was approved: the last entry of the history of the bundle.
LEMMA RoutableRecorded ==
  ASSUME HandoffInv, bundle # NoFile, Routable
  PROVE  unrecorded > 0 \/ \E i \in DOMAIN records : records[i] = "approved"
<1> DEFINE h == bundle.history
<1>1. h \in Seq(BundleStatus) /\ records \in Seq(BundleStatus) /\ unrecorded \in Nat
  BY DEF HandoffInv, HandoffTypeOK, Bundles
<1>2. h # << >> /\ h[Len(h)] = "approved"
  BY DEF HandoffInv, ApprovedWork, HistoryIsPath, Last, Routable
<1>3. Len(h) \in DOMAIN h BY <1>1, <1>2
<1>4. unrecorded = 0 => IsSuffix(h, records) BY DEF HandoffInv, ApprovedWork
<1> HIDE DEF h
<1> QED BY <1>1, <1>2, <1>3, <1>4, SuffixFacts

LEMMA RouteStep ==
  ASSUME HandoffInv, NEW mode \in Modes, Route(mode)
  PROVE  HandoffInv'
<1> USE DEF HandoffInv
<1>1. unrecorded > 0 \/ \E i \in DOMAIN records : records[i] = "approved"
  BY RoutableRecorded DEF Route
<1>2. deaths' \in 0 .. MaxDeaths /\ unrecorded <= deaths' /\ linked' \in BOOLEAN
  <2>1. Live \/ Die BY DEF Route
  <2>2. deaths' \in 0 .. MaxDeaths /\ unrecorded <= deaths'
    BY <2>1, HandoffAssumption DEF HandoffTypeOK, Live, Die
  <2>3. linked' \in {TRUE, FALSE, linked} BY Zenon DEF Route, Link
  <2> QED BY <2>2, <2>3 DEF HandoffTypeOK
<1>3. requests' \in [Packs -> {NoFile, "preview", "routed"}]
  BY DEF HandoffTypeOK, Route, Materialize
<1>4. tasks' \in [Packs -> Tasks \cup {NoFile}]
      /\ \A p \in Packs : tasks'[p] # NoFile => (tasks'[p] = tasks[p] /\ tasks[p] # NoFile)
                                                 \/ tasks'[p].status = "pending"
  <2>1. EffectiveMode(mode) \in Modes BY DEF EffectiveMode, Modes
  <2>2. [mode |-> EffectiveMode(mode), status |-> "pending"] \in Tasks BY <2>1 DEF Tasks, TaskStatus
  <2> QED BY <2>2 DEF Route, HandoffTypeOK
<1>5. HandoffTypeOK' BY <1>2, <1>3, <1>4 DEF HandoffTypeOK, Route
<1>6. ApprovedWork'
  <2>1. HistoryIsPath' BY DEF ApprovedWork, HistoryIsPath, Route
  <2> QED BY <1>1, <1>4, <2>1 DEF ApprovedWork, Route
<1> QED BY <1>2, <1>5, <1>6 DEF Route

LEMMA PrepareStep ==
  ASSUME HandoffInv, NEW ps \in SUBSET Packs, PrepareHandoff(ps)
  PROVE  HandoffInv'
<1> USE DEF HandoffInv
<1>1. requests' \in [Packs -> {NoFile, "preview", "routed"}]
      /\ \A p \in Packs : requests'[p] = "routed" => requests[p] = "routed"
  BY DEF HandoffTypeOK, PrepareHandoff, Materialize
<1>2. HandoffTypeOK' BY <1>1 DEF HandoffTypeOK, PrepareHandoff
<1>3. HistoryIsPath' BY DEF ApprovedWork, HistoryIsPath, PrepareHandoff
<1>4. ApprovedWork' BY <1>1, <1>3 DEF ApprovedWork, PrepareHandoff
<1> QED BY <1>2, <1>4 DEF PrepareHandoff

LEMMA UpdateTaskStep ==
  ASSUME HandoffInv, NEW p \in Packs, NEW to \in TaskStatus, UpdateTask(p, to)
  PROVE  HandoffInv'
<1> USE DEF HandoffInv
<1> DEFINE next == [tasks[p] EXCEPT !.status = to]
<1>1. tasks[p] \in Tasks /\ tasks' = [tasks EXCEPT ![p] = next]
  BY DEF HandoffTypeOK, UpdateTask
<1>2. next \in Tasks /\ next.status = to /\ next.mode = tasks[p].mode
  BY <1>1 DEF Tasks
<1>3. to = "waiting_review" => tasks[p].mode = "agent_assisted"
  <2>1. Updates(tasks[p], to) BY DEF UpdateTask
  <2> QED BY <2>1 DEF Updates, ApprovedWork, UpdateTask
<1> HIDE DEF next
<1>4. tasks' \in [Packs -> Tasks \cup {NoFile}]
      /\ tasks'[p] = next /\ \A q \in Packs \ {p} : tasks'[q] = tasks[q]
  BY <1>1, <1>2 DEF HandoffTypeOK
<1>5. deaths' \in 0 .. MaxDeaths /\ unrecorded <= deaths'
  BY HandoffAssumption DEF HandoffTypeOK, UpdateTask, Live, Die
<1>6. snapshot' \in BundleStatus \cup {NoFile}
  BY HandoffAssumption DEF HandoffTypeOK, UpdateTask, ShowStatus, SaveSnapshot, Bundles
<1>7. HandoffTypeOK' BY <1>4, <1>5, <1>6 DEF HandoffTypeOK, UpdateTask
<1>8. HistoryIsPath' BY DEF ApprovedWork, HistoryIsPath, UpdateTask
<1>9. tasks[p] # NoFile BY DEF UpdateTask
<1>10. \A q \in Packs : tasks'[q] # NoFile /\ tasks'[q].status = "waiting_review" =>
         tasks'[q].mode = "agent_assisted"
  BY <1>2, <1>3, <1>4 DEF ApprovedWork
<1>11. (\E q \in Packs : tasks'[q] # NoFile \/ requests'[q] = "routed") =>
          unrecorded' > 0 \/ \E i \in DOMAIN records' : records'[i] = "approved"
  BY <1>4, <1>9 DEF ApprovedWork, UpdateTask
<1>12. bundle' # NoFile /\ unrecorded' = 0 => IsSuffix(bundle'.history, records')
  BY DEF ApprovedWork, UpdateTask
<1>13. ApprovedWork' BY <1>8, <1>10, <1>11, <1>12 DEF ApprovedWork
<1> QED BY <1>5, <1>7, <1>13 DEF UpdateTask

LEMMA HandoffStep == HandoffInv /\ [HandoffNext]_handoffVars => HandoffInv'
<1> SUFFICES ASSUME HandoffInv, [HandoffNext]_handoffVars PROVE HandoffInv' OBVIOUS
<1>1. CASE UNCHANGED handoffVars
  BY <1>1 DEF handoffVars, HandoffInv, HandoffTypeOK, ApprovedWork, HistoryIsPath
<1>2. CASE BuildOutputs
  BY <1>2, GeneratePackStep, NothingBuilt DEF BuildOutputs
<1>3. CASE Rebuild
  <2>1. highRisk' \in BOOLEAN BY <1>3 DEF Rebuild, HandoffInv, HandoffTypeOK
  <2> QED BY <1>3, <2>1, GeneratePackStep DEF Rebuild
<1> QED BY <1>1, <1>2, <1>3, DecidePackStep, RouteStep, PrepareStep, UpdateTaskStep DEF HandoffNext

LEMMA HandoffInvHolds == HandoffSpec => []HandoffInv
BY HandoffInitHolds, HandoffStep, PTL DEF HandoffSpec

\* The files of the handoff stay in their types.
THEOREM HandoffTypes == HandoffSpec => []HandoffTypeOK
<1>1. HandoffInv => HandoffTypeOK BY DEF HandoffInv
<1> QED BY <1>1, HandoffInvHolds, PTL

\* Wherever the process dies and however often a bundle is built anew: the history of a
\* bundle is a legal path, nothing is routed of which no approval is on record unless a
\* death took the record, and only assisted tasks wait for a review (packs/approval.py,
\* execution/router.py).
THEOREM ApprovedWorkHolds == HandoffSpec => []ApprovedWork
<1>1. HandoffInv => ApprovedWork BY DEF HandoffInv
<1> QED BY <1>1, HandoffInvHolds, PTL

-----------------------------------------------------------------------------
(* Skills: the inductive invariant. *)

Outs   == Answers \cup Catalogs \cup {NoOutput}
Givens == [demand : Demands \cup {NoOutput}, plans : [PlanSkills -> Outs] \cup {<< >>}]
Works  == [skill : Skills, given : Givens, version : Nat]
Calls  == [state : {"none", "asked", "degraded", "done"}, out : Outs, of : Works \cup {<< >>}]
PlanStages == {"idle", "risks", "plans", "prompts", "planned"}
PlanningRows == [stage : PlanStages, demand : Demands \cup {NoOutput}, version : Nat,
                 calls : [Skills -> Calls]]
CacheRows == [key : Works, at : 0 .. MaxClock, of : Works, out : Answers \cup Catalogs]

\* The model is asked in the stage of the skill only, and the plans are made before any
\* prompt is asked for.
InStage(p) ==
  /\ \A s \in Skills :
       planning[p].calls[s].state = "asked" => Running(p) /\ s \in SkillsOf[planning[p].stage]
  /\ planning[p].stage = "idle" => \A s \in Skills : planning[p].calls[s].state = "none"
  /\ planning[p].stage \in {"risks", "plans"} =>
       \A s \in PromptSkills : planning[p].calls[s].state = "none"
  /\ planning[p].stage = "risks" => \A s \in PlanSkills : planning[p].calls[s].state = "none"
  /\ planning[p].stage \in {"prompts", "planned"} =>
       \A s \in PlanSkills : planning[p].calls[s].state \in {"done", "degraded"}

\* A review that runs has the version of the program, since a new one ends it.
Own(p) ==
  /\ Running(p) => planning[p].version = version
  /\ \A s \in Skills :
       planning[p].calls[s].state = "done" =>
         planning[p].calls[s].of = [skill |-> s, given |-> Given(p, s), version |-> planning[p].version]

\* The key of a row says all that the handler was given.
RowsInv ==
  /\ rows \subseteq CacheRows
  /\ \A r \in rows : r.key = r.of /\ r.at <= clock
  /\ \A r, q \in rows : r.key = q.key => r = q

SkillsInv ==
  /\ clock \in 0 .. MaxClock /\ version \in 0 .. restarts /\ restarts \in Nat
  /\ catalog \in Catalogs \cup {NoOutput} /\ loaded \in Catalogs \cup {NoOutput}
  /\ planning \in [Plannings -> PlanningRows]
  /\ RowsInv
  /\ \A p \in Plannings : InStage(p) /\ Own(p)

\* What a step leaves alone of the other reviews.
OtherPlannings(p) == \A q \in Plannings \ {p} : planning'[q] = planning[q]

LEMMA SkillsApart ==
  /\ PlanSkills \cap PromptSkills = {} /\ Search \notin PlanSkills \cup PromptSkills
  /\ Search \in Skills /\ PlanSkills \subseteq Skills /\ PromptSkills \subseteq Skills
  /\ NoOutput \in Outs /\ NoOutput \notin Answers \cup Catalogs
BY SkillsAssumption DEF Search, Skills, Outs, NoOutput

LEMMA StagesOf ==
  /\ DOMAIN NextStage = {"risks", "plans", "prompts"}
  /\ NextStage["risks"] = "plans" /\ NextStage["plans"] = "prompts" /\ NextStage["prompts"] = "planned"
  /\ SkillsOf["risks"] = {Search} /\ SkillsOf["plans"] = PlanSkills
  /\ SkillsOf["prompts"] = PromptSkills
BY DEF NextStage, SkillsOf

LEMMA GivenTyped ==
  ASSUME SkillsInv, NEW p \in Plannings, NEW s \in Skills
  PROVE  Given(p, s) \in Givens /\ Key(p, s) \in Works /\ Work(p, s) = Key(p, s)
<1>1. planning[p] \in PlanningRows BY DEF SkillsInv
<1>2. [q \in PlanSkills |-> planning[p].calls[q].out] \in [PlanSkills -> Outs]
  BY <1>1, SkillsApart DEF PlanningRows, Calls
<1>3. planning[p].demand \in Demands \cup {NoOutput} BY <1>1 DEF PlanningRows
<1>4. Given(p, s) \in Givens
  BY <1>2, <1>3 DEF Given, Givens
<1>5. version \in Nat BY DEF SkillsInv
<1> QED BY <1>4, <1>5 DEF Key, Work, Works

\* One call of one review takes another value.
LEMMA BecomesOf ==
  ASSUME SkillsInv, NEW p \in Plannings, NEW s \in Skills, NEW call \in Calls, Becomes(p, s, call)
  PROVE  /\ planning' \in [Plannings -> PlanningRows] /\ OtherPlannings(p)
         /\ planning[p] \in PlanningRows
         /\ planning'[p].stage = planning[p].stage /\ planning'[p].demand = planning[p].demand
         /\ planning'[p].version = planning[p].version
         /\ planning'[p].calls[s] = call
         /\ \A t \in Skills \ {s} : planning'[p].calls[t] = planning[p].calls[t]
<1> DEFINE next == [planning[p] EXCEPT !.calls[s] = call]
<1>1. planning[p] \in PlanningRows /\ planning[p].calls \in [Skills -> Calls]
  BY DEF SkillsInv, PlanningRows
<1>2. /\ next \in PlanningRows /\ next.stage = planning[p].stage /\ next.demand = planning[p].demand
      /\ next.version = planning[p].version /\ next.calls = [planning[p].calls EXCEPT ![s] = call]
  BY <1>1 DEF PlanningRows
<1>3. next.calls[s] = call /\ \A t \in Skills \ {s} : next.calls[t] = planning[p].calls[t]
  BY <1>1, <1>2
<1>4. planning' = [planning EXCEPT ![p] = next]
  BY DEF Becomes
<1> HIDE DEF next
<1>5. planning' \in [Plannings -> PlanningRows] /\ planning'[p] = next /\ OtherPlannings(p)
  BY <1>2, <1>4 DEF SkillsInv, OtherPlannings
<1> QED BY <1>1, <1>2, <1>3, <1>5

\* Reviews that a step leaves alone keep their invariant while the version stays.
LEMMA OthersKeep ==
  ASSUME SkillsInv, NEW p \in Plannings, OtherPlannings(p), version' = version
  PROVE  \A q \in Plannings \ {p} : InStage(q)' /\ Own(q)'
<1> SUFFICES ASSUME NEW q \in Plannings \ {p} PROVE InStage(q)' /\ Own(q)' OBVIOUS
<1>1. planning'[q] = planning[q] BY DEF OtherPlannings
<1>2. InStage(q) /\ Own(q) BY DEF SkillsInv
<1>3. InStage(q)' BY <1>1, <1>2 DEF InStage, Running
<1>4. Own(q)' BY <1>1, <1>2 DEF Own, Running, Given
<1> QED BY <1>3, <1>4

\* A call in the stage of its skill: what other calls of the review were given stays.
LEMMA CallStep ==
  ASSUME SkillsInv, NEW p \in Plannings, NEW s \in Skills, NEW call \in Calls, Becomes(p, s, call),
         version' = version,
         Running(p), s \in SkillsOf[planning[p].stage],
         planning[p].calls[s].state \in {"none", "asked"},
         call.state # "none",
         call.state = "done" => call.of = Work(p, s)
  PROVE  /\ planning' \in [Plannings -> PlanningRows]
         /\ \A q \in Plannings : InStage(q)' /\ Own(q)'
<1>1. /\ planning' \in [Plannings -> PlanningRows] /\ OtherPlannings(p)
      /\ planning'[p].stage = planning[p].stage /\ planning'[p].demand = planning[p].demand
      /\ planning'[p].version = planning[p].version
      /\ planning'[p].calls[s] = call
      /\ \A t \in Skills \ {s} : planning'[p].calls[t] = planning[p].calls[t]
  BY BecomesOf
<1>2. InStage(p) /\ Own(p) BY DEF SkillsInv
<1>3. call.state \in {"asked", "degraded", "done"} BY DEF Calls
<1>4. planning[p].stage \in {"risks", "plans", "prompts"} BY StagesOf DEF Running
<1>5. InStage(p)'
  <2>1. ASSUME NEW t \in Skills, planning'[p].calls[t].state = "asked"
        PROVE  Running(p)' /\ t \in SkillsOf[planning'[p].stage]
    <3>1. CASE t = s BY <1>1, <3>1 DEF Running
    <3>2. CASE t # s
      <4>1. planning[p].calls[t].state = "asked" BY <1>1, <2>1, <3>2
      <4> QED BY <1>1, <1>2, <4>1 DEF InStage, Running
    <3> QED BY <3>1, <3>2
  <2>2. CASE planning[p].stage = "risks"
    <3>1. s = Search BY <2>2, StagesOf
    <3> QED BY <1>1, <1>2, <2>1, <2>2, <3>1, SkillsApart DEF InStage
  <2>3. CASE planning[p].stage = "plans"
    <3>1. s \in PlanSkills BY <2>3, StagesOf
    <3> QED BY <1>1, <1>2, <2>1, <2>3, <3>1, SkillsApart DEF InStage
  <2>4. CASE planning[p].stage = "prompts"
    <3>1. s \in PromptSkills BY <2>4, StagesOf
    <3> QED BY <1>1, <1>2, <2>1, <2>4, <3>1, SkillsApart DEF InStage
  <2> QED BY <1>4, <2>2, <2>3, <2>4
<1>6. ASSUME NEW t \in Skills, planning'[p].calls[t].state = "done"
      PROVE  Given(p, t)' = Given(p, t)
  <2>1. CASE t \notin PromptSkills
    BY <1>1, <2>1 DEF Given
  <2>2. CASE t \in PromptSkills
    <3>1. planning[p].stage = "prompts"
      <4>1. SUFFICES ASSUME planning[p].stage \in {"risks", "plans"} PROVE FALSE BY <1>4
      <4>2. planning[p].calls[t].state = "none" BY <1>2, <2>2, <4>1 DEF InStage
      <4>3. t = s BY <1>1, <1>6, <4>2
      <4> QED BY <4>1, <4>3, <2>2, StagesOf, SkillsApart
    <3>2. s \in PromptSkills BY <3>1, StagesOf
    <3>3. \A u \in PlanSkills : planning'[p].calls[u] = planning[p].calls[u]
      BY <1>1, <3>2, SkillsApart
    <3>4. [u \in PlanSkills |-> planning'[p].calls[u].out] = [u \in PlanSkills |-> planning[p].calls[u].out]
      BY <3>3
    <3> QED BY <1>1, <3>4, <2>2 DEF Given
  <2> QED BY <2>1, <2>2
<1>7. Own(p)'
  <2>1. Running(p)' => planning'[p].version = version' BY <1>1, <1>2 DEF Own, Running
  <2>2. ASSUME NEW t \in Skills, planning'[p].calls[t].state = "done"
        PROVE  planning'[p].calls[t].of = [skill |-> t, given |-> Given(p, t)', version |-> planning'[p].version]
    <3>1. CASE t = s
      <4>1. planning'[p].calls[t].of = Work(p, t) BY <1>1, <2>2, <3>1
      <4>2. planning'[p].version = version BY <1>1, <1>2 DEF Own
      <4> QED BY <4>1, <4>2, <1>6, <2>2 DEF Work
    <3>2. CASE t # s
      BY <1>1, <1>2, <1>6, <2>2, <3>2 DEF Own
    <3> QED BY <3>1, <3>2
  <2> QED BY <2>1, <2>2 DEF Own
<1>8. \A q \in Plannings \ {p} : InStage(q)' /\ Own(q)' BY <1>1, OthersKeep
<1> QED BY <1>1, <1>5, <1>7, <1>8

-----------------------------------------------------------------------------
(* Skills: the cache. *)

\* A row is written over what has the same key.
LEMMA CacheOf ==
  ASSUME SkillsInv, NEW key \in Works, NEW out \in Answers \cup Catalogs, Cache(key, key, out),
         clock' = clock
  PROVE  RowsInv'
<1> DEFINE row == [key |-> key, at |-> clock, of |-> key, out |-> out]
<1>1. row \in CacheRows /\ row.key = row.of /\ row.key = key /\ row.at = clock
  BY DEF CacheRows, SkillsInv
<1>2. rows' = {r \in rows : r.key # key} \cup {row} BY DEF Cache, Without
<1>3. clock \in Nat BY DEF SkillsInv
<1> HIDE DEF row
<1>4. rows' \subseteq CacheRows BY <1>1, <1>2 DEF SkillsInv, RowsInv
<1>5. ASSUME NEW r \in rows' PROVE r.key = r.of /\ r.at <= clock'
  <2>1. CASE r = row
    <3>1. r.key = r.of /\ r.at = clock BY <1>1, <2>1
    <3>2. clock <= clock' BY <1>3
    <3> QED BY <3>1, <3>2
  <2>2. CASE r \in rows BY <2>2 DEF SkillsInv, RowsInv
  <2> QED BY <1>2, <2>1, <2>2
<1>6. \A r, q \in rows' : r.key = q.key => r = q
  BY <1>1, <1>2 DEF SkillsInv, RowsInv
<1> QED BY <1>4, <1>5, <1>6 DEF RowsInv

\* Rows that go, while time passes.
LEMMA FewerRows ==
  ASSUME SkillsInv, rows' \subseteq rows, clock' \in Nat, clock <= clock'
  PROVE  RowsInv'
<1>1. \A r \in rows : r.at \in Nat /\ r.at <= clock BY DEF SkillsInv, RowsInv, CacheRows
<1>2. clock \in Nat BY DEF SkillsInv
<1>3. \A r \in rows' : r.at <= clock' BY <1>1, <1>2
<1> QED BY <1>3 DEF SkillsInv, RowsInv

\* A hit is what the skill made of the same.
LEMMA HitOf ==
  ASSUME SkillsInv, NEW p \in Plannings, NEW s \in Skills, NEW r \in Cached(Key(p, s))
  PROVE  FromCache(r) \in Calls /\ FromCache(r).state = "done" /\ FromCache(r).of = Work(p, s)
<1>1. r \in rows /\ r.key = Key(p, s) BY DEF Cached
<1>2. r \in CacheRows /\ r.of = Key(p, s) BY <1>1 DEF SkillsInv, RowsInv
<1>3. r.out \in Outs /\ r.of \in Works BY <1>2 DEF CacheRows, Outs
<1> QED BY <1>2, <1>3, GivenTyped DEF FromCache, Call, Calls

LEMMA CallsTyped ==
  /\ Asking \in Calls /\ Asking.state = "asked"
  /\ Degraded \in Calls /\ Degraded.state = "degraded"
  /\ NotCalled \in Calls /\ NotCalled.state = "none"
  /\ \A out \in Outs, of \in Works :
       Call("done", out, of) \in Calls /\ Call("done", out, of).of = of /\ Call("done", out, of).state = "done"
BY SkillsApart DEF Asking, Degraded, NotCalled, Call, Calls

\* What a step that makes one call has to show of the rest.
LEMMA CallKeeps ==
  ASSUME SkillsInv, NEW p \in Plannings, NEW s \in Skills, NEW call \in Calls, Becomes(p, s, call),
         UNCHANGED <<clock, version, catalog, restarts>>,
         loaded' \in Catalogs \cup {NoOutput},
         RowsInv',
         Running(p), s \in SkillsOf[planning[p].stage],
         planning[p].calls[s].state \in {"none", "asked"},
         call.state # "none",
         call.state = "done" => call.of = Work(p, s)
  PROVE  SkillsInv'
<1>1. planning' \in [Plannings -> PlanningRows] /\ \A q \in Plannings : InStage(q)' /\ Own(q)'
  BY CallStep
<1> QED BY <1>1 DEF SkillsInv

-----------------------------------------------------------------------------
(* Skills: the steps. *)

LEMMA SkillsInitHolds == SkillsInit => SkillsInv
<1> SUFFICES ASSUME SkillsInit PROVE SkillsInv OBVIOUS
<1>1. NoPlanning \in PlanningRows /\ NoPlanning.stage = "idle"
      /\ \A s \in Skills : NoPlanning.calls[s].state = "none"
  BY CallsTyped DEF NoPlanning, PlanningRows, PlanStages
<1>2. planning \in [Plannings -> PlanningRows] /\ \A p \in Plannings : planning[p] = NoPlanning
  BY <1>1 DEF SkillsInit
<1>3. \A p \in Plannings : InStage(p) /\ Own(p)
  BY <1>1, <1>2, StagesOf DEF InStage, Own, Running
<1>4. clock \in 0 .. MaxClock /\ version \in 0 .. restarts /\ restarts \in Nat
  BY SkillsAssumption DEF SkillsInit
<1>5. RowsInv BY DEF SkillsInit, RowsInv
<1> QED BY <1>2, <1>3, <1>4, <1>5 DEF SkillsInit, SkillsInv

LEMMA StartPlanningStep ==
  ASSUME SkillsInv, NEW p \in Plannings, NEW demand \in Demands, StartPlanning(p, demand)
  PROVE  SkillsInv'
<1> DEFINE next == [planning[p] EXCEPT !.stage = "risks", !.demand = demand, !.version = version]
<1>1. planning[p] \in PlanningRows /\ version \in Nat /\ planning[p].stage = "idle"
  BY DEF SkillsInv, StartPlanning
<1>2. /\ next \in PlanningRows /\ next.stage = "risks" /\ next.version = version
      /\ next.calls = planning[p].calls
  BY <1>1 DEF PlanningRows, PlanStages
<1>3. planning' = [planning EXCEPT ![p] = next]
  BY DEF StartPlanning
<1> HIDE DEF next
<1>4. planning' \in [Plannings -> PlanningRows] /\ planning'[p] = next /\ OtherPlannings(p)
  BY <1>2, <1>3 DEF SkillsInv, OtherPlannings
<1>5. \A s \in Skills : planning'[p].calls[s].state = "none"
  BY <1>1, <1>2, <1>4 DEF SkillsInv, InStage
<1>6. InStage(p)' BY <1>2, <1>4, <1>5, SkillsApart DEF InStage
<1>7. Own(p)' BY <1>2, <1>4, <1>5 DEF Own, StartPlanning
<1>8. \A q \in Plannings \ {p} : InStage(q)' /\ Own(q)' BY <1>4, OthersKeep DEF StartPlanning
<1>9. RowsInv' BY DEF SkillsInv, RowsInv, StartPlanning
<1> QED BY <1>4, <1>6, <1>7, <1>8, <1>9 DEF SkillsInv, StartPlanning

LEMMA SearchStep ==
  ASSUME SkillsInv, NEW p \in Plannings, SearchCatalog(p)
  PROVE  SkillsInv'
<1> DEFINE key == Key(p, Search)
<1>1. key \in Works /\ Work(p, Search) = key BY GivenTyped, SkillsApart
<1>2. /\ Running(p) /\ Search \in SkillsOf[planning[p].stage]
      /\ planning[p].calls[Search].state = "none"
      /\ UNCHANGED <<clock, version, catalog, restarts>>
  BY StagesOf, CallsTyped DEF SearchCatalog, Running
<1>3. clock \in Nat /\ loaded \in Catalogs \cup {NoOutput} /\ catalog \in Catalogs \cup {NoOutput}
  BY DEF SkillsInv
<1>4. CASE (\E r \in Cached(key) : Becomes(p, Search, FromCache(r))) /\ UNCHANGED <<rows, loaded>>
  <2>1. PICK r \in Cached(key) : Becomes(p, Search, FromCache(r)) BY <1>4
  <2>2. FromCache(r) \in Calls /\ FromCache(r).state = "done" /\ FromCache(r).of = Work(p, Search)
    BY HitOf, SkillsApart
  <2>3. RowsInv' BY <1>2, <1>3, <1>4, FewerRows
  <2> QED BY <1>2, <1>3, <1>4, <2>1, <2>2, <2>3, CallKeeps, SkillsApart
<1>5. CASE /\ CatalogRead # NoOutput /\ loaded' = CatalogRead
           /\ Cache(key, Work(p, Search), CatalogRead)
           /\ Becomes(p, Search, Call("done", CatalogRead, Work(p, Search)))
  <2>1. CatalogRead \in Catalogs BY <1>3, <1>5 DEF CatalogRead
  <2>2. CatalogRead \in Outs /\ CatalogRead \in Answers \cup Catalogs BY <2>1 DEF Outs
  <2>3. RowsInv' BY <1>1, <1>2, <1>5, <2>2, CacheOf
  <2>4. /\ Call("done", CatalogRead, Work(p, Search)) \in Calls
        /\ Call("done", CatalogRead, Work(p, Search)).of = Work(p, Search)
        /\ Call("done", CatalogRead, Work(p, Search)).state = "done"
    BY <1>1, <2>2, CallsTyped
  <2> QED BY <1>2, <1>5, <2>1, <2>3, <2>4, CallKeeps, SkillsApart
<1>6. CASE (rows' = Without(key) \/ rows' = rows) /\ Becomes(p, Search, Degraded) /\ UNCHANGED loaded
  <2>1. RowsInv' BY <1>2, <1>3, <1>6, FewerRows DEF Without
  <2> QED BY <1>2, <1>3, <1>6, <2>1, CallKeeps, CallsTyped, SkillsApart
<1> QED BY <1>4, <1>5, <1>6 DEF SearchCatalog

LEMMA ExecuteStep ==
  ASSUME SkillsInv, NEW p \in Plannings, NEW s \in Skills, Execute(p, s)
  PROVE  SkillsInv'
<1> DEFINE key == Key(p, s)
<1>1. key \in Works /\ Work(p, s) = key BY GivenTyped
<1>2. /\ Running(p) /\ s \in SkillsOf[planning[p].stage]
      /\ planning[p].calls[s].state = "none"
      /\ UNCHANGED <<clock, version, catalog, restarts, loaded>>
  BY CallsTyped DEF Execute
<1>3. clock \in Nat /\ loaded' \in Catalogs \cup {NoOutput} BY <1>2 DEF SkillsInv
<1>4. CASE (\E r \in Cached(key) : Becomes(p, s, FromCache(r))) /\ rows' = rows
  <2>1. PICK r \in Cached(key) : Becomes(p, s, FromCache(r)) BY <1>4
  <2>2. FromCache(r) \in Calls /\ FromCache(r).state = "done" /\ FromCache(r).of = Work(p, s)
    BY HitOf
  <2>3. RowsInv' BY <1>2, <1>3, <1>4, FewerRows
  <2> QED BY <1>2, <1>3, <2>1, <2>2, <2>3, CallKeeps
<1>5. CASE Becomes(p, s, Asking) /\ rows' = Without(key)
  <2>1. RowsInv' BY <1>2, <1>3, <1>5, FewerRows DEF Without
  <2> QED BY <1>2, <1>3, <1>5, <2>1, CallKeeps, CallsTyped
<1> QED BY <1>4, <1>5 DEF Execute

\* A review that waits for the model runs, in the stage of that skill.
LEMMA WaitingOf ==
  ASSUME SkillsInv, NEW p \in Plannings, NEW s \in Skills, Waiting(p, s)
  PROVE  Running(p) /\ s \in SkillsOf[planning[p].stage] /\ planning[p].calls[s].state = "asked"
BY DEF SkillsInv, InStage, Waiting

LEMMA ModelAnswersStep ==
  ASSUME SkillsInv, NEW p \in Plannings, NEW s \in Skills, ModelAnswers(p, s)
  PROVE  SkillsInv'
<1>1. PICK out \in Answers : Cache(Key(p, s), Work(p, s), out) /\ Becomes(p, s, Call("done", out, Work(p, s)))
  BY DEF ModelAnswers
<1>2. Key(p, s) \in Works /\ Work(p, s) = Key(p, s) BY GivenTyped
<1>3. UNCHANGED <<clock, version, catalog, restarts, loaded>> BY DEF ModelAnswers
<1>4. RowsInv' BY <1>1, <1>2, <1>3, CacheOf
<1>5. /\ Call("done", out, Work(p, s)) \in Calls /\ Call("done", out, Work(p, s)).state = "done"
      /\ Call("done", out, Work(p, s)).of = Work(p, s)
  BY <1>2, CallsTyped DEF Outs
<1>6. loaded' \in Catalogs \cup {NoOutput} BY <1>3 DEF SkillsInv
<1>7. Running(p) /\ s \in SkillsOf[planning[p].stage] /\ planning[p].calls[s].state = "asked"
  BY WaitingOf DEF ModelAnswers
<1> QED BY <1>1, <1>3, <1>4, <1>5, <1>6, <1>7, CallKeeps

LEMMA CallFailsStep ==
  ASSUME SkillsInv, NEW p \in Plannings, NEW s \in Skills, CallFails(p, s)
  PROVE  SkillsInv'
<1>1. Becomes(p, s, Degraded) /\ UNCHANGED <<clock, version, catalog, restarts, loaded, rows>>
  BY DEF CallFails
<1>2. RowsInv' /\ loaded' \in Catalogs \cup {NoOutput}
  BY <1>1 DEF SkillsInv, RowsInv
<1>3. Running(p) /\ s \in SkillsOf[planning[p].stage] /\ planning[p].calls[s].state = "asked"
  BY WaitingOf DEF CallFails
<1> QED BY <1>1, <1>2, <1>3, CallKeeps, CallsTyped

LEMMA GatherStep ==
  ASSUME SkillsInv, NEW p \in Plannings, Gather(p)
  PROVE  SkillsInv'
<1> DEFINE next == [planning[p] EXCEPT !.stage = NextStage[@]]
<1>1. planning[p] \in PlanningRows /\ planning[p].stage \in {"risks", "plans", "prompts"}
  BY StagesOf DEF SkillsInv, Gather, Running
<1>2. /\ next \in PlanningRows /\ next.stage = NextStage[planning[p].stage]
      /\ next.demand = planning[p].demand /\ next.version = planning[p].version
      /\ next.calls = planning[p].calls
  <2>1. NextStage[planning[p].stage] \in PlanStages BY <1>1, StagesOf DEF PlanStages
  <2> QED BY <1>1, <2>1 DEF PlanningRows
<1>3. planning' = [planning EXCEPT ![p] = next]
  BY DEF Gather
<1> HIDE DEF next
<1>4. planning' \in [Plannings -> PlanningRows] /\ planning'[p] = next /\ OtherPlannings(p)
  BY <1>2, <1>3 DEF SkillsInv, OtherPlannings
<1>5. /\ planning'[p].stage = NextStage[planning[p].stage] /\ planning'[p].demand = planning[p].demand
      /\ planning'[p].version = planning[p].version /\ planning'[p].calls = planning[p].calls
  BY <1>2, <1>4
<1>6. \A s \in SkillsOf[planning[p].stage] : planning[p].calls[s].state \in {"done", "degraded"}
  BY DEF Gather
<1>7. InStage(p) /\ Own(p) BY DEF SkillsInv
<1>8. \A s \in Skills : planning[p].calls[s].state # "asked"
  BY <1>6, <1>7 DEF InStage
<1>9. InStage(p)'
  <2>1. \A s \in Skills : planning'[p].calls[s].state # "asked" BY <1>5, <1>8
  <2>2. CASE planning[p].stage = "risks"
    BY <2>1, <2>2, <1>5, <1>7, StagesOf DEF InStage
  <2>3. CASE planning[p].stage = "plans"
    BY <2>1, <2>3, <1>5, <1>6, <1>7, StagesOf DEF InStage
  <2>4. CASE planning[p].stage = "prompts"
    BY <2>1, <2>4, <1>5, <1>6, <1>7, StagesOf DEF InStage
  <2> QED BY <1>1, <2>2, <2>3, <2>4
<1>10. Own(p)'
  <2>1. planning'[p].version = version' BY <1>5, <1>7 DEF Own, Gather
  <2>2. \A s \in Skills : Given(p, s)' = Given(p, s) BY <1>5 DEF Given
  <2> QED BY <2>1, <2>2, <1>5, <1>7 DEF Own
<1>11. \A q \in Plannings \ {p} : InStage(q)' /\ Own(q)' BY <1>4, OthersKeep DEF Gather
<1>12. RowsInv' BY DEF SkillsInv, RowsInv, Gather
<1> QED BY <1>4, <1>9, <1>10, <1>11, <1>12 DEF SkillsInv, Gather

\* Time, and the catalog, are no part of what a review holds.
LEMMA QuietStep ==
  ASSUME SkillsInv, UNCHANGED <<version, restarts, planning>>, rows' = rows,
         clock' \in 0 .. MaxClock, clock <= clock',
         catalog' \in Catalogs \cup {NoOutput}, loaded' \in Catalogs \cup {NoOutput}
  PROVE  SkillsInv'
<1>1. RowsInv' BY FewerRows
<1>2. \A p \in Plannings : InStage(p)' /\ Own(p)'
  BY DEF SkillsInv, InStage, Own, Running, Given
<1> QED BY <1>1, <1>2 DEF SkillsInv

\* Reviews under way are lost, those that are planned keep their version.
LEMMA RedeployStep == ASSUME SkillsInv, Redeploy PROVE SkillsInv'
<1>1. version' \in 0 .. restarts' /\ restarts' \in Nat
  BY DEF SkillsInv, Redeploy
<1>2. RowsInv' BY FewerRows DEF Redeploy, SkillsInv
<1>3. NoPlanning \in PlanningRows /\ NoPlanning.stage = "idle"
      /\ \A s \in Skills : NoPlanning.calls[s].state = "none"
  BY CallsTyped DEF NoPlanning, PlanningRows, PlanStages
<1>4. planning' \in [Plannings -> PlanningRows]
  BY <1>3 DEF SkillsInv, Redeploy
<1>5. ASSUME NEW p \in Plannings PROVE InStage(p)' /\ Own(p)'
  <2>1. CASE Running(p)
    <3>1. planning'[p] = NoPlanning BY <2>1 DEF Redeploy
    <3> QED BY <1>3, <3>1, StagesOf DEF InStage, Own, Running
  <2>2. CASE ~ Running(p)
    <3>1. planning'[p] = planning[p] BY <2>2 DEF Redeploy
    <3> QED BY <2>2, <3>1 DEF SkillsInv, InStage, Own, Running, Given
  <2> QED BY <2>1, <2>2
<1> QED BY <1>1, <1>2, <1>4, <1>5 DEF SkillsInv, Redeploy

LEMMA SkillsStep == SkillsInv /\ [SkillsNext]_skillVars => SkillsInv'
<1> SUFFICES ASSUME SkillsInv, [SkillsNext]_skillVars PROVE SkillsInv' OBVIOUS
<1>1. clock \in 0 .. MaxClock /\ clock <= clock /\ MaxClock \in Nat
      /\ catalog \in Catalogs \cup {NoOutput} /\ loaded \in Catalogs \cup {NoOutput}
  BY SkillsAssumption DEF SkillsInv
<1>2. CASE UNCHANGED skillVars
  BY <1>1, <1>2, QuietStep DEF skillVars
<1>3. CASE Tick
  <2>1. clock' \in 0 .. MaxClock /\ clock <= clock' BY <1>1, <1>3 DEF Tick
  <2> QED BY <1>1, <1>3, <2>1, QuietStep DEF Tick
<1>4. CASE EditCatalog
  BY <1>1, <1>4, QuietStep DEF EditCatalog
<1>5. CASE Redeploy BY <1>5, RedeployStep
<1> QED BY <1>2, <1>3, <1>4, <1>5, SearchStep, GatherStep, StartPlanningStep, ExecuteStep, ModelAnswersStep,
          CallFailsStep DEF SkillsNext

LEMMA SkillsInvHolds == SkillsSpec => []SkillsInv
BY SkillsInitHolds, SkillsStep, PTL DEF SkillsSpec

\* The cache and the catalog stay in their types, and a key has one row.
THEOREM SkillsTypes == SkillsSpec => []SkillsTypeOK
<1>1. SkillsInv => SkillsTypeOK
  BY DEF SkillsInv, RowsInv, CacheRows, SkillsTypeOK
<1> QED BY <1>1, SkillsInvHolds, PTL

\* Whoever asked for a skill and whatever was deployed since, a review holds what was made
\* from its own requirement, by the version it runs with, from the plans it holds
\* (executor.py, cache_backend.py).
THEOREM OwnWorkHolds == SkillsSpec => []OwnWork
<1>1. SkillsInv => OwnWork BY DEF SkillsInv, Own, OwnWork
<1> QED BY <1>1, SkillsInvHolds, PTL

-----------------------------------------------------------------------------
(* Revision: reports and stages. *)

LEMMA AppliedReport ==
  ASSUME NEW r \in Reports, NEW given \in SUBSET Questions, NEW long \in SUBSET given
  PROVE  /\ Apply(r, given, long) \in Reports
         /\ r.answered \subseteq Apply(r, given, long).answered
         /\ r.gate = "answered" => Apply(r, given, long).gate = "answered"
         /\ Apply(r, given, long).revised = r.revised
         /\ Apply(r, given, long).roadmap = r.roadmap
<1>1. Gate(r) \in {"not_needed", "pending", "answered"} /\ (r.gate = "answered" => Gate(r) = "answered")
  BY DEF Gate
<1>2. CASE given = {}
  <2>1. Apply(r, given, long) = [r EXCEPT !.gate = Gate(r)] BY <1>2 DEF Apply
  <2> QED BY <1>1, <2>1 DEF Reports
<1>3. CASE given # {}
  <2>1. Apply(r, given, long) =
          [r EXCEPT !.answered = r.answered \cup (given \cap r.asked),
                    !.softened = Softened(r, given, long), !.gate = "answered"]
    BY <1>3 DEF Apply
  <2>2. r.answered \cup (given \cap r.asked) \in SUBSET Questions /\ Softened(r, given, long) \in SUBSET Questions
    BY DEF Reports, Softened
  <2> QED BY <2>1, <2>2 DEF Reports
<1> QED BY <1>2, <1>3

\* A stage that is loaded is confirmed only if the stored one is.
LEMMA LoadedOf ==
  ASSUME RevisionTypeOK
  PROVE  /\ LoadedStage \in Stages
         /\ LoadedStage.confirmed => stage # Nothing /\ stage.confirmed
BY DEF RevisionTypeOK, LoadedStage, Stages, Statuses

-----------------------------------------------------------------------------
(* Revision: what the steps keep. *)

\* Initially nothing is decided.
LEMMA RevisionInitHolds == RevisionInit => RevisionTypeOK
<1> SUFFICES ASSUME RevisionInit PROVE RevisionTypeOK OBVIOUS
<1>1. 0 \in 0 .. MaxDrafts BY RevisionAssumption
<1>2. report \in Reports
  BY DEF RevisionInit, Reports, Askable, RoadmapSources
<1> QED BY <1>1, <1>2 DEF RevisionInit, RevisionTypeOK

\* What a step that makes a report of the one there is has to show.
Keeps(old, new) ==
  /\ old.answered \subseteq new.answered
  /\ old.gate = "answered" => new.gate = "answered"
  /\ old.revised => new.revised
  /\ old.roadmap # "none" => new.roadmap # "none"

NoPatching == \A a \in Patchers : patching[a] = Nothing

KeptRevision == NothingLost /\ ConfirmedByHand

\* Nothing but the report and what answers hold changes.
LEMMA ReportStep ==
  ASSUME RevisionTypeOK, report' \in Reports, NoPatching => Keeps(report, report'),
         patching' \in [Patchers -> Reports \cup {Nothing}],
         UNCHANGED <<stage, requested, draft, confirmed, generation, begun>>
  PROVE  RevisionTypeOK' /\ KeptRevision
<1>1. RevisionTypeOK' BY DEF RevisionTypeOK
<1>2. NothingLost BY DEF NothingLost, NoPatching, Keeps
<1>3. ConfirmedByHand BY DEF ConfirmedByHand
<1> QED BY <1>1, <1>2, <1>3 DEF KeptRevision

LEMMA AnswerReport ==
  ASSUME RevisionTypeOK, NEW given \in SUBSET Questions, NEW long \in SUBSET given, Answer(given, long)
  PROVE  /\ report' \in Reports /\ Keeps(report, report')
         /\ UNCHANGED <<stage, requested, draft, confirmed, generation, begun>>
<1>1. PICK r \in Reports : r = report /\ report' = Apply(r, given, long)
  BY DEF RevisionTypeOK, Answer
<1>2. Apply(r, given, long) \in Reports /\ Keeps(r, Apply(r, given, long))
  BY AppliedReport DEF Keeps
<1>3. UNCHANGED <<stage, requested, draft, confirmed, generation, begun>> BY DEF Answer
<1> QED BY <1>1, <1>2, <1>3

\* Nothing but the stage, the request and the generations changes.
LEMMA StageStep ==
  ASSUME RevisionTypeOK, stage' \in Stages, requested' \in BOOLEAN,
         generation' \in [Generators -> Generations \cup {Nothing}], begun' \in 0 .. MaxDrafts,
         stage'.confirmed => stage # Nothing /\ stage.confirmed,
         UNCHANGED <<report, draft, confirmed>>, patching' \in [Patchers -> Reports \cup {Nothing}]
  PROVE  RevisionTypeOK' /\ KeptRevision
<1>1. RevisionTypeOK' BY DEF RevisionTypeOK
<1>2. NothingLost BY DEF NothingLost
<1>3. ConfirmedByHand BY DEF ConfirmedByHand
<1> QED BY <1>1, <1>2, <1>3 DEF KeptRevision

LEMMA BeginGenerationOf ==
  ASSUME RevisionTypeOK, NEW g \in Generators, NEW s \in Stages, BeginGeneration(g, s)
  PROVE  /\ stage' \in Stages /\ stage'.confirmed = s.confirmed
         /\ generation' \in [Generators -> Generations \cup {Nothing}] /\ begun' \in 0 .. MaxDrafts
<1>1. begun' \in 1 .. MaxDrafts
  BY RevisionAssumption DEF RevisionTypeOK, BeginGeneration
<1>2. [stage |-> s, text |-> begun'] \in Generations BY <1>1 DEF Generations
<1>3. generation' \in [Generators -> Generations \cup {Nothing}]
  BY <1>2 DEF RevisionTypeOK, BeginGeneration
<1>4. stage' \in Stages /\ stage'.confirmed = s.confirmed
  BY DEF BeginGeneration, Stages, Statuses
<1> QED BY <1>1, <1>3, <1>4, RevisionAssumption

LEMMA GenerateStep ==
  ASSUME RevisionTypeOK, NEW g \in Generators, Generate(g)
  PROVE  RevisionTypeOK' /\ KeptRevision
<1>1. LoadedStage \in Stages /\ (LoadedStage.confirmed => stage # Nothing /\ stage.confirmed) BY LoadedOf
<1>2. /\ stage' \in Stages /\ stage'.confirmed = LoadedStage.confirmed
      /\ generation' \in [Generators -> Generations \cup {Nothing}] /\ begun' \in 0 .. MaxDrafts
  BY <1>1, BeginGenerationOf DEF Generate
<1> QED BY <1>1, <1>2, StageStep DEF Generate, RevisionTypeOK

LEMMA RegenerateStep ==
  ASSUME RevisionTypeOK, NEW g \in Generators, Regenerate(g)
  PROVE  RevisionTypeOK' /\ KeptRevision
<1> DEFINE next == [LoadedStage EXCEPT !.status = "inputs_recorded", !.entered = TRUE, !.confirmed = FALSE]
<1>1. next \in Stages /\ next.confirmed = FALSE BY LoadedOf DEF Stages, Statuses
<1>2. (Stable(report) /\ BeginGeneration(g, next)) \/ (stage' = next /\ UNCHANGED <<generation, begun>>)
  BY DEF Regenerate
<1>3. UNCHANGED <<report, draft, confirmed, patching>> /\ requested' = TRUE BY DEF Regenerate
<1> HIDE DEF next
<1>4. CASE BeginGeneration(g, next)
  <2>1. /\ stage' \in Stages /\ stage'.confirmed = FALSE
        /\ generation' \in [Generators -> Generations \cup {Nothing}] /\ begun' \in 0 .. MaxDrafts
    BY <1>1, <1>4, BeginGenerationOf
  <2> QED BY <1>3, <2>1, StageStep DEF RevisionTypeOK
<1>5. CASE stage' = next /\ UNCHANGED <<generation, begun>>
  BY <1>1, <1>3, <1>5, StageStep DEF RevisionTypeOK
<1> QED BY <1>2, <1>4, <1>5

\* The stage read at the beginning of a generation is written back.
LEMMA EndGenerationStep ==
  ASSUME RevisionTypeOK, NEW g \in Generators, EndGeneration(g)
  PROVE  RevisionTypeOK' /\ KeptRevision
<1>1. generation[g] \in Generations /\ generation[g] # Nothing
  BY DEF RevisionTypeOK, EndGeneration
<1>2. generation[g].stage \in Stages /\ generation[g].text \in 0 .. MaxDrafts BY <1>1 DEF Generations
<1>3. stage' \in Stages /\ stage'.confirmed = generation[g].stage.confirmed
  BY <1>2 DEF EndGeneration, Stages, Statuses
<1>4. generation' \in [Generators -> Generations \cup {Nothing}]
  BY DEF RevisionTypeOK, EndGeneration
<1>5. draft' \in 0 .. MaxDrafts BY <1>2 DEF RevisionTypeOK, EndGeneration
<1>6. report' \in Reports /\ Keeps(report, report')
  <2>1. report \in Reports BY DEF RevisionTypeOK
  <2>2. report' = report \/ report' = [report EXCEPT !.revised = TRUE] BY DEF EndGeneration, UpdateReportArtifacts
  <2> QED BY <2>1, <2>2 DEF Reports, Keeps
<1>7. RevisionTypeOK' BY <1>3, <1>4, <1>5, <1>6 DEF RevisionTypeOK, EndGeneration
<1>8. NothingLost BY <1>6 DEF NothingLost, Keeps
<1>9. ConfirmedByHand BY <1>1, <1>3 DEF ConfirmedByHand, EndGeneration
<1> QED BY <1>7, <1>8, <1>9 DEF KeptRevision

LEMMA ConfirmStep == ASSUME RevisionTypeOK, Confirm PROVE RevisionTypeOK' /\ KeptRevision
<1>1. stage' \in Stages BY LoadedOf DEF Confirm, Stages, Statuses
<1>2. RevisionTypeOK' BY <1>1 DEF RevisionTypeOK, Confirm
<1>3. NothingLost BY DEF NothingLost, Confirm
<1>4. ConfirmedByHand BY DEF ConfirmedByHand, Confirm
<1> QED BY <1>2, <1>3, <1>4 DEF KeptRevision

LEMMA RevisionStep == RevisionTypeOK /\ [RevisionNext]_revisionVars => RevisionTypeOK' /\ KeptRevision
<1> SUFFICES ASSUME RevisionTypeOK, [RevisionNext]_revisionVars PROVE RevisionTypeOK' /\ KeptRevision OBVIOUS
<1>1. Keeps(report, report) /\ report \in Reports
      /\ patching \in [Patchers -> Reports \cup {Nothing}]
  BY DEF Keeps, RevisionTypeOK
<1>2. CASE UNCHANGED revisionVars
  BY <1>1, <1>2, ReportStep DEF revisionVars
<1>3. ASSUME NEW given \in SUBSET Questions, NEW long \in SUBSET given, Answer(given, long), UNCHANGED patching
      PROVE  RevisionTypeOK' /\ KeptRevision
  BY <1>1, <1>3, AnswerReport, ReportStep
<1>4. ASSUME NEW given \in SUBSET Questions, NEW long \in SUBSET given, NEW a \in Patchers,
             AnswerWithPatch(a, given, long)
      PROVE  RevisionTypeOK' /\ KeptRevision
  <2>1. report' \in Reports /\ Keeps(report, report')
        /\ UNCHANGED <<stage, requested, draft, confirmed, generation, begun>>
    BY <1>4, AnswerReport DEF AnswerWithPatch
  <2>2. patching' \in [Patchers -> Reports \cup {Nothing}] BY <1>1, <1>4, <2>1 DEF AnswerWithPatch
  <2> QED BY <2>1, <2>2, ReportStep
<1>5. ASSUME NEW a \in Patchers, EndPatch(a) PROVE RevisionTypeOK' /\ KeptRevision
  <2>1. report' \in Reports BY <1>1, <1>5 DEF EndPatch
  <2>2. ~ NoPatching BY <1>5 DEF EndPatch, NoPatching
  <2>3. patching' \in [Patchers -> Reports \cup {Nothing}] BY <1>1, <1>5 DEF EndPatch
  <2> QED BY <1>5, <2>1, <2>2, <2>3, ReportStep DEF EndPatch
<1>6. ASSUME NEW enter \in BOOLEAN, Decide(enter) PROVE RevisionTypeOK' /\ KeptRevision
  <2>1. stage' \in Stages /\ stage'.confirmed = FALSE BY <1>6 DEF Decide, Stages, Statuses
  <2> QED BY <1>6, <2>1, StageStep DEF Decide, RevisionTypeOK
<1>7. CASE RecordInput
  <2>1. stage' \in Stages /\ stage'.confirmed = FALSE BY <1>7, LoadedOf DEF RecordInput, Stages, Statuses
  <2> QED BY <1>7, <2>1, StageStep DEF RecordInput, RevisionTypeOK
<1>8. CASE ContinueWithout
  <2>1. stage' \in Stages /\ stage'.confirmed = FALSE BY <1>8 DEF ContinueWithout, Stages, Statuses
  <2> QED BY <1>8, <2>1, StageStep DEF ContinueWithout, RevisionTypeOK
<1>9. CASE MakeRoadmap
  <2>1. PICK source \in {"not_recommended", RoadmapSource} : report' = [report EXCEPT !.roadmap = source]
    BY <1>9 DEF MakeRoadmap
  <2>2. source \in RoadmapSources \ {"none"} BY <2>1 DEF RoadmapSource, RoadmapSources
  <2>3. report' \in Reports /\ Keeps(report, report') BY <1>1, <2>1, <2>2 DEF Reports, Keeps
  <2> QED BY <1>1, <1>9, <2>3, ReportStep DEF MakeRoadmap
<1>10. CASE RevisionCrash
  <2>1. RevisionTypeOK' BY <1>10 DEF RevisionCrash, RevisionTypeOK
  <2>2. NothingLost /\ ConfirmedByHand BY <1>10 DEF RevisionCrash, NothingLost, ConfirmedByHand
  <2> QED BY <2>1, <2>2 DEF KeptRevision
<1> QED BY <1>2, <1>3, <1>4, <1>5, <1>6, <1>7, <1>8, <1>9, <1>10, ConfirmStep, GenerateStep, EndGenerationStep,
          RegenerateStep DEF RevisionNext

\* The files of the revision stay in their types.
THEOREM RevisionTypes == RevisionSpec => []RevisionTypeOK
BY RevisionInitHolds, RevisionStep, PTL DEF RevisionSpec

\* Whatever operations overlap, with no patched answer in flight the report keeps what it
\* has, and a run becomes confirmed by hand or by the end of a generation that began while
\* it was (revision_service.py, review_service.py).
THEOREM RevisionIsKept == RevisionSpec => RevisionKept
<1>1. RevisionTypeOK /\ [RevisionNext]_revisionVars => [NothingLost /\ ConfirmedByHand]_revisionVars
  BY RevisionStep DEF KeptRevision
<1> QED BY <1>1, RevisionTypes, PTL DEF RevisionSpec, RevisionKept

-----------------------------------------------------------------------------
(* Notifications: what is counted. *)

\* The attempts for a note over a channel that have come to one of the results, in a table
\* of dispatches.
Attempt(s, c, n, rs) ==
  s # Idle /\ Channels[s.at] = c /\ Head(s.queue) = n /\ s.result \in rs

Taken == {"taken"}
Reached == {"taken", "lost"}

AttemptsIn(table, c, n, rs) == {d \in Dispatchers : Attempt(table[d], c, n, rs)}

Tells(r, c, n, status) == r.channel = c /\ r.note = n /\ r.status = status

RecordsIn(ns, c, n, status) == {i \in DOMAIN ns : Tells(ns[i], c, n, status)}

\* Only the dispatch of d is another in table t than in table s.
MovesOnly(s, t, d) == \A e \in Dispatchers \ {d} : t[e] = s[e]

\* One dispatch moves: the others count as before.
LEMMA AttemptsCount ==
  ASSUME NEW s, NEW t, NEW d \in Dispatchers, MovesOnly(s, t, d),
         NEW c, NEW n, NEW rs
  PROVE  \E rest \in Nat :
           /\ Cardinality(AttemptsIn(s, c, n, rs)) = IF Attempt(s[d], c, n, rs) THEN rest + 1 ELSE rest
           /\ Cardinality(AttemptsIn(t, c, n, rs)) = IF Attempt(t[d], c, n, rs) THEN rest + 1 ELSE rest
<1> DEFINE S == AttemptsIn(s, c, n, rs)
           T == AttemptsIn(t, c, n, rs)
           R == S \ {d}
<1>1. IsFiniteSet(R) /\ Cardinality(R) \in Nat /\ d \notin R
  <2>1. R \in SUBSET Dispatchers BY DEF AttemptsIn
  <2>2. IsFiniteSet(R) BY <2>1, FS_Subset, NotificationsAssumption
  <2> QED BY <2>2, FS_CardinalityType
<1>2. S = IF Attempt(s[d], c, n, rs) THEN R \cup {d} ELSE R
  BY DEF AttemptsIn, MovesOnly
<1>3. T = IF Attempt(t[d], c, n, rs) THEN R \cup {d} ELSE R
  BY DEF AttemptsIn, MovesOnly
<1> HIDE DEF S, T, R
<1>4. Cardinality(R \cup {d}) = Cardinality(R) + 1 BY <1>1, FS_AddElement
<1>5. Cardinality(S) = IF Attempt(s[d], c, n, rs) THEN Cardinality(R) + 1 ELSE Cardinality(R)
  BY <1>2, <1>4
<1>6. Cardinality(T) = IF Attempt(t[d], c, n, rs) THEN Cardinality(R) + 1 ELSE Cardinality(R)
  BY <1>3, <1>4
<1> QED BY <1>1, <1>5, <1>6 DEF S, T

\* The dispatch that moves is not counted any more.
LEMMA AttemptsLeft ==
  ASSUME NEW s, NEW t, NEW d \in Dispatchers, MovesOnly(s, t, d),
         NEW c, NEW n, NEW rs, ~ Attempt(t[d], c, n, rs)
  PROVE  /\ Cardinality(AttemptsIn(t, c, n, rs)) \in Nat
         /\ Cardinality(AttemptsIn(s, c, n, rs)) =
              IF Attempt(s[d], c, n, rs) THEN Cardinality(AttemptsIn(t, c, n, rs)) + 1
              ELSE Cardinality(AttemptsIn(t, c, n, rs))
<1>1. PICK rest \in Nat :
        /\ Cardinality(AttemptsIn(s, c, n, rs)) = IF Attempt(s[d], c, n, rs) THEN rest + 1 ELSE rest
        /\ Cardinality(AttemptsIn(t, c, n, rs)) = IF Attempt(t[d], c, n, rs) THEN rest + 1 ELSE rest
  BY AttemptsCount
<1>2. Cardinality(AttemptsIn(t, c, n, rs)) = rest BY <1>1
<1> QED BY <1>1, <1>2

LEMMA AttemptsNat ==
  ASSUME NEW s, NEW c, NEW n, NEW rs
  PROVE  Cardinality(AttemptsIn(s, c, n, rs)) \in Nat
<1>1. AttemptsIn(s, c, n, rs) \in SUBSET Dispatchers BY DEF AttemptsIn
<1>2. IsFiniteSet(AttemptsIn(s, c, n, rs)) BY <1>1, FS_Subset, NotificationsAssumption
<1> QED BY <1>2, FS_CardinalityType

\* A record is added.
LEMMA RecordsCount ==
  ASSUME NEW S, NEW ns \in Seq(S), NEW r \in S, NEW c, NEW n, NEW status
  PROVE  /\ Cardinality(RecordsIn(ns, c, n, status)) \in Nat
         /\ Cardinality(RecordsIn(Append(ns, r), c, n, status)) =
              IF Tells(r, c, n, status) THEN Cardinality(RecordsIn(ns, c, n, status)) + 1
              ELSE Cardinality(RecordsIn(ns, c, n, status))
<1> DEFINE m == Len(ns)
           new == Append(ns, r)
           R == RecordsIn(ns, c, n, status)
<1>1. m \in Nat /\ DOMAIN ns = 1 .. m /\ DOMAIN new = 1 .. m + 1 OBVIOUS
<1>2. (\A i \in 1 .. m : new[i] = ns[i]) /\ new[m + 1] = r OBVIOUS
<1> HIDE DEF m, new
<1>3. IsFiniteSet(R) /\ Cardinality(R) \in Nat /\ m + 1 \notin R
  <2>1. R \in SUBSET (1 .. m) BY <1>1 DEF RecordsIn
  <2>2. IsFiniteSet(1 .. m) BY <1>1, FS_Interval
  <2>3. IsFiniteSet(R) BY <2>1, <2>2, FS_Subset
  <2>4. m + 1 \notin 1 .. m BY <1>1
  <2> QED BY <2>1, <2>3, <2>4, FS_CardinalityType
<1>4. RecordsIn(new, c, n, status) = IF Tells(r, c, n, status) THEN R \cup {m + 1} ELSE R
  <2>1. \A i \in 1 .. m + 1 : i \in 1 .. m \/ i = m + 1 BY <1>1
  <2>2. \A i \in 1 .. m : i \in 1 .. m + 1 BY <1>1
  <2>3. m + 1 \in 1 .. m + 1 BY <1>1
  <2>4. RecordsIn(new, c, n, status) = {i \in 1 .. m + 1 : Tells(new[i], c, n, status)}
    BY <1>1 DEF RecordsIn
  <2>5. R = {i \in 1 .. m : Tells(ns[i], c, n, status)} BY <1>1 DEF RecordsIn
  <2> HIDE DEF R
  <2> QED BY <2>1, <2>2, <2>3, <2>4, <2>5, <1>2
<1> HIDE DEF R
<1>5. Cardinality(R \cup {m + 1}) = Cardinality(R) + 1 BY <1>3, FS_AddElement
<1>6. Cardinality(RecordsIn(new, c, n, status)) =
        IF Tells(r, c, n, status) THEN Cardinality(R) + 1 ELSE Cardinality(R)
  BY <1>4, <1>5
<1> QED BY <1>3, <1>6 DEF new, R

-----------------------------------------------------------------------------
(* Notifications: the notes of a retry. *)

LEMMA LatestFailedSeq ==
  ASSUME notices \in Seq(Notices)
  PROVE  LatestFailed \in Seq(Notes)
<1> DEFINE N == Len(notices)
           val == [i \in 1 .. N |-> TypeOf[notices[i].note]]
           is(f) == f = [i \in 0 .. N |->
                      IF i = 0 THEN << >>
                      ELSE IF i \in FirstFailed THEN Append(f[i - 1], TypeOf[notices[i].note]) ELSE f[i - 1]]
           Ts == {TypeOf[notices[i].note] : i \in {j \in DOMAIN notices : FailedAt(j)}}
<1>1. N \in Nat /\ DOMAIN notices = 1 .. N OBVIOUS
<1>2. ASSUME NEW f PROVE is(f) <=> KeptOf(N, FirstFailed, val, f)
  <2>1. ASSUME NEW i \in 0 .. N
        PROVE  (IF i = 0 THEN << >>
                ELSE IF i \in FirstFailed THEN Append(f[i - 1], TypeOf[notices[i].note]) ELSE f[i - 1])
                = IF i = 0 THEN << >> ELSE IF i \in FirstFailed THEN Append(f[i - 1], val[i]) ELSE f[i - 1]
    <3>1. i # 0 => val[i] = TypeOf[notices[i].note] OBVIOUS
    <3> HIDE DEF val
    <3> QED BY <3>1
  <2> HIDE DEF val
  <2>2. [i \in 0 .. N |->
           IF i = 0 THEN << >>
           ELSE IF i \in FirstFailed THEN Append(f[i - 1], TypeOf[notices[i].note]) ELSE f[i - 1]]
         = [i \in 0 .. N |->
              IF i = 0 THEN << >> ELSE IF i \in FirstFailed THEN Append(f[i - 1], val[i]) ELSE f[i - 1]]
    BY <2>1
  <2> QED BY <2>2 DEF KeptOf
<1>3. \E f : is(f)
  <2> HIDE DEF is, val
  <2>1. \E f : KeptOf(N, FirstFailed, val, f) BY <1>1, KeptExists
  <2> QED BY <1>2, <2>1
<1> DEFINE k == CHOOSE f : is(f)
<1>4. is(k)
  <2> HIDE DEF is
  <2> QED BY <1>3, Zenon
<1> DEFINE order == k[N]
<1>5. LatestFailed = [j \in DOMAIN order |-> notices[Max(FailedOf(order[j]))].note]
  BY Zenon DEF LatestFailed
<1>6. order \in Seq(Ts)
  <2>1. \A i \in 1 .. N : i \in FirstFailed => val[i] \in Ts BY DEF FirstFailed
  <2>2. KeptOf(N, FirstFailed, val, k)
    <3> HIDE DEF is, k, val
    <3> QED BY <1>2, <1>4
  <2> HIDE DEF k, val, Ts
  <2> QED BY <1>1, <2>1, <2>2, KeptSeq
<1>7. ASSUME NEW t \in Ts PROVE notices[Max(FailedOf(t))].note \in Notes
  <2>1. FailedOf(t) \in SUBSET (0 .. N) /\ FailedOf(t) # {}
    BY <1>1 DEF FailedOf
  <2>2. Max(FailedOf(t)) \in FailedOf(t) BY <1>1, <2>1, MaxOf
  <2>3. Max(FailedOf(t)) \in DOMAIN notices BY <2>2 DEF FailedOf
  <2>4. \A i \in DOMAIN notices : notices[i].note \in Notes
    <3>1. \A i \in DOMAIN notices : notices[i] \in Notices BY <1>1
    <3> QED BY <3>1 DEF Notices
  <2> QED BY <2>3, <2>4
<1> HIDE DEF order, Ts
<1>8. Len(order) \in Nat /\ DOMAIN order = 1 .. Len(order) /\ \A j \in DOMAIN order : order[j] \in Ts
  BY <1>6
<1>9. [j \in 1 .. Len(order) |-> notices[Max(FailedOf(order[j]))].note] \in Seq(Notes)
  BY <1>7, <1>8
<1> QED BY <1>5, <1>8, <1>9

-----------------------------------------------------------------------------
(* Notifications: the inductive invariant. *)

\* A dispatch has a note to send, and its attempt was dry exactly over a channel of dry runs.
DispatchFits(s) ==
  /\ s.queue # << >>
  /\ s.result # "none" => (s.result = "dry" <=> Channels[s.at] \in DryRun)

\* The attempts that were taken count with the records of what was dispatched, since their
\* record is still to come.
ToldBy(ns, table, taken, died, c, n) ==
  IF c \in DryRun THEN taken = 0
  ELSE /\ Cardinality(RecordsIn(ns, c, n, "dispatched")) + Cardinality(AttemptsIn(table, c, n, Taken))
            <= taken
       /\ taken <= Cardinality(RecordsIn(ns, c, n, "dispatched")) + Cardinality(RecordsIn(ns, c, n, "failed"))
                     + Cardinality(AttemptsIn(table, c, n, Reached)) + died

\* A channel makes no more messages than it took notes, as many unless it is sent the ids,
\* and of what it took there is one with the id.
MessagesInv ==
  \A c \in Range(Channels), n \in Notes :
    /\ messages[c][n] <= accepted[c][n]
    /\ c \notin keyed => messages[c][n] = accepted[c][n]
    /\ accepted[c][n] > 0 => \E m \in SameId(n) : messages[c][m] > 0

NoticesInv ==
  /\ NoticesTypeOK
  /\ \A d \in Dispatchers : sending[d] # Idle => DispatchFits(sending[d])
  /\ \A c \in Range(Channels), n \in Notes : ToldBy(notices, sending, accepted[c][n], cut, c, n)
  /\ MessagesInv

\* A step that sends nothing leaves the messages alone.
LEMMA MessagesStay ==
  ASSUME NoticesInv, UNCHANGED <<accepted, messages, keyed>>
  PROVE  MessagesInv'
BY DEF NoticesInv, MessagesInv, SameId

LEMMA ChannelsOf ==
  /\ Len(Channels) \in Nat \ {0} /\ DOMAIN Channels = 1 .. Len(Channels)
  /\ \A i \in 1 .. Len(Channels) : Channels[i] \in Range(Channels)
<1>1. Len(Channels) \in Nat \ {0} /\ DOMAIN Channels = 1 .. Len(Channels)
  BY NotificationsAssumption
<1> QED BY <1>1 DEF Range

\* What is counted of the records there are.
LEMMA CountsOf ==
  ASSUME NEW ns \in Seq(Notices), NEW c, NEW n, NEW status
  PROVE  Cardinality(RecordsIn(ns, c, n, status)) \in Nat
<1>1. Len(ns) \in Nat /\ DOMAIN ns = 1 .. Len(ns) OBVIOUS
<1>2. RecordsIn(ns, c, n, status) \in SUBSET (1 .. Len(ns)) BY <1>1 DEF RecordsIn
<1>3. IsFiniteSet(1 .. Len(ns)) BY <1>1, FS_Interval
<1>4. IsFiniteSet(RecordsIn(ns, c, n, status)) BY <1>2, <1>3, FS_Subset
<1> QED BY <1>4, FS_CardinalityType

\* A step of one dispatch that records nothing and sends nothing new, however it ends.
LEMMA QuietDispatch ==
  ASSUME NEW ns \in Seq(Notices), NEW s, NEW t, NEW d \in Dispatchers, MovesOnly(s, t, d),
         NEW taken \in Nat, NEW k \in Nat, NEW l \in Nat, NEW c, NEW n,
         ToldBy(ns, s, taken, k, c, n),
         ~ Attempt(t[d], c, n, Reached),
         Attempt(s[d], c, n, Reached) => l = k + 1,
         ~ Attempt(s[d], c, n, Reached) => l >= k
  PROVE  ToldBy(ns, t, taken, l, c, n)
<1> DEFINE D == Cardinality(RecordsIn(ns, c, n, "dispatched"))
           F == Cardinality(RecordsIn(ns, c, n, "failed"))
           T0 == Cardinality(AttemptsIn(s, c, n, Taken))
           T1 == Cardinality(AttemptsIn(t, c, n, Taken))
           U0 == Cardinality(AttemptsIn(s, c, n, Reached))
           U1 == Cardinality(AttemptsIn(t, c, n, Reached))
<1>1. D \in Nat /\ F \in Nat BY CountsOf
<1>2. T0 \in Nat /\ T1 \in Nat /\ U0 \in Nat /\ U1 \in Nat BY AttemptsNat
<1>3. T1 <= T0
  <2>1. PICK rest \in Nat :
          /\ T0 = IF Attempt(s[d], c, n, Taken) THEN rest + 1 ELSE rest
          /\ T1 = IF Attempt(t[d], c, n, Taken) THEN rest + 1 ELSE rest
    BY AttemptsCount
  <2>2. ~ Attempt(t[d], c, n, Taken) BY DEF Attempt, Taken, Reached
  <2> HIDE DEF T0, T1
  <2> QED BY <2>1, <2>2
<1>4. U0 + k <= U1 + l
  <2>1. U0 = IF Attempt(s[d], c, n, Reached) THEN U1 + 1 ELSE U1 BY AttemptsLeft
  <2> HIDE DEF U0, U1
  <2>2. CASE Attempt(s[d], c, n, Reached)
    <3>1. U0 = U1 + 1 /\ l = k + 1 BY <2>1, <2>2
    <3> QED BY <1>2, <3>1
  <2>3. CASE ~ Attempt(s[d], c, n, Reached)
    <3>1. U0 = U1 /\ l >= k BY <2>1, <2>3
    <3> QED BY <1>2, <3>1
  <2> QED BY <2>2, <2>3
<1>5. CASE c \in DryRun BY <1>5 DEF ToldBy
<1>6. CASE c \notin DryRun
  <2>1. D + T0 <= taken /\ taken <= D + F + U0 + k BY <1>6 DEF ToldBy
  <2>2. D + T1 <= taken /\ taken <= D + F + U1 + l
    <3> HIDE DEF D, F, T0, T1, U0, U1
    <3>1. D + T1 <= taken BY <1>1, <1>2, <1>3, <2>1
    <3>2. taken <= D + F + U1 + l BY <1>1, <1>2, <1>4, <2>1
    <3> QED BY <3>1, <3>2
  <2> QED BY <1>6, <2>2 DEF ToldBy
<1> QED BY <1>5, <1>6

\* What a step has to show when only one dispatch moves.
LEMMA DispatchMoves ==
  ASSUME NoticesInv, NEW d \in Dispatchers, NEW s,
         sending' = [sending EXCEPT ![d] = s], s \in Dispatches \cup {Idle}, s # Idle => DispatchFits(s)
  PROVE  /\ sending' \in [Dispatchers -> Dispatches \cup {Idle}] /\ sending'[d] = s
         /\ MovesOnly(sending, sending', d)
         /\ \A e \in Dispatchers : sending'[e] # Idle => DispatchFits(sending'[e])
<1>1. /\ sending' \in [Dispatchers -> Dispatches \cup {Idle}] /\ sending'[d] = s
      /\ MovesOnly(sending, sending', d)
  BY DEF NoticesInv, NoticesTypeOK, MovesOnly
<1>2. ASSUME NEW e \in Dispatchers, sending'[e] # Idle PROVE DispatchFits(sending'[e])
  <2>1. CASE e = d BY <1>1, <1>2, <2>1
  <2>2. CASE e # d
    <3>1. sending'[e] = sending[e] BY <1>1, <2>2 DEF MovesOnly
    <3> QED BY <1>2, <3>1 DEF NoticesInv
  <2> QED BY <2>1, <2>2
<1> QED BY <1>1, <1>2

LEMMA NoticesInitHolds == NoticesInit => NoticesInv
<1> SUFFICES ASSUME NoticesInit PROVE NoticesInv OBVIOUS
<1>1. NoticesTypeOK
  <2>1. notices \in Seq(Notices) /\ Len(notices) <= MaxRecords
    BY NotificationsAssumption DEF NoticesInit
  <2>2. accepted \in [Range(Channels) -> [Notes -> Nat]] BY DEF NoticesInit
  <2>3. retries \in 0 .. MaxRetries /\ cut \in 0 .. MaxCuts BY NotificationsAssumption DEF NoticesInit
  <2>4. messages = accepted /\ keyed \subseteq Range(Channels) \ DryRun BY DEF NoticesInit
  <2> QED BY <2>1, <2>2, <2>3, <2>4 DEF NoticesInit, NoticesTypeOK
<1>2. ASSUME NEW c \in Range(Channels), NEW n \in Notes
      PROVE  ToldBy(notices, sending, accepted[c][n], cut, c, n)
  <2>1. accepted[c][n] = 0 /\ cut = 0 /\ notices = << >> BY DEF NoticesInit
  <2>2. \A status : RecordsIn(notices, c, n, status) = {} BY <2>1 DEF RecordsIn
  <2>3. \A rs : AttemptsIn(sending, c, n, rs) = {} BY DEF AttemptsIn, Attempt, NoticesInit
  <2>4. Cardinality({}) = 0 BY FS_EmptySet
  <2>5. Cardinality(RecordsIn(notices, c, n, "dispatched")) = 0
    BY <2>2, <2>4
  <2>6. Cardinality(RecordsIn(notices, c, n, "failed")) = 0
    BY <2>2, <2>4
  <2>7. Cardinality(AttemptsIn(sending, c, n, Taken)) = 0 /\ Cardinality(AttemptsIn(sending, c, n, Reached)) = 0
    BY <2>3, <2>4
  <2> QED BY <2>1, <2>5, <2>6, <2>7 DEF ToldBy
<1>3. \A d \in Dispatchers : sending[d] # Idle => DispatchFits(sending[d]) BY DEF NoticesInit
<1>4. MessagesInv BY DEF NoticesInit, MessagesInv
<1> QED BY <1>1, <1>2, <1>3, <1>4 DEF NoticesInv

LEMMA BeginDispatchStep ==
  ASSUME NoticesInv, NEW d \in Dispatchers, NEW queue \in Seq(Notes), queue # << >>, NEW retry \in BOOLEAN,
         BeginDispatch(d, queue, retry), UNCHANGED <<notices, accepted, messages, keyed, cut>>, retries' \in 0 .. MaxRetries
  PROVE  NoticesInv'
<1> DEFINE s == [queue |-> queue, at |-> 1, result |-> "none", from |-> Len(notices), retry |-> retry]
<1>1. notices \in Seq(Notices) /\ cut \in Nat BY DEF NoticesInv, NoticesTypeOK
<1>2. Len(notices) \in 0 .. MaxRecords BY <1>1, NotificationsAssumption DEF NoticesInv, NoticesTypeOK
<1>3. 1 \in 1 .. Len(Channels) BY ChannelsOf
<1>4. s \in Dispatches /\ DispatchFits(s) /\ s.result = "none"
  BY <1>2, <1>3 DEF Dispatches, Results, DispatchFits
<1>5. sending' = [sending EXCEPT ![d] = s] /\ sending[d] = Idle BY DEF BeginDispatch
<1> HIDE DEF s
<1>6. /\ sending' \in [Dispatchers -> Dispatches \cup {Idle}] /\ sending'[d] = s
      /\ MovesOnly(sending, sending', d)
      /\ \A e \in Dispatchers : sending'[e] # Idle => DispatchFits(sending'[e])
  BY <1>4, <1>5, DispatchMoves
<1>7. NoticesTypeOK' BY <1>6 DEF NoticesInv, NoticesTypeOK
<1>8. ASSUME NEW c \in Range(Channels), NEW n \in Notes
      PROVE  ToldBy(notices', sending', accepted'[c][n], cut', c, n)
  <2>1. accepted[c][n] \in Nat BY DEF NoticesInv, NoticesTypeOK
  <2>2. ToldBy(notices, sending, accepted[c][n], cut, c, n) BY DEF NoticesInv
  <2>3. ~ Attempt(sending'[d], c, n, Reached) BY <1>4, <1>6 DEF Attempt, Reached
  <2>4. ~ Attempt(sending[d], c, n, Reached) BY <1>5 DEF Attempt
  <2>5. PICK s0, t0 : s0 = sending /\ t0 = sending' OBVIOUS
  <2>6. PICK k \in Nat : k = cut BY <1>1
  <2>7. PICK taken \in Nat : taken = accepted[c][n] BY <2>1
  <2>8. k >= k OBVIOUS
  <2>9. ToldBy(notices, s0, taken, k, c, n) BY <2>2, <2>5, <2>6, <2>7
  <2>10. ToldBy(notices, t0, taken, k, c, n)
    BY <1>1, <1>6, <2>9, <2>3, <2>4, <2>5, <2>8, QuietDispatch
  <2> QED BY <2>5, <2>6, <2>7, <2>10
<1> QED BY <1>6, <1>7, <1>8, MessagesStay DEF NoticesInv

LEMMA DispatchStep ==
  ASSUME NoticesInv, NEW d \in Dispatchers, NEW note \in Notes, Dispatch(d, note)
  PROVE  NoticesInv'
<1>1. <<note>> \in Seq(Notes) /\ <<note>> # << >> OBVIOUS
<1>2. retries' \in 0 .. MaxRetries BY DEF NoticesInv, NoticesTypeOK, Dispatch
<1>3. BeginDispatch(d, <<note>>, FALSE) /\ UNCHANGED <<notices, accepted, messages, keyed, cut>> BY DEF Dispatch
<1> QED BY <1>1, <1>2, <1>3, BeginDispatchStep

LEMMA RetryStep ==
  ASSUME NoticesInv, NEW d \in Dispatchers, Retry(d)
  PROVE  NoticesInv'
<1>1. PICK queue \in Seq(Notes) : queue = LatestFailed
  BY LatestFailedSeq DEF NoticesInv, NoticesTypeOK
<1>2. retries' \in 0 .. MaxRetries
  BY NotificationsAssumption DEF NoticesInv, NoticesTypeOK, Retry
<1>3. BeginDispatch(d, queue, TRUE) /\ queue # << >> /\ UNCHANGED <<notices, accepted, messages, keyed, cut>>
  BY <1>1 DEF Retry
<1> QED BY <1>2, <1>3, BeginDispatchStep

\* The death of a process: what it had sent counts as cut off.
LEMMA DieSendingStep ==
  ASSUME NoticesInv, NEW d \in Dispatchers, DieSending(d)
  PROVE  NoticesInv'
<1>1. notices \in Seq(Notices) /\ cut \in Nat /\ cut' = cut + 1 /\ cut' \in 0 .. MaxCuts
  BY NotificationsAssumption DEF NoticesInv, NoticesTypeOK, DieSending
<1>2. sending' = [sending EXCEPT ![d] = Idle] /\ UNCHANGED <<accepted, messages, keyed, retries, notices>>
  BY DEF DieSending
<1>3. /\ sending' \in [Dispatchers -> Dispatches \cup {Idle}] /\ sending'[d] = Idle
      /\ MovesOnly(sending, sending', d)
      /\ \A e \in Dispatchers : sending'[e] # Idle => DispatchFits(sending'[e])
  BY <1>2, DispatchMoves
<1>4. NoticesTypeOK' BY <1>1, <1>2, <1>3 DEF NoticesInv, NoticesTypeOK
<1>5. ASSUME NEW c \in Range(Channels), NEW n \in Notes
      PROVE  ToldBy(notices', sending', accepted'[c][n], cut', c, n)
  <2>1. accepted[c][n] \in Nat BY DEF NoticesInv, NoticesTypeOK
  <2>2. ToldBy(notices, sending, accepted[c][n], cut, c, n) BY DEF NoticesInv
  <2>3. ~ Attempt(sending'[d], c, n, Reached) BY <1>3 DEF Attempt
  <2>4. cut + 1 \in Nat /\ cut + 1 >= cut BY <1>1
  <2>5. ToldBy(notices, sending', accepted[c][n], cut + 1, c, n)
    BY <1>1, <1>3, <2>1, <2>2, <2>3, <2>4, QuietDispatch
  <2> QED BY <1>1, <1>2, <2>5
<1> QED BY <1>2, <1>3, <1>4, <1>5, MessagesStay DEF NoticesInv

\* What is sent is on its way until it is recorded.
LEMMA SentCounts ==
  ASSUME NEW ns \in Seq(Notices), NEW s, NEW t, NEW d \in Dispatchers, MovesOnly(s, t, d),
         NEW taken \in Nat, NEW died \in Nat, NEW c, NEW n, ToldBy(ns, s, taken, died, c, n),
         ~ Attempt(s[d], c, n, Reached), Attempt(t[d], c, n, Reached) => c \notin DryRun
  PROVE  ToldBy(ns, t, IF Attempt(t[d], c, n, Reached) THEN taken + 1 ELSE taken, died, c, n)
<1> DEFINE D == Cardinality(RecordsIn(ns, c, n, "dispatched"))
           F == Cardinality(RecordsIn(ns, c, n, "failed"))
           T0 == Cardinality(AttemptsIn(s, c, n, Taken))
           T1 == Cardinality(AttemptsIn(t, c, n, Taken))
           U0 == Cardinality(AttemptsIn(s, c, n, Reached))
           U1 == Cardinality(AttemptsIn(t, c, n, Reached))
           now == IF Attempt(t[d], c, n, Reached) THEN taken + 1 ELSE taken
<1>1. D \in Nat /\ F \in Nat BY CountsOf
<1>2. T0 \in Nat /\ T1 \in Nat /\ U0 \in Nat /\ U1 \in Nat BY AttemptsNat
<1>3. MovesOnly(t, s, d) BY DEF MovesOnly
<1>4. ~ Attempt(s[d], c, n, Taken) BY DEF Attempt, Taken, Reached
<1>5. T1 = IF Attempt(t[d], c, n, Taken) THEN T0 + 1 ELSE T0 BY <1>3, <1>4, AttemptsLeft
<1>6. U1 = IF Attempt(t[d], c, n, Reached) THEN U0 + 1 ELSE U0 BY <1>3, AttemptsLeft
<1>7. Attempt(t[d], c, n, Taken) => Attempt(t[d], c, n, Reached) BY DEF Attempt, Taken, Reached
<1>8. CASE c \in DryRun BY <1>8 DEF ToldBy
<1>9. CASE c \notin DryRun
  <2>1. D + T0 <= taken /\ taken <= D + F + U0 + died BY <1>9 DEF ToldBy
  <2> HIDE DEF D, F, T0, T1, U0, U1
  <2>2. D + T1 <= now /\ now <= D + F + U1 + died
    <3>1. CASE Attempt(t[d], c, n, Reached)
      <4>1. now = taken + 1 /\ U1 = U0 + 1 BY <3>1, <1>6
      <4> HIDE DEF now
      <4>2. T1 <= T0 + 1 BY <1>2, <1>5
      <4> QED BY <1>1, <1>2, <2>1, <4>1, <4>2
    <3>2. CASE ~ Attempt(t[d], c, n, Reached)
      <4>1. now = taken /\ U1 = U0 /\ T1 = T0 BY <3>2, <1>5, <1>6, <1>7
      <4> HIDE DEF now
      <4> QED BY <1>1, <1>2, <2>1, <4>1
    <3> QED BY <3>1, <3>2
  <2> HIDE DEF now
  <2>3. ToldBy(ns, t, now, died, c, n) BY <1>9, <2>2 DEF ToldBy, D, F, T1, U1
  <2> QED BY <2>3 DEF now
<1> QED BY <1>8, <1>9

\* A record takes the place of the attempt that it tells of.
LEMMA RecordedCounts ==
  ASSUME NEW ns \in Seq(Notices), NEW s, NEW t, NEW d \in Dispatchers, MovesOnly(s, t, d),
         NEW taken \in Nat, NEW died \in Nat, NEW c, NEW n, ToldBy(ns, s, taken, died, c, n),
         NEW r \in Notices, ~ Attempt(t[d], c, n, Reached),
         c \notin DryRun /\ Tells(r, c, n, "dispatched") => Attempt(s[d], c, n, Taken),
         Attempt(s[d], c, n, Reached) => Tells(r, c, n, "dispatched") \/ Tells(r, c, n, "failed")
  PROVE  ToldBy(Append(ns, r), t, taken, died, c, n)
<1> DEFINE D0 == Cardinality(RecordsIn(ns, c, n, "dispatched"))
           F0 == Cardinality(RecordsIn(ns, c, n, "failed"))
           D1 == Cardinality(RecordsIn(Append(ns, r), c, n, "dispatched"))
           F1 == Cardinality(RecordsIn(Append(ns, r), c, n, "failed"))
           T0 == Cardinality(AttemptsIn(s, c, n, Taken))
           T1 == Cardinality(AttemptsIn(t, c, n, Taken))
           U0 == Cardinality(AttemptsIn(s, c, n, Reached))
           U1 == Cardinality(AttemptsIn(t, c, n, Reached))
<1>1. D0 \in Nat /\ F0 \in Nat BY CountsOf
<1>2. T0 \in Nat /\ T1 \in Nat /\ U0 \in Nat /\ U1 \in Nat BY AttemptsNat
<1>3. ~ Attempt(t[d], c, n, Taken) BY DEF Attempt, Taken, Reached
<1>4. T0 = IF Attempt(s[d], c, n, Taken) THEN T1 + 1 ELSE T1 BY <1>3, AttemptsLeft
<1>5. U0 = IF Attempt(s[d], c, n, Reached) THEN U1 + 1 ELSE U1 BY AttemptsLeft
<1>6. D1 = IF Tells(r, c, n, "dispatched") THEN D0 + 1 ELSE D0 BY RecordsCount
<1>7. F1 = IF Tells(r, c, n, "failed") THEN F0 + 1 ELSE F0 BY RecordsCount
<1>8. CASE c \in DryRun BY <1>8 DEF ToldBy
<1>9. CASE c \notin DryRun
  <2>1. D0 + T0 <= taken /\ taken <= D0 + F0 + U0 + died BY <1>9 DEF ToldBy
  <2> HIDE DEF D0, F0, D1, F1, T0, T1, U0, U1
  <2>2. D1 + T1 <= D0 + T0
    <3>1. CASE Tells(r, c, n, "dispatched")
      <4>1. D1 = D0 + 1 /\ T0 = T1 + 1 BY <3>1, <1>9, <1>4, <1>6
      <4> QED BY <1>1, <1>2, <4>1
    <3>2. CASE ~ Tells(r, c, n, "dispatched")
      <4>1. D1 = D0 /\ T1 <= T0 BY <3>2, <1>2, <1>4, <1>6
      <4> QED BY <1>1, <1>2, <4>1
    <3> QED BY <3>1, <3>2
  <2>3. D0 + F0 + U0 <= D1 + F1 + U1
    <3>1. D1 \in Nat /\ F1 \in Nat /\ D1 >= D0 /\ F1 >= F0 BY <1>1, <1>6, <1>7
    <3>2. CASE Attempt(s[d], c, n, Reached)
      <4>1. U0 = U1 + 1 BY <3>2, <1>5
      <4>2. D1 = D0 + 1 \/ F1 = F0 + 1 BY <3>2, <1>6, <1>7
      <4> QED BY <1>1, <1>2, <3>1, <4>1, <4>2
    <3>3. CASE ~ Attempt(s[d], c, n, Reached)
      <4>1. U0 = U1 BY <3>3, <1>5
      <4> QED BY <1>1, <1>2, <3>1, <4>1
    <3> QED BY <3>2, <3>3
  <2>4. D1 \in Nat /\ F1 \in Nat BY <1>1, <1>6, <1>7
  <2>5. D1 + T1 <= taken /\ taken <= D1 + F1 + U1 + died
    BY <1>1, <1>2, <2>1, <2>2, <2>3, <2>4
  <2> QED BY <1>9, <2>5 DEF ToldBy, D1, F1, T1, U1
<1> QED BY <1>8, <1>9

\* What comes of a note that a channel takes.
LEMMA SentMessages ==
  ASSUME NoticesInv, UNCHANGED keyed, NEW k \in Range(Channels), NEW note \in Notes,
         \/ UNCHANGED <<accepted, messages>>
         \/ accepted' = [accepted EXCEPT ![k][note] = @ + 1] /\ MakeMessage(k, note)
  PROVE  messages' \in [Range(Channels) -> [Notes -> Nat]] /\ MessagesInv'
<1>1. /\ accepted \in [Range(Channels) -> [Notes -> Nat]]
      /\ messages \in [Range(Channels) -> [Notes -> Nat]]
  BY DEF NoticesInv, NoticesTypeOK
<1>2. CASE UNCHANGED <<accepted, messages>> BY <1>1, <1>2, MessagesStay
<1>3. ASSUME accepted' = [accepted EXCEPT ![k][note] = @ + 1],
             messages' = [messages EXCEPT ![k][note] = @ + 1]
      PROVE  messages' \in [Range(Channels) -> [Notes -> Nat]] /\ MessagesInv'
  <2>1. messages' \in [Range(Channels) -> [Notes -> Nat]] BY <1>1, <1>3
  <2> SUFFICES ASSUME NEW c \in Range(Channels), NEW n \in Notes
               PROVE  /\ messages'[c][n] <= accepted'[c][n]
                      /\ c \notin keyed' => messages'[c][n] = accepted'[c][n]
                      /\ accepted'[c][n] > 0 => \E m \in SameId(n) : messages'[c][m] > 0
    BY <2>1 DEF MessagesInv, SameId
  <2>2. /\ messages[c][n] \in Nat /\ accepted[c][n] \in Nat /\ messages[c][n] <= accepted[c][n]
        /\ c \notin keyed => messages[c][n] = accepted[c][n]
        /\ accepted[c][n] > 0 => \E m \in SameId(n) : messages[c][m] > 0
    BY <1>1 DEF NoticesInv, MessagesInv
  <2>3. CASE c = k /\ n = note
    <3>1. messages'[c][n] = messages[c][n] + 1 /\ accepted'[c][n] = accepted[c][n] + 1
      BY <1>1, <1>3, <2>3
    <3>2. n \in SameId(n) BY DEF SameId
    <3>3. messages'[c][n] > 0 BY <2>2, <3>1
    <3> QED BY <2>2, <3>1, <3>2, <3>3
  <2>4. CASE ~ (c = k /\ n = note)
    <3>1. messages'[c][n] = messages[c][n] /\ accepted'[c][n] = accepted[c][n] BY <1>1, <1>3, <2>4
    <3>2. ASSUME NEW m \in SameId(n), messages[c][m] > 0 PROVE messages'[c][m] > 0
      <4>1. m \in Notes /\ messages[c][m] \in Nat BY <1>1 DEF SameId
      <4>2. messages'[c][m] = messages[c][m] \/ messages'[c][m] = messages[c][m] + 1 BY <1>1, <1>3, <4>1
      <4> QED BY <3>2, <4>1, <4>2
    <3> QED BY <2>2, <3>1, <3>2
  <2> QED BY <2>3, <2>4
<1>4. ASSUME accepted' = [accepted EXCEPT ![k][note] = @ + 1], UNCHANGED messages, k \in keyed,
             \E m \in SameId(note) : messages[k][m] > 0
      PROVE  messages' \in [Range(Channels) -> [Notes -> Nat]] /\ MessagesInv'
  <2> SUFFICES ASSUME NEW c \in Range(Channels), NEW n \in Notes
               PROVE  /\ messages[c][n] <= accepted'[c][n]
                      /\ c \notin keyed => messages[c][n] = accepted'[c][n]
                      /\ accepted'[c][n] > 0 => \E m \in SameId(n) : messages[c][m] > 0
    BY <1>1, <1>4 DEF MessagesInv, SameId
  <2>1. /\ messages[c][n] \in Nat /\ accepted[c][n] \in Nat /\ messages[c][n] <= accepted[c][n]
        /\ c \notin keyed => messages[c][n] = accepted[c][n]
        /\ accepted[c][n] > 0 => \E m \in SameId(n) : messages[c][m] > 0
    BY <1>1 DEF NoticesInv, MessagesInv
  <2>2. CASE c = k /\ n = note
    <3>1. accepted'[c][n] = accepted[c][n] + 1 BY <1>1, <1>4, <2>2
    <3> QED BY <1>4, <2>1, <2>2, <3>1
  <2>3. CASE ~ (c = k /\ n = note)
    <3>1. accepted'[c][n] = accepted[c][n] BY <1>1, <1>4, <2>3
    <3> QED BY <2>1, <3>1
  <2> QED BY <2>2, <2>3
<1> QED BY <1>2, <1>3, <1>4 DEF MakeMessage

LEMMA SendStep ==
  ASSUME NoticesInv, NEW d \in Dispatchers, Send(d)
  PROVE  NoticesInv'
<1>1. /\ notices \in Seq(Notices) /\ cut \in Nat /\ UNCHANGED <<notices, keyed, retries, cut>>
      /\ accepted \in [Range(Channels) -> [Notes -> Nat]]
  BY DEF NoticesInv, NoticesTypeOK, Send
<1>2. PICK s \in Dispatches : s = sending[d] /\ DispatchFits(s) /\ s.result = "none"
  BY DEF NoticesInv, NoticesTypeOK, Send, Sending
<1>3. PICK r \in Results \ {"none"} :
        /\ (r = "dry") = (Channels[s.at] \in DryRun)
        /\ sending' = [sending EXCEPT ![d] = [s EXCEPT !.result = r]]
        /\ IF r \in Reached
           THEN /\ accepted' = [accepted EXCEPT ![Channels[s.at]][Head(s.queue)] = @ + 1]
                /\ MakeMessage(Channels[s.at], Head(s.queue))
           ELSE UNCHANGED <<accepted, messages>>
  BY <1>2 DEF Send, Reached
<1> DEFINE next == [s EXCEPT !.result = r]
<1>4. /\ s.queue \in Seq(Notes) /\ s.queue # << >> /\ s.at \in 1 .. Len(Channels)
      /\ Head(s.queue) \in Notes /\ Channels[s.at] \in Range(Channels)
  BY <1>2, ChannelsOf DEF Dispatches, DispatchFits
<1>5. /\ next \in Dispatches /\ next.result = r /\ next.at = s.at /\ next.queue = s.queue
      /\ DispatchFits(next)
  BY <1>2, <1>3, <1>4 DEF Dispatches, DispatchFits
<1>6. sending' = [sending EXCEPT ![d] = next] BY <1>3
<1> HIDE DEF next
<1>7. /\ sending' \in [Dispatchers -> Dispatches \cup {Idle}] /\ sending'[d] = next
      /\ MovesOnly(sending, sending', d)
      /\ \A e \in Dispatchers : sending'[e] # Idle => DispatchFits(sending'[e])
  BY <1>5, <1>6, DispatchMoves
<1>8. next # Idle BY <1>5, NotificationsAssumption
<1>9. /\ accepted' \in [Range(Channels) -> [Notes -> Nat]]
      /\ \A c \in Range(Channels), n \in Notes :
           accepted'[c][n] = IF Attempt(next, c, n, Reached) THEN accepted[c][n] + 1 ELSE accepted[c][n]
  <2>1. CASE r \in Reached
    <3>1. accepted' = [accepted EXCEPT ![Channels[s.at]][Head(s.queue)] = @ + 1] BY <1>3, <2>1
    <3>2. accepted' \in [Range(Channels) -> [Notes -> Nat]] BY <1>1, <1>4, <3>1
    <3>3. ASSUME NEW c \in Range(Channels), NEW n \in Notes
          PROVE  accepted'[c][n] = IF c = Channels[s.at] /\ n = Head(s.queue) THEN accepted[c][n] + 1
                                   ELSE accepted[c][n]
      BY <1>1, <1>4, <3>1
    <3>4. ASSUME NEW c, NEW n
          PROVE  Attempt(next, c, n, Reached) <=> c = Channels[s.at] /\ n = Head(s.queue)
      BY <1>5, <1>8, <2>1 DEF Attempt
    <3> QED BY <3>2, <3>3, <3>4
  <2>2. CASE r \notin Reached
    <3>1. \A c, n : ~ Attempt(next, c, n, Reached) BY <1>5, <2>2 DEF Attempt
    <3> QED BY <1>1, <1>3, <2>2, <3>1
  <2> QED BY <2>1, <2>2
<1>12. messages' \in [Range(Channels) -> [Notes -> Nat]] /\ MessagesInv'
  BY <1>1, <1>3, <1>4, <1>9, SentMessages DEF NoticesInv, NoticesTypeOK
<1>10. NoticesTypeOK' BY <1>1, <1>7, <1>9, <1>12 DEF NoticesInv, NoticesTypeOK
<1>11. ASSUME NEW c \in Range(Channels), NEW n \in Notes
       PROVE  ToldBy(notices', sending', accepted'[c][n], cut', c, n)
  <2>1. PICK s0, t0 : s0 = sending /\ t0 = sending' OBVIOUS
  <2>2. PICK taken \in Nat : taken = accepted[c][n] BY <1>1
  <2>3. ToldBy(notices, s0, taken, cut, c, n) BY <2>1, <2>2 DEF NoticesInv
  <2>4. ~ Attempt(s0[d], c, n, Reached) BY <1>2, <2>1 DEF Attempt, Reached
  <2>5. t0[d] = next /\ MovesOnly(s0, t0, d) BY <1>7, <2>1
  <2>6. Attempt(t0[d], c, n, Reached) => c \notin DryRun
    BY <1>3, <1>5, <2>5 DEF Attempt, Reached
  <2>7. ToldBy(notices, t0, IF Attempt(t0[d], c, n, Reached) THEN taken + 1 ELSE taken, cut, c, n)
    BY <1>1, <2>3, <2>4, <2>5, <2>6, SentCounts
  <2>8. accepted'[c][n] = IF Attempt(t0[d], c, n, Reached) THEN taken + 1 ELSE taken
    BY <1>9, <2>2, <2>5
  <2> QED BY <1>1, <2>1, <2>7, <2>8
<1> QED BY <1>7, <1>10, <1>11, <1>12 DEF NoticesInv

\* What is left of a dispatch has a note to send, or nothing is left.
LEMMA OnwardFits ==
  ASSUME NEW s \in Dispatches, DispatchFits(s)
  PROVE  Onward(s) = Idle \/ (Onward(s) \in Dispatches /\ DispatchFits(Onward(s)) /\ Onward(s).result = "none")
<1>1. /\ s.queue \in Seq(Notes) /\ s.queue # << >> /\ s.at \in 1 .. Len(Channels)
      /\ Len(s.queue) \in Nat
  BY DEF Dispatches, DispatchFits
<1>2. Len(Channels) \in Nat \ {0} BY ChannelsOf
<1>3. CASE s.at < Len(Channels)
  <2> DEFINE next == [s EXCEPT !.at = @ + 1, !.result = "none"]
  <2>1. s.at + 1 \in 1 .. Len(Channels) BY <1>1, <1>2, <1>3
  <2>2. next \in Dispatches /\ next.queue = s.queue /\ next.result = "none"
    BY <2>1 DEF Dispatches, Results
  <2>3. Onward(s) = next BY <1>3 DEF Onward
  <2> HIDE DEF next
  <2> QED BY <1>1, <2>2, <2>3 DEF DispatchFits
<1>4. CASE ~ (s.at < Len(Channels)) /\ Len(s.queue) > 1
  <2> DEFINE next == [s EXCEPT !.queue = Tail(@), !.at = 1, !.result = "none"]
  <2>1. Tail(s.queue) \in Seq(Notes) /\ Tail(s.queue) # << >>
    <3>1. PICK rest : rest = Tail(s.queue) OBVIOUS
    <3>2. rest \in Seq(Notes) /\ Len(rest) = Len(s.queue) - 1 BY <1>1, <3>1
    <3>3. PICK m \in Nat : m = Len(s.queue) BY <1>1
    <3>4. m > 1 /\ Len(rest) = m - 1 BY <1>4, <3>2, <3>3
    <3>5. Len(rest) # 0 BY <3>4
    <3>6. rest # << >> BY <3>5
    <3> QED BY <3>1, <3>2, <3>6
  <2>2. 1 \in 1 .. Len(Channels) BY <1>2
  <2>3. next \in Dispatches /\ next.queue = Tail(s.queue) /\ next.result = "none"
    BY <2>1, <2>2 DEF Dispatches, Results
  <2>4. Onward(s) = next BY <1>4 DEF Onward
  <2> HIDE DEF next
  <2> QED BY <2>1, <2>3, <2>4 DEF DispatchFits
<1>5. CASE ~ (s.at < Len(Channels)) /\ ~ (Len(s.queue) > 1) BY <1>5 DEF Onward
<1> QED BY <1>3, <1>4, <1>5

LEMMA RecordNoticeStep ==
  ASSUME NoticesInv, NEW d \in Dispatchers, RecordNotice(d)
  PROVE  NoticesInv'
<1>1. /\ notices \in Seq(Notices) /\ cut \in Nat /\ UNCHANGED <<accepted, messages, keyed, retries, cut>>
      /\ accepted \in [Range(Channels) -> [Notes -> Nat]] /\ Len(notices) < MaxRecords
  BY DEF NoticesInv, NoticesTypeOK, RecordNotice
<1>2. PICK s \in Dispatches : s = sending[d] /\ DispatchFits(s) /\ s.result # "none" /\ s # Idle
  BY DEF NoticesInv, NoticesTypeOK, RecordNotice, Sending
<1> DEFINE r == [note |-> Head(s.queue), channel |-> Channels[s.at], status |-> StatusOf(s.result),
                 dry |-> s.result = "dry"]
<1>3. /\ s.queue \in Seq(Notes) /\ s.queue # << >> /\ s.at \in 1 .. Len(Channels)
      /\ Head(s.queue) \in Notes /\ Channels[s.at] \in Range(Channels) /\ s.result \in Results
  BY <1>2, ChannelsOf DEF Dispatches, DispatchFits
<1>4. /\ r \in Notices /\ r.note = Head(s.queue) /\ r.channel = Channels[s.at]
      /\ r.status = StatusOf(s.result)
  BY <1>3 DEF Notices, StatusOf
<1>5. notices' = Append(notices, r) BY <1>2 DEF RecordNotice
<1> HIDE DEF r
<1>6. PICK next : next = Onward(s) OBVIOUS
<1>7. next = Idle \/ (next \in Dispatches /\ DispatchFits(next) /\ next.result = "none")
  BY <1>2, <1>6, OnwardFits
<1>8. sending' = [sending EXCEPT ![d] = next] BY <1>2, <1>6 DEF RecordNotice
<1>9. /\ sending' \in [Dispatchers -> Dispatches \cup {Idle}] /\ sending'[d] = next
      /\ MovesOnly(sending, sending', d)
      /\ \A e \in Dispatchers : sending'[e] # Idle => DispatchFits(sending'[e])
  BY <1>7, <1>8, DispatchMoves
<1>10. notices' \in Seq(Notices) /\ Len(notices') <= MaxRecords
  BY <1>1, <1>4, <1>5, NotificationsAssumption
<1>11. NoticesTypeOK' BY <1>1, <1>9, <1>10 DEF NoticesInv, NoticesTypeOK
<1>12. ASSUME NEW c \in Range(Channels), NEW n \in Notes
       PROVE  ToldBy(notices', sending', accepted'[c][n], cut', c, n)
  <2>1. PICK s0, t0 : s0 = sending /\ t0 = sending' OBVIOUS
  <2>2. PICK taken \in Nat : taken = accepted[c][n] BY <1>1
  <2>3. ToldBy(notices, s0, taken, cut, c, n) BY <2>1, <2>2 DEF NoticesInv
  <2>4. s0[d] = s /\ t0[d] = next /\ MovesOnly(s0, t0, d) BY <1>2, <1>9, <2>1
  <2>5. ~ Attempt(t0[d], c, n, Reached) BY <1>7, <2>4 DEF Attempt, Reached
  <2>6. c \notin DryRun /\ Tells(r, c, n, "dispatched") => Attempt(s0[d], c, n, Taken)
    <3>1. SUFFICES ASSUME c \notin DryRun, Tells(r, c, n, "dispatched") PROVE Attempt(s, c, n, Taken)
      BY <2>4
    <3>2. Channels[s.at] = c /\ Head(s.queue) = n /\ StatusOf(s.result) = "dispatched"
      BY <3>1, <1>4 DEF Tells
    <3>3. s.result # "dry" BY <3>1, <3>2, <1>2 DEF DispatchFits
    <3>4. s.result = "taken" BY <3>2, <3>3 DEF StatusOf
    <3> QED BY <1>2, <3>2, <3>4 DEF Attempt, Taken
  <2>7. Attempt(s0[d], c, n, Reached) => Tells(r, c, n, "dispatched") \/ Tells(r, c, n, "failed")
    BY <1>4, <2>4 DEF Attempt, Tells, StatusOf
  <2>8. ToldBy(Append(notices, r), t0, taken, cut, c, n)
    BY <1>1, <1>4, <2>3, <2>4, <2>5, <2>6, <2>7, RecordedCounts
  <2> QED BY <1>1, <1>5, <2>1, <2>2, <2>8
<1> QED BY <1>1, <1>9, <1>11, <1>12, MessagesStay DEF NoticesInv

LEMMA NoticesInvHolds == NoticesSpec => []NoticesInv
<1>1. NoticesInit => NoticesInv BY NoticesInitHolds
<1>2. NoticesInv /\ [NoticesNext]_noticeVars => NoticesInv'
  <2> SUFFICES ASSUME NoticesInv, [NoticesNext]_noticeVars PROVE NoticesInv' OBVIOUS
  <2>1. ASSUME NEW d \in Dispatchers, NEW note \in Notes, Dispatch(d, note) PROVE NoticesInv'
    BY <2>1, DispatchStep
  <2>2. ASSUME NEW d \in Dispatchers, Retry(d) PROVE NoticesInv' BY <2>2, RetryStep
  <2>3. ASSUME NEW d \in Dispatchers, Send(d) PROVE NoticesInv' BY <2>3, SendStep
  <2>4. ASSUME NEW d \in Dispatchers, RecordNotice(d) PROVE NoticesInv' BY <2>4, RecordNoticeStep
  <2>5. ASSUME NEW d \in Dispatchers, DieSending(d) PROVE NoticesInv' BY <2>5, DieSendingStep
  <2>6. CASE UNCHANGED noticeVars
    <3>1. PICK s0, t0 : s0 = sending /\ t0 = sending' OBVIOUS
    <3>2. MessagesInv' BY <2>6, MessagesStay DEF noticeVars
    <3> QED BY <2>6, <3>1, <3>2 DEF noticeVars, NoticesInv, NoticesTypeOK
  <2> QED BY <2>1, <2>2, <2>3, <2>4, <2>5, <2>6 DEF NoticesNext
<1> QED BY <1>1, <1>2, PTL DEF NoticesSpec

\* The records, the counters and the dispatches are of the shapes that dispatcher.py and
\* retry.py give them, whatever the dispatchers are and whatever they send.
THEOREM NoticesTypes == NoticesSpec => []NoticesTypeOK
<1>1. NoticesInv => NoticesTypeOK BY DEF NoticesInv
<1> QED BY <1>1, NoticesInvHolds, PTL

\* The records of notifications.jsonl tell how many messages a channel made of a note, up to
\* what failed, what is under way, what a death cut off, and what a channel that is sent ids
\* took for a repetition.
THEOREM RecordsTellDeliveryHolds == NoticesSpec => []RecordsTellDelivery
<1>1. NoticesInv => RecordsTellDelivery
  <2> SUFFICES ASSUME NoticesInv, NEW c \in Range(Channels), NEW n \in Notes
               PROVE  IF c \in DryRun THEN messages[c][n] = 0
                      ELSE /\ c \notin keyed => RecordsOf(c, n, "dispatched") <= messages[c][n]
                           /\ RecordsOf(c, n, "dispatched") > 0 => \E m \in SameId(n) : messages[c][m] > 0
                           /\ messages[c][n] <= RecordsOf(c, n, "dispatched") + RecordsOf(c, n, "failed")
                                                  + Underway(c, n) + cut
    BY DEF RecordsTellDelivery
  <2>1. ToldBy(notices, sending, accepted[c][n], cut, c, n) BY DEF NoticesInv
  <2>4. /\ messages[c][n] \in Nat /\ accepted[c][n] \in Nat /\ messages[c][n] <= accepted[c][n]
        /\ c \notin keyed => messages[c][n] = accepted[c][n]
        /\ accepted[c][n] > 0 => \E m \in SameId(n) : messages[c][m] > 0
    BY DEF NoticesInv, NoticesTypeOK, MessagesInv
  <2>2. CASE c \in DryRun
    <3>1. accepted[c][n] = 0 BY <2>1, <2>2 DEF ToldBy
    <3> QED BY <2>2, <2>4, <3>1
  <2>3. CASE c \notin DryRun
    <3> DEFINE D == Cardinality(RecordsIn(notices, c, n, "dispatched"))
               F == Cardinality(RecordsIn(notices, c, n, "failed"))
               T == Cardinality(AttemptsIn(sending, c, n, Taken))
               U == Cardinality(AttemptsIn(sending, c, n, Reached))
    <3>1. RecordsOf(c, n, "dispatched") = D BY Zenon DEF RecordsOf, RecordsIn, Tells
    <3>2. RecordsOf(c, n, "failed") = F BY Zenon DEF RecordsOf, RecordsIn, Tells
    <3>3. Underway(c, n) = U
      <4>1. {d \in Dispatchers : /\ Sending(d) /\ Channels[sending[d].at] = c
                                 /\ Head(sending[d].queue) = n
                                 /\ sending[d].result \in {"taken", "lost"}}
            = AttemptsIn(sending, c, n, Reached)
        BY DEF AttemptsIn, Attempt, Reached, Sending
      <4> QED BY <4>1 DEF Underway
    <3>4. notices \in Seq(Notices) /\ accepted[c][n] \in Nat /\ cut \in Nat
      BY DEF NoticesInv, NoticesTypeOK
    <3>5. D \in Nat /\ F \in Nat BY <3>4, CountsOf
    <3>6. T \in Nat /\ U \in Nat BY AttemptsNat
    <3>7. D + T <= accepted[c][n] /\ accepted[c][n] <= D + F + U + cut
      BY <2>1, <2>3 DEF ToldBy
    <3> HIDE DEF D, F, T, U
    <3>8. D <= accepted[c][n] BY <3>4, <3>5, <3>6, <3>7
    <3>9. D > 0 => accepted[c][n] > 0 BY <3>4, <3>5, <3>8
    <3>10. messages[c][n] <= D + F + U + cut BY <2>4, <3>4, <3>5, <3>6, <3>7
    <3> QED BY <2>3, <2>4, <3>1, <3>2, <3>3, <3>8, <3>9, <3>10
  <2> QED BY <2>2, <2>3
<1> QED BY <1>1, NoticesInvHolds, PTL

-----------------------------------------------------------------------------
(* Memory: what comes first of a set. *)

LEMMA FirstOfFacts ==
  ASSUME NEW S, NEW n \in Nat, NEW key, NEW s \in FirstOf(S, n, key)
  PROVE  /\ s \in Seq(S) /\ Len(s) <= n
         /\ \A j, k \in DOMAIN s : j < k => s[j] # s[k]
<1>1. s \in BoundedSeq(S, n) /\ \A j, k \in DOMAIN s : j < k => s[j] # s[k]
  BY DEF FirstOf
<1>2. PICK m \in 0 .. n : s \in [1 .. m -> S] BY <1>1 DEF BoundedSeq, SeqOf
<1>3. m \in Nat /\ m <= n BY <1>2
<1>4. s \in Seq(S) /\ Len(s) = m BY <1>2, <1>3
<1> QED BY <1>1, <1>3, <1>4

-----------------------------------------------------------------------------
(* Memory: candidates. *)

MemoryIds == Runs \X (1 .. MaxKept)
Lessons == [source : Sources, topic : Topics \cup {0}]

LEMMA CandidatesOf ==
  ASSUME NEW found \in Findings
  PROVE  /\ \A c \in Candidates(found) : c \in Lessons
         /\ \A c, d \in Candidates(found) :
              c # d /\ SameLesson(c, d) =>
                \/ c.source = "risk" /\ d.source = "risk_item"
                \/ c.source = "risk_item" /\ d.source = "risk"
<1>1. found.rules \subseteq Topics /\ found.risks \subseteq Topics /\ found.items \subseteq Topics
      /\ found.answers \subseteq Topics
  BY MemoryAssumption
<1>2. ASSUME NEW c \in Candidates(found)
      PROVE  /\ c = [source |-> c.source, topic |-> c.topic]
             /\ c.topic \in Topics \cup {0}
             /\ \/ c.source = "clarified_rule" /\ c.topic \in found.clarified
                \/ c.source = "rule" /\ c.topic \notin found.clarified
                \/ c.source \in {"risk", "risk_item", "answer"}
                \/ c.source = "case" /\ c.topic = 0
  <2>1. CASE c \in {Candidate(IF t \in found.clarified THEN "clarified_rule" ELSE "rule", t) : t \in found.rules}
    <3>1. PICK t \in found.rules : c = Candidate(IF t \in found.clarified THEN "clarified_rule" ELSE "rule", t)
      BY <2>1
    <3>2. CASE t \in found.clarified
      <4>1. c = [source |-> "clarified_rule", topic |-> t] BY <3>1, <3>2 DEF Candidate
      <4> QED BY <4>1, <3>2, <1>1
    <3>3. CASE t \notin found.clarified
      <4>1. c = [source |-> "rule", topic |-> t] BY <3>1, <3>3 DEF Candidate
      <4> QED BY <4>1, <3>3, <1>1
    <3> QED BY <3>2, <3>3
  <2>2. CASE c \in {Candidate("risk", t) : t \in found.risks}
    <3>1. PICK t \in found.risks : c = [source |-> "risk", topic |-> t] BY <2>2 DEF Candidate
    <3> QED BY <3>1, <1>1
  <2>3. CASE c \in {Candidate("risk_item", t) : t \in found.items}
    <3>1. PICK t \in found.items : c = [source |-> "risk_item", topic |-> t] BY <2>3 DEF Candidate
    <3> QED BY <3>1, <1>1
  <2>4. CASE c \in {Candidate("answer", t) : t \in found.answers}
    <3>1. PICK t \in found.answers : c = [source |-> "answer", topic |-> t] BY <2>4 DEF Candidate
    <3> QED BY <3>1, <1>1
  <2>5. CASE c = [source |-> "case", topic |-> 0] BY <2>5
  <2>6. c \in {Candidate("case", 0)} => c = [source |-> "case", topic |-> 0] BY DEF Candidate
  <2> QED BY <2>1, <2>2, <2>3, <2>4, <2>5, <2>6 DEF Candidates
<1>3. ASSUME NEW c \in Candidates(found) PROVE c \in Lessons
  <2>1. c.source \in Sources /\ c.topic \in Topics \cup {0} BY <1>2 DEF Sources
  <2>2. c = [source |-> c.source, topic |-> c.topic] BY <1>2
  <2> QED BY <2>1, <2>2 DEF Lessons
<1>4. ASSUME NEW c \in Candidates(found), NEW d \in Candidates(found), c # d, SameLesson(c, d)
      PROVE  \/ c.source = "risk" /\ d.source = "risk_item"
             \/ c.source = "risk_item" /\ d.source = "risk"
  <2>1. c.topic = d.topic /\ TypeOfMemory(c.source) = TypeOfMemory(d.source) BY <1>4 DEF SameLesson
  <2>2. c.source # d.source BY <1>2, <1>4, <2>1
  <2>3. PICK a, b : a = c.source /\ b = d.source OBVIOUS
  <2>4. a \in Sources /\ b \in Sources BY <1>2, <2>3 DEF Sources
  <2>5. ~ (a = "clarified_rule" /\ b = "rule") /\ ~ (a = "rule" /\ b = "clarified_rule")
    BY <1>2, <2>1, <2>3
  <2>6. a # b /\ TypeOfMemory(a) = TypeOfMemory(b) BY <2>1, <2>2, <2>3
  <2>7. (a = "risk" /\ b = "risk_item") \/ (a = "risk_item" /\ b = "risk")
    BY <2>4, <2>5, <2>6 DEF Sources, TypeOfMemory
  <2> QED BY <2>3, <2>7
<1> QED BY <1>3, <1>4

LEMMA NewOf ==
  ASSUME NEW found \in Findings, NEW existing
  PROVE  /\ \A c \in New(found, existing) : c \in Lessons /\ ~ Repeats(c, existing)
         /\ \A c, d \in New(found, existing) : c # d => ~ SameLesson(c, d)
<1> DEFINE fit == {c \in Candidates(found) : c.source \notin found.vague /\ ~ Repeats(c, existing)}
<1>1. New(found, existing) = {c \in fit : c.source = "risk_item" => Candidate("risk", c.topic) \notin fit}
  BY Zenon DEF New
<1>2. \A c \in fit : c \in Candidates(found) /\ ~ Repeats(c, existing) OBVIOUS
<1> HIDE DEF fit
<1>3. ASSUME NEW c \in New(found, existing), NEW d \in New(found, existing),
             c.source = "risk_item", d.source = "risk"
      PROVE  ~ SameLesson(c, d)
  <2>1. d \in fit /\ d \in Candidates(found) BY <1>1, <1>2
  <2>2. d \in Lessons BY <2>1, CandidatesOf
  <2>3. d = [source |-> "risk", topic |-> d.topic] BY <1>3, <2>2 DEF Lessons
  <2>4. Candidate("risk", c.topic) \notin fit BY <1>1, <1>3
  <2>5. c.topic # d.topic BY <2>1, <2>3, <2>4 DEF Candidate
  <2> QED BY <2>5 DEF SameLesson
<1>4. ASSUME NEW c \in New(found, existing), NEW d \in New(found, existing), c # d
      PROVE  ~ SameLesson(c, d)
  <2>1. SUFFICES ASSUME SameLesson(c, d) PROVE FALSE OBVIOUS
  <2>2. c \in Candidates(found) /\ d \in Candidates(found) BY <1>1, <1>2
  <2>3. SameLesson(d, c) BY <2>1 DEF SameLesson
  <2> QED BY <1>3, <1>4, <2>1, <2>2, <2>3, CandidatesOf
<1>5. \A c \in New(found, existing) : c \in Lessons /\ ~ Repeats(c, existing)
  BY <1>1, <1>2, CandidatesOf
<1> QED BY <1>4, <1>5

\* What a review is to store says nothing twice and nothing that is in mem among ids.
QueueFits(queue, ids, mem) ==
  /\ \A j, k \in DOMAIN queue : j < k => ~ SameLesson(queue[j], queue[k])
  /\ \A k \in DOMAIN queue : \A id \in ids : ~ SameLesson(queue[k], mem[id])

LEMMA BestFits ==
  ASSUME NEW found \in Findings, NEW existing, NEW queue \in BestOf(found, existing)
  PROVE  /\ queue \in Seq(Lessons) /\ Len(queue) <= MaxKept
         /\ QueueFits(queue, existing, memories)
<1> DEFINE new == New(found, existing)
<1>1. MaxKept \in Nat BY MemoryAssumption
<1>2. \E key : queue \in FirstOf(new, MaxKept, key) BY Zenon DEF BestOf
<1>3. \A c \in new : c \in Lessons /\ ~ Repeats(c, existing) BY NewOf
<1>4. \A c, d \in new : c # d => ~ SameLesson(c, d) BY NewOf
<1> HIDE DEF new
<1>5. /\ queue \in Seq(new) /\ Len(queue) <= MaxKept
      /\ \A j, k \in DOMAIN queue : j < k => queue[j] # queue[k]
  BY <1>1, <1>2, FirstOfFacts
<1>6. Len(queue) \in Nat /\ DOMAIN queue = 1 .. Len(queue) /\ \A k \in 1 .. Len(queue) : queue[k] \in new
  BY <1>5
<1>7. \A k \in 1 .. Len(queue) : queue[k] \in Lessons BY <1>3, <1>6
<1>8. queue \in Seq(Lessons) BY <1>5, <1>7
<1>9. \A c \in new : \A id \in existing : ~ SameLesson(c, memories[id]) BY <1>3 DEF Repeats
<1> QED BY <1>4, <1>5, <1>6, <1>8, <1>9 DEF QueueFits

-----------------------------------------------------------------------------
(* Memory: what a review is given. *)

\* A memory that a review was given, as UsedWithinScope has it; asks: what it was asked.
UseFits(asks, m, alike) ==
  LET scopes == {<<"global", None>>, <<"team", asks.team>>, <<"project", asks.project>>}
      type == TypeOfMemory(m.source)
  IN  /\ asks.mode # "off"
      /\ asks.mode = "strict" => type = "team_rule"
      /\ m.scope \in scopes \ {<<"global", None>>} \/ asks.type \in m.types \/ alike
      /\ type \in {"clarification_fact", "review_case"} /\ asks.mode = "assist" =>
           m.scope \in scopes \/ alike

LEMMA ScoresOf ==
  ASSUME NEW source \in Sources
  PROVE  /\ Reuse[source] + Confidence[source] \in 0 .. 2796
         /\ TypeOfMemory(source) \in {"clarification_fact", "review_case"} =>
              Reuse[source] + Confidence[source] <= 1860
         /\ TypeOfMemory(source) \in {"clarification_fact", "review_case"} =>
              TypeOfMemory(source) \notin {"team_rule", "risk_pattern"}
<1>1. CASE source = "rule" BY <1>1 DEF Reuse, Confidence, TypeOfMemory
<1>2. CASE source = "clarified_rule" BY <1>2 DEF Reuse, Confidence, TypeOfMemory
<1>3. CASE source = "risk" BY <1>3 DEF Reuse, Confidence, TypeOfMemory
<1>4. CASE source = "risk_item" BY <1>4 DEF Reuse, Confidence, TypeOfMemory
<1>5. CASE source = "answer" BY <1>5 DEF Reuse, Confidence, TypeOfMemory
<1>6. CASE source = "case" BY <1>6 DEF Reuse, Confidence, TypeOfMemory
<1> QED BY <1>1, <1>2, <1>3, <1>4, <1>5, <1>6 DEF Sources

LEMMA SelectedFits ==
  ASSUME NEW r \in Runs, NEW m, NEW alike \in Alike, m.source \in Sources,
         request[r].mode \in RecallModes, request[r].mode # "off",
         request[r].mode = "strict" => TypeOfMemory(m.source) = "team_rule",
         Score(r, m, alike) >= Threshold[request[r].mode]
  PROVE  UseFits(request[r], m, alike > 0)
<1>1. PICK asks : asks = request[r] OBVIOUS
<1> DEFINE scope == ScopeScore(r, m)
           worth == Reuse[m.source] + Confidence[m.source]
           strict == IF asks.mode = "strict" /\ TypeOfMemory(m.source) = "team_rule" THEN 1000 ELSE 0
           hybrid == IF asks.mode = "hybrid" /\ TypeOfMemory(m.source) \in {"team_rule", "risk_pattern"}
                     THEN 800 ELSE 0
           scopes == {<<"global", None>>, <<"team", asks.team>>, <<"project", asks.project>>}
<1>2. asks.mode \in {"strict", "assist", "hybrid"}
  BY <1>1 DEF RecallModes, Threshold
<1>3. scope \in {0, 4500, 7500, 10000} BY DEF ScopeScore
<1>4. worth \in 0 .. 2796
  <2>1. PICK source \in Sources : source = m.source OBVIOUS
  <2>2. Reuse[source] + Confidence[source] \in 0 .. 2796 BY ScoresOf
  <2>3. worth = Reuse[source] + Confidence[source] BY <2>1
  <2> HIDE DEF worth
  <2> QED BY <2>2, <2>3
<1>5. strict \in {0, 1000} /\ hybrid \in {0, 800} /\ (strict = 0 \/ hybrid = 0) OBVIOUS
<1>6. Reuse[m.source] \in Nat /\ Confidence[m.source] \in Nat
  BY DEF Sources, Reuse, Confidence
<1>7. Score(r, m, alike) = scope + alike + worth + strict + hybrid
  <2>1. Score(r, m, alike) = scope + alike + Reuse[m.source] + Confidence[m.source] + strict + hybrid
    BY <1>1 DEF Score
  <2>2. alike \in Nat BY DEF Alike
  <2> HIDE DEF scope, strict, hybrid
  <2> QED BY <1>3, <1>5, <1>6, <2>1, <2>2
<1>8. Threshold["strict"] = 7000 /\ Threshold["assist"] = 6600 /\ Threshold["hybrid"] = 6000
  BY DEF Threshold
<1>9. scope + alike + worth + strict + hybrid >= 6000
  <2>1. Score(r, m, alike) >= Threshold[asks.mode] BY <1>1
  <2>2. Threshold[asks.mode] \in {7000, 6600, 6000} BY <1>2, <1>8
  <2>3. scope + alike + worth + strict + hybrid \in Nat
    <3>1. alike \in Nat BY DEF Alike
    <3> HIDE DEF scope, worth, strict, hybrid
    <3> QED BY <1>3, <1>4, <1>5, <3>1
  <2> HIDE DEF scope, worth, strict, hybrid
  <2>4. PICK sum \in Nat : sum = scope + alike + worth + strict + hybrid BY <2>3
  <2>5. PICK least \in {7000, 6600, 6000} : least = Threshold[asks.mode] BY <2>2
  <2>6. sum >= least BY <1>7, <2>1, <2>4, <2>5
  <2>7. sum >= 6000 BY <2>6
  <2> QED BY <2>4, <2>7
<1>10. scope = 0 => alike > 0
  <2> HIDE DEF scope, worth, strict, hybrid
  <2>1. SUFFICES ASSUME scope = 0, alike = 0 PROVE FALSE BY DEF Alike
  <2>2. PICK w \in 0 .. 2796 : w = worth BY <1>4
  <2>3. PICK x \in {0, 1000}, y \in {0, 800} : x = strict /\ y = hybrid BY <1>5
  <2>4. x = 0 \/ y = 0 BY <1>5, <2>3
  <2>5. 0 + 0 + w + x + y >= 6000 BY <1>9, <2>1, <2>2, <2>3
  <2>6. w \in Nat /\ w <= 2796 /\ x \in Nat /\ x <= 1000 /\ y \in Nat /\ y <= 800 OBVIOUS
  <2>7. w + x + y <= 4596 BY <2>6
  <2> QED BY <2>5, <2>6, <2>7
<1>11. scope \in {7500, 10000} => m.scope \in scopes \ {<<"global", None>>}
  BY <1>1 DEF ScopeScore
<1>12. scope = 4500 => asks.type \in m.types BY <1>1 DEF ScopeScore
<1>13. m.scope \in scopes \ {<<"global", None>>} \/ asks.type \in m.types \/ alike > 0
  <2> HIDE DEF scope, scopes
  <2> QED BY <1>3, <1>10, <1>11, <1>12
<1>14. ASSUME TypeOfMemory(m.source) \in {"clarification_fact", "review_case"}, asks.mode = "assist"
       PROVE  m.scope \in scopes \/ alike > 0
  <2>1. worth <= 1860
    <3>1. PICK source \in Sources : source = m.source OBVIOUS
    <3>2. Reuse[source] + Confidence[source] <= 1860 BY <1>14, <3>1, ScoresOf
    <3> QED BY <3>1, <3>2
  <2>2. strict = 0 /\ hybrid = 0 BY <1>14
  <2>3. scope + alike + worth + strict + hybrid >= 6600 BY <1>1, <1>7, <1>8, <1>14
  <2>4. scope \in {0, 4500} => alike > 0
    <3> HIDE DEF scope, worth, strict, hybrid
    <3> QED BY <1>4, <2>1, <2>2, <2>3 DEF Alike
  <2> HIDE DEF scope, scopes
  <2> QED BY <1>3, <1>11, <2>4
<1>15. asks.mode = "strict" => TypeOfMemory(m.source) = "team_rule" BY <1>1
<1>16. UseFits(asks, m, alike > 0) BY <1>2, <1>13, <1>14, <1>15 DEF UseFits
<1> QED BY <1>1, <1>16

-----------------------------------------------------------------------------
(* Memory: the ids that a review gives. *)

OwnIds(r, mem) == {id \in DOMAIN mem : id[1] = r}

\* The first n ids of r.
FirstIds(r, n) == {<<r, k>> : k \in 1 .. n}

LEMMA FirstIdsCount ==
  ASSUME NEW r, NEW n \in Nat
  PROVE  Cardinality(FirstIds(r, n)) = n
<1> DEFINE f == [k \in 1 .. n |-> <<r, k>>]
<1>1. f \in Bijection(1 .. n, FirstIds(r, n))
  <2>1. f \in [1 .. n -> FirstIds(r, n)] BY DEF FirstIds
  <2>2. \A i, k \in 1 .. n : f[i] = f[k] => i = k OBVIOUS
  <2>3. DOMAIN f = 1 .. n OBVIOUS
  <2>4. \A id \in FirstIds(r, n) : \E k \in 1 .. n : f[k] = id BY DEF FirstIds
  <2> HIDE DEF f
  <2> QED BY <2>1, <2>2, <2>3, <2>4 DEF Bijection, Injection, Surjection, IsInjective
<1>2. ExistsBijection(1 .. n, FirstIds(r, n)) BY <1>1 DEF ExistsBijection
<1> QED BY <1>2, FS_CountingElements

-----------------------------------------------------------------------------
(* Memory: the inductive invariant. *)

FileStages == {"seeding", "reseeding", "filing"}

ReviewStages == {"new", "seeded", "reviewed", "reseeded", "filed", "saving", "done", "broken"} \cup FileStages

Uses == [id : MemoryIds, alike : BOOLEAN]

Reviews == [at : ReviewStages, used : SUBSET Uses, existing : SUBSET MemoryIds, queue : Seq(Lessons)]

\* Where a review is fits what it saved, what it saw and what it is to save yet.
RowFits(r, row, mem) ==
  /\ row.existing \subseteq DOMAIN mem
  /\ \A u \in row.used : u.id \in DOMAIN mem
  /\ row.at # "saving" => row.queue = << >>
  /\ \E n \in 0 .. MaxKept :
       /\ OwnIds(r, mem) = FirstIds(r, n)
       /\ n + Len(row.queue) <= MaxKept
       /\ row.at \notin {"saving", "done"} => n = 0
  /\ QueueFits(row.queue, row.existing \cup OwnIds(r, mem), mem)

MemoriesOK(mem) ==
  DOMAIN mem \subseteq MemoryIds /\ \A id \in DOMAIN mem : mem[id].source \in Sources

\* What the reviews and the table are.
TableInv ==
  /\ request \in Asked /\ \A r \in Runs : request[r].mode \in RecallModes
  /\ review \in [Runs -> Reviews]
  /\ MemoriesOK(memories)
  /\ \A r \in Runs : RowFits(r, review[r], memories)
  /\ \A r \in Runs : \A u \in review[r].used : UseFits(request[r], memories[u.id], u.alike)
  /\ OnlyOverlapRepeats

FileTypes ==
  /\ cases \subseteq Runs /\ endangered \subseteq Runs
  /\ filing \in [Processes -> [read : SUBSET Runs, phase : {"away", "read", "alone", "mixed"}]]

\* One review of a process at the case file at a time.
OneAtATime ==
  \A r, q \in Runs :
    /\ review[r].at \in FileStages \cup {"reseeded"} /\ review[q].at \in FileStages \cup {"reseeded"}
    /\ request[r].process = request[q].process
    => r = q

\* Who has the file open is a review at it, and alone, or all that was at stake is endangered.
OpenedOK ==
  \A p \in Opened :
    /\ \E r \in Runs : request[r].process = p /\ review[r].at \in FileStages
    /\ filing[p].phase = "alone" => Opened = {p}
    /\ filing[p].phase = "mixed" =>
         /\ Filed \subseteq endangered
         /\ \A r \in Filing : request[r].process = p => r \in endangered

\* The cases are in what the one writes, or in the file.
ContentOK ==
  /\ \A r \in Runs : review[r].at \in FileStages /\ filing[request[r].process].phase = "alone" =>
       Filed \ endangered \subseteq Content(r)
  /\ Opened = {} => Filed \ endangered \subseteq cases

FileInv == FileTypes /\ OneAtATime /\ OpenedOK /\ ContentOK

MemoryInv == TableInv /\ FileInv

LEMMA ProcessOf == ASSUME TableInv, NEW r \in Runs PROVE request[r].process \in Processes
BY MemoryAssumption DEF TableInv

LEMMA MemoryInitHolds == MemoryInit => MemoryInv
<1> SUFFICES ASSUME MemoryInit PROVE MemoryInv OBVIOUS
<1>1. DOMAIN memories = {} BY DEF MemoryInit
<1>2. MemoriesOK(memories) BY <1>1 DEF MemoriesOK
<1> DEFINE row == [at |-> "new", used |-> {}, existing |-> {}, queue |-> << >>]
<1>3. row \in Reviews
  <2>1. << >> \in Seq(Lessons) OBVIOUS
  <2> QED BY <2>1 DEF Reviews, ReviewStages
<1>4. review = [r \in Runs |-> row] BY DEF MemoryInit
<1>5. ASSUME NEW r \in Runs PROVE RowFits(r, row, memories)
  <2>1. OwnIds(r, memories) = {} BY <1>1 DEF OwnIds
  <2>2. FirstIds(r, 0) = {} BY DEF FirstIds
  <2>3. 0 \in 0 .. MaxKept /\ 0 + Len(row.queue) <= MaxKept BY MemoryAssumption
  <2>4. QueueFits(row.queue, row.existing \cup OwnIds(r, memories), memories) BY DEF QueueFits
  <2> QED BY <2>1, <2>2, <2>3, <2>4 DEF RowFits
<1>6. OnlyOverlapRepeats BY <1>1 DEF OnlyOverlapRepeats
<1>7. FileInv
  <2>1. FileTypes BY DEF MemoryInit, FileTypes
  <2>2. \A r \in Runs : review[r].at = "new" BY <1>4
  <2>3. OneAtATime BY <2>2 DEF OneAtATime, FileStages
  <2>4. Opened = {} /\ Filed = {} BY <2>2 DEF MemoryInit, Opened, Filed
  <2>5. OpenedOK /\ ContentOK BY <2>2, <2>4 DEF OpenedOK, ContentOK, FileStages
  <2> QED BY <2>1, <2>3, <2>5 DEF FileInv
<1>8. \A r \in Runs : review[r].used = {} BY <1>4
<1>9. review \in [Runs -> Reviews] /\ \A r \in Runs : RowFits(r, review[r], memories)
  <2> HIDE DEF row
  <2> QED BY <1>3, <1>4, <1>5
<1>10. request \in Asked /\ \A r \in Runs : request[r].mode \in RecallModes
  BY DEF MemoryInit
<1> QED BY <1>2, <1>6, <1>7, <1>8, <1>9, <1>10 DEF MemoryInv, TableInv

\* A review moves and the memories stay.
LEMMA RowMoves ==
  ASSUME TableInv, NEW r \in Runs, NEW row \in Reviews, RowFits(r, row, memories),
         review' = [review EXCEPT ![r] = row], UNCHANGED <<request, memories>>,
         \A u \in row.used : UseFits(request[r], memories[u.id], u.alike),
         \/ row.existing = review[r].existing
         \/ row.existing \subseteq DOMAIN memories /\ OwnIds(r, memories) = {}
  PROVE  /\ TableInv' /\ review'[r] = row
         /\ \A q \in Runs \ {r} : review'[q] = review[q]
<1>1. /\ review' \in [Runs -> Reviews] /\ review'[r] = row
      /\ \A q \in Runs \ {r} : review'[q] = review[q]
  BY DEF TableInv
<1>2. /\ MemoriesOK(memories') /\ memories' = memories /\ request' = request
      /\ request' \in Asked /\ \A q \in Runs : request'[q].mode \in RecallModes
  BY DEF TableInv
<1>3. ASSUME NEW q \in Runs
      PROVE  RowFits(q, review'[q], memories')
  <2>1. PICK now : now = review'[q] OBVIOUS
  <2>2. RowFits(q, now, memories)
    <3>1. CASE q = r BY <1>1, <2>1, <3>1
    <3>2. CASE q # r
      <4>1. now = review[q] BY <1>1, <2>1, <3>2
      <4> QED BY <4>1 DEF TableInv
    <3> QED BY <3>1, <3>2
  <2> QED BY <1>2, <2>1, <2>2
<1>4. ASSUME NEW q \in Runs, NEW u \in review'[q].used
      PROVE  UseFits(request'[q], memories'[u.id], u.alike)
  <2>1. UseFits(request[q], memories[u.id], u.alike)
    <3>1. CASE q = r BY <1>1, <1>4, <3>1
    <3>2. CASE q # r
      <4>1. u \in review[q].used BY <1>1, <1>4, <3>2
      <4> QED BY <4>1 DEF TableInv
    <3> QED BY <3>1, <3>2
  <2> QED BY <1>2, <2>1
<1>5. OnlyOverlapRepeats'
  <2>1. SUFFICES ASSUME NEW i \in DOMAIN memories, NEW j \in DOMAIN memories,
                        i # j, memories[i].scope = memories[j].scope, SameLesson(memories[i], memories[j])
                 PROVE  i[1] # j[1] /\ i \notin review'[j[1]].existing /\ j \notin review'[i[1]].existing
    <3>1. PICK table : table = review' OBVIOUS
    <3>2. SUFFICES \A i, j \in DOMAIN memories :
                     i # j /\ memories[i].scope = memories[j].scope /\ SameLesson(memories[i], memories[j]) =>
                       i[1] # j[1] /\ i \notin table[j[1]].existing /\ j \notin table[i[1]].existing
      BY <1>2, <3>1 DEF OnlyOverlapRepeats
    <3> QED BY <3>1
  <2>2. i[1] # j[1] /\ i \notin review[j[1]].existing /\ j \notin review[i[1]].existing
    BY <2>1 DEF TableInv, OnlyOverlapRepeats
  <2>3. i[1] \in Runs /\ j[1] \in Runs BY DEF TableInv, MemoriesOK, MemoryIds
  <2>4. ASSUME NEW a \in DOMAIN memories, a[1] \in Runs
        PROVE  review'[a[1]].existing = review[a[1]].existing
    <3>1. CASE row.existing = review[r].existing BY <1>1, <2>4, <3>1
    <3>2. CASE OwnIds(r, memories) = {}
      <4>1. a[1] # r BY <3>2 DEF OwnIds
      <4> QED BY <1>1, <2>4, <4>1
    <3> QED BY <3>1, <3>2
  <2> QED BY <2>2, <2>3, <2>4
<1> QED BY <1>1, <1>2, <1>3, <1>4, <1>5 DEF TableInv

\* A row keeps its fit when only its stage changes and it has nothing to save.
LEMMA StageFits ==
  ASSUME NEW r \in Runs, NEW row \in Reviews, NEW mem, RowFits(r, row, mem), NEW next \in Reviews,
         next.existing = row.existing, next.queue = << >>,
         \A u \in next.used : u.id \in DOMAIN mem,
         next.at \in {"saving", "done"} \/ row.at \notin {"saving", "done"}
  PROVE  RowFits(r, next, mem)
<1>1. PICK n \in 0 .. MaxKept :
        /\ OwnIds(r, mem) = FirstIds(r, n)
        /\ n + Len(row.queue) <= MaxKept
        /\ row.at \notin {"saving", "done"} => n = 0
  BY DEF RowFits
<1>2. row.queue \in Seq(Lessons) BY DEF Reviews
<1>3. n + Len(next.queue) <= MaxKept
  <2>1. Len(next.queue) = 0 OBVIOUS
  <2> QED BY <1>1, <2>1, MemoryAssumption
<1>4. QueueFits(next.queue, next.existing \cup OwnIds(r, mem), mem) BY DEF QueueFits
<1>5. next.at \notin {"saving", "done"} => n = 0 BY <1>1
<1>6. row.existing \subseteq DOMAIN mem BY DEF RowFits
<1> QED BY <1>1, <1>3, <1>4, <1>5, <1>6 DEF RowFits

LEMMA RecallStep ==
  ASSUME TableInv, NEW r \in Runs, Recall(r)
  PROVE  TableInv'
<1>1. PICK row \in Reviews : row = review[r] /\ row.at = "seeded" /\ RowFits(r, row, memories)
  BY DEF TableInv, Recall
<1>2. /\ row.queue = << >> /\ row.existing \subseteq DOMAIN memories
  BY <1>1 DEF RowFits
<1>3. PICK used :
        /\ used \in {{}} \cup (IF request[r].mode = "off" THEN {}
                               ELSE UNION {Selected(r, a) : a \in [Recalled(r) -> Alike]})
        /\ review' = [review EXCEPT ![r].at = "reviewed", ![r].used = used]
  BY DEF Recall
<1>4. /\ used \subseteq Uses
      /\ \A u \in used : u.id \in DOMAIN memories /\ UseFits(request[r], memories[u.id], u.alike)
  <2>1. CASE used = {} BY <2>1
  <2>2. CASE used # {}
    <3>1. request[r].mode # "off" BY <1>3, <2>2
    <3>2. PICK a \in [Recalled(r) -> Alike] : used \in Selected(r, a) BY <1>3, <2>2, <3>1
    <3> DEFINE fit == Fitting(r, a)
    <3>3. \E key : used \in {{[id |-> s[k], alike |-> a[s[k]] > 0] : k \in DOMAIN s} :
                               s \in FirstOf(fit, 3, key)}
      BY <3>2, Zenon DEF Selected
    <3>4. PICK s \in Seq(fit) : used = {[id |-> s[k], alike |-> a[s[k]] > 0] : k \in DOMAIN s}
      <4> HIDE DEF fit
      <4>1. PICK key : used \in {{[id |-> t[k], alike |-> a[t[k]] > 0] : k \in DOMAIN t} :
                                    t \in FirstOf(fit, 3, key)}
        BY <3>3
      <4>2. PICK t \in FirstOf(fit, 3, key) : used = {[id |-> t[k], alike |-> a[t[k]] > 0] : k \in DOMAIN t}
        BY <4>1
      <4>3. t \in Seq(fit) BY <4>2, FirstOfFacts
      <4> QED BY <4>2, <4>3
    <3>5. ASSUME NEW u \in used
          PROVE  u \in Uses /\ u.id \in DOMAIN memories /\ UseFits(request[r], memories[u.id], u.alike)
      <4>1. PICK k \in DOMAIN s : u = [id |-> s[k], alike |-> a[s[k]] > 0] BY <3>4
      <4>2. PICK id : id = s[k] OBVIOUS
      <4>3. id \in fit
        <5> HIDE DEF fit
        <5> QED BY <3>4, <4>2
      <4>4. /\ id \in Recalled(r) /\ id \in DOMAIN memories
            /\ request[r].mode = "strict" => TypeOfMemory(memories[id].source) = "team_rule"
            /\ Score(r, memories[id], a[id]) >= Threshold[request[r].mode]
        BY <4>3 DEF Fitting, Recalled, Visible
      <4>5. PICK alike \in Alike : alike = a[id] BY <4>4
      <4>6. id \in MemoryIds /\ memories[id].source \in Sources BY <4>4 DEF TableInv, MemoriesOK
      <4>7. request[r].mode \in RecallModes BY DEF TableInv
      <4>8. UseFits(request[r], memories[id], alike > 0)
        BY <3>1, <4>4, <4>5, <4>6, <4>7, SelectedFits
      <4>9. u.id = id /\ u.alike = (alike > 0) /\ (alike > 0) \in BOOLEAN /\ u = [id |-> id, alike |-> alike > 0]
        BY <4>1, <4>2, <4>5
      <4>10. u \in Uses BY <4>6, <4>9 DEF Uses
      <4> QED BY <4>4, <4>8, <4>9, <4>10
    <3> QED BY <3>5
  <2> QED BY <2>1, <2>2
<1> DEFINE next == [row EXCEPT !.at = "reviewed", !.used = used]
<1>5. /\ next \in Reviews /\ next.at = "reviewed" /\ next.used = used
      /\ next.existing = row.existing /\ next.queue = << >>
  BY <1>2, <1>4 DEF Reviews, ReviewStages
<1>6. review' = [review EXCEPT ![r] = next] BY <1>1, <1>3
<1>7. UNCHANGED <<request, memories, cases, filing, endangered>> BY DEF Recall
<1> HIDE DEF next
<1>8. RowFits(r, next, memories) BY <1>1, <1>4, <1>5, StageFits
<1>9. /\ TableInv' /\ review'[r] = next
      /\ \A q \in Runs \ {r} : review'[q] = review[q]
  BY <1>1, <1>4, <1>5, <1>6, <1>7, <1>8, RowMoves
<1> QED BY <1>9

\* A review that is not saving goes on, and what it was given and saw stays as it is.
LEMMA StageMoves ==
  ASSUME TableInv, NEW r \in Runs, NEW at \in ReviewStages,
         review[r].at \notin {"saving", "done"} \/ at = "done",
         review' = [review EXCEPT ![r].at = at, ![r].queue = << >>], UNCHANGED <<request, memories>>
  PROVE  /\ TableInv' /\ review'[r].at = at
         /\ \A q \in Runs \ {r} : review'[q] = review[q]
<1>1. PICK row \in Reviews : row = review[r] /\ RowFits(r, row, memories)
  BY DEF TableInv
<1> DEFINE next == [row EXCEPT !.at = at, !.queue = << >>]
<1>2. /\ next \in Reviews /\ next.at = at /\ next.used = row.used
      /\ next.existing = row.existing /\ next.queue = << >>
  <2>1. << >> \in Seq(Lessons) OBVIOUS
  <2> QED BY <2>1 DEF Reviews
<1>3. review' = [review EXCEPT ![r] = next] BY <1>1
<1> HIDE DEF next
<1>4. \A u \in next.used : u.id \in DOMAIN memories BY <1>1, <1>2 DEF RowFits
<1>5. RowFits(r, next, memories) BY <1>1, <1>2, <1>4, StageFits
<1>6. \A u \in next.used : UseFits(request[r], memories[u.id], u.alike)
  BY <1>1, <1>2 DEF TableInv
<1>7. next.existing = review[r].existing BY <1>1, <1>2
<1> QED BY <1>2, <1>3, <1>5, <1>6, <1>7, RowMoves

LEMMA ExtractStep ==
  ASSUME TableInv, NEW r \in Runs, NEW found \in Findings, Extract(r, found)
  PROVE  TableInv'
<1>1. PICK row \in Reviews : row = review[r] /\ row.at = "filed" /\ RowFits(r, row, memories)
  BY DEF TableInv, Extract
<1>2. PICK seen : seen = Visible(r) OBVIOUS
<1>3. PICK queue \in BestOf(found, seen) :
        review' = [review EXCEPT ![r].at = "saving", ![r].existing = seen, ![r].queue = queue]
  BY <1>2 DEF Extract
<1>4. /\ queue \in Seq(Lessons) /\ Len(queue) <= MaxKept
      /\ QueueFits(queue, seen, memories)
  BY <1>3, BestFits
<1>5. seen \subseteq DOMAIN memories /\ seen \subseteq MemoryIds
  BY <1>2 DEF Visible, TableInv, MemoriesOK
<1> DEFINE next == [row EXCEPT !.at = "saving", !.existing = seen, !.queue = queue]
<1>6. /\ next \in Reviews /\ next.at = "saving" /\ next.used = row.used
      /\ next.existing = seen /\ next.queue = queue
  BY <1>4, <1>5 DEF Reviews, ReviewStages
<1>7. review' = [review EXCEPT ![r] = next] BY <1>1, <1>3
<1> HIDE DEF next
<1>8. UNCHANGED <<request, memories>> BY DEF Extract
<1>9. OwnIds(r, memories) = FirstIds(r, 0) BY <1>1 DEF RowFits
<1>10. OwnIds(r, memories) = {} BY <1>9 DEF FirstIds
<1>11. RowFits(r, next, memories)
  <2>1. Len(queue) \in Nat BY <1>4
  <2>2. 0 \in 0 .. MaxKept /\ 0 + Len(queue) <= MaxKept BY <1>4, <2>1, MemoryAssumption
  <2>3. QueueFits(queue, seen \cup OwnIds(r, memories), memories) BY <1>4, <1>10
  <2>4. \A u \in next.used : u.id \in DOMAIN memories BY <1>1, <1>6 DEF RowFits
  <2> QED BY <1>5, <1>6, <1>9, <2>2, <2>3, <2>4 DEF RowFits
<1>12. \A u \in next.used : UseFits(request[r], memories[u.id], u.alike)
  BY <1>1, <1>6 DEF TableInv
<1>13. /\ TableInv' /\ review'[r] = next
       /\ \A q \in Runs \ {r} : review'[q] = review[q]
  BY <1>5, <1>6, <1>7, <1>8, <1>10, <1>11, <1>12, RowMoves
<1> QED BY <1>13

LEMMA SkipStep ==
  ASSUME TableInv, NEW r \in Runs, Skip(r)
  PROVE  TableInv'
<1>1. /\ UNCHANGED <<request, memories>>
      /\ review' = [review EXCEPT ![r].at = "done", ![r].queue = << >>]
  BY DEF Skip
<1> QED BY <1>1, StageMoves DEF ReviewStages

\* One memory more, of a new id: the fit of a row stays.
LEMMA AddedFits ==
  ASSUME NEW q \in Runs, NEW row \in Reviews, NEW mem, NEW new, RowFits(q, row, mem), MemoriesOK(mem),
         NEW id, id \notin DOMAIN mem, DOMAIN new = DOMAIN mem \cup {id}, id[1] # q,
         \A i \in DOMAIN mem : new[i] = mem[i]
  PROVE  RowFits(q, row, new)
<1>1. OwnIds(q, new) = OwnIds(q, mem) BY DEF OwnIds
<1>2. QueueFits(row.queue, row.existing \cup OwnIds(q, mem), new)
  <2>1. row.existing \cup OwnIds(q, mem) \subseteq DOMAIN mem BY DEF RowFits, OwnIds
  <2>2. QueueFits(row.queue, row.existing \cup OwnIds(q, mem), mem) BY DEF RowFits
  <2> QED BY <2>1, <2>2 DEF QueueFits
<1>3. row.existing \subseteq DOMAIN new /\ \A u \in row.used : u.id \in DOMAIN new BY DEF RowFits
<1> QED BY <1>1, <1>2, <1>3 DEF RowFits

LEMMA SaveMemoryStep ==
  ASSUME TableInv, NEW r \in Runs, SaveMemory(r)
  PROVE  TableInv'
<1>1. PICK row \in Reviews :
        row = review[r] /\ row.at = "saving" /\ row.queue # << >> /\ RowFits(r, row, memories)
  BY DEF TableInv, SaveMemory
<1>2. PICK n \in 0 .. MaxKept :
        OwnIds(r, memories) = FirstIds(r, n) /\ n + Len(row.queue) <= MaxKept
  BY <1>1 DEF RowFits
<1>3. n \in Nat /\ MaxKept \in Nat BY <1>2, MemoryAssumption
<1>4. Cardinality({id \in DOMAIN memories : id[1] = r}) = n
  BY <1>2, <1>3, FirstIdsCount DEF OwnIds
<1>5. PICK queue \in Seq(Lessons) : queue = row.queue /\ queue # << >> BY <1>1 DEF Reviews
<1>6. /\ Len(queue) \in Nat \ {0} /\ DOMAIN queue = 1 .. Len(queue)
      /\ Head(queue) = queue[1] /\ Head(queue) \in Lessons
      /\ Tail(queue) \in Seq(Lessons) /\ Len(Tail(queue)) = Len(queue) - 1
      /\ \A k \in 1 .. Len(queue) - 1 : Tail(queue)[k] = queue[k + 1]
  BY <1>5
<1>7. PICK c \in Lessons, rest \in Seq(Lessons) : c = Head(queue) /\ rest = Tail(queue) BY <1>6
<1>8. n + 1 \in 1 .. MaxKept
  <2>1. PICK m \in Nat \ {0} : m = Len(queue) BY <1>6
  <2> QED BY <1>2, <1>3, <1>5, <2>1
<1> DEFINE id == <<r, n + 1>>
<1>9. id \in MemoryIds /\ id[1] = r /\ id \notin DOMAIN memories
  <2>1. id \in MemoryIds /\ id[1] = r BY <1>8 DEF MemoryIds
  <2>2. id \notin FirstIds(r, n) BY <1>3 DEF FirstIds
  <2>3. id \notin OwnIds(r, memories) BY <1>2, <2>2
  <2> HIDE DEF id
  <2> QED BY <2>1, <2>3 DEF OwnIds
<1>10. memories' = [i \in DOMAIN memories \cup {id} |-> IF i = id THEN Remember(r, c) ELSE memories[i]]
  BY <1>1, <1>4, <1>5, <1>7 DEF SaveMemory
<1> HIDE DEF id
<1>11. PICK new : new = memories' OBVIOUS
<1>12. /\ DOMAIN new = DOMAIN memories \cup {id} /\ new[id] = Remember(r, c)
       /\ \A i \in DOMAIN memories : new[i] = memories[i]
  BY <1>9, <1>10, <1>11
<1>13. Remember(r, c).source = c.source /\ Remember(r, c).topic = c.topic /\ c.source \in Sources
  BY <1>7 DEF Remember, Lessons
<1>14. MemoriesOK(new) BY <1>9, <1>12, <1>13 DEF TableInv, MemoriesOK
<1> DEFINE next == [row EXCEPT !.queue = rest]
<1>15. /\ next \in Reviews /\ next.at = "saving" /\ next.used = row.used
       /\ next.existing = row.existing /\ next.queue = rest
  BY <1>1, <1>7 DEF Reviews
<1>16. review' = [review EXCEPT ![r] = next]
  BY <1>1, <1>5, <1>7 DEF SaveMemory
<1> HIDE DEF next
<1>17. request' = request BY DEF SaveMemory
<1>18. /\ review' \in [Runs -> Reviews] /\ review'[r] = next
       /\ \A q \in Runs \ {r} : review'[q] = review[q]
  BY <1>15, <1>16 DEF TableInv
<1>19. \A d : SameLesson(c, d) <=> SameLesson(new[id], d)
  BY <1>12, <1>13 DEF SameLesson
<1>20. QueueFits(queue, row.existing \cup OwnIds(r, memories), memories) BY <1>1, <1>5 DEF RowFits
<1>21. \A i \in row.existing \cup OwnIds(r, memories) : ~ SameLesson(c, memories[i])
  <2>1. 1 \in DOMAIN queue /\ queue[1] = c BY <1>6, <1>7
  <2> QED BY <1>20, <2>1 DEF QueueFits
<1>22. RowFits(r, next, new)
  <2>1. OwnIds(r, new) = OwnIds(r, memories) \cup {id} BY <1>9, <1>12 DEF OwnIds
  <2>2. FirstIds(r, n + 1) = FirstIds(r, n) \cup {id}
    <3>1. 1 .. n + 1 = (1 .. n) \cup {n + 1} BY <1>3
    <3> QED BY <3>1 DEF FirstIds, id
  <2>3. n + 1 + Len(rest) <= MaxKept /\ n + 1 \in 0 .. MaxKept
    <3>1. PICK m \in Nat \ {0} : m = Len(queue) BY <1>6
    <3>2. Len(rest) = m - 1 BY <1>6, <1>7, <3>1
    <3>3. n + m <= MaxKept BY <1>2, <1>5, <3>1
    <3> QED BY <1>3, <3>2, <3>3
  <2>4. Len(rest) \in Nat /\ DOMAIN rest = 1 .. Len(rest) BY <1>7
  <2>5. ASSUME NEW k \in DOMAIN rest
        PROVE  k + 1 \in DOMAIN queue /\ rest[k] = queue[k + 1] /\ k + 1 > 1
    <3>1. PICK m \in Nat \ {0} : m = Len(queue) BY <1>6
    <3>2. Len(rest) = m - 1 BY <1>6, <1>7, <3>1
    <3>3. k \in 1 .. m - 1 BY <2>4, <3>2
    <3> QED BY <1>6, <1>7, <3>1, <3>3
  <2>6. QueueFits(rest, row.existing \cup OwnIds(r, new), new)
    <3>1. ASSUME NEW j \in DOMAIN rest, NEW k \in DOMAIN rest, j < k PROVE ~ SameLesson(rest[j], rest[k])
      <4>1. j \in Int /\ k \in Int BY <2>4
      <4>2. j + 1 < k + 1 BY <3>1, <4>1
      <4> QED BY <1>20, <2>5, <4>2 DEF QueueFits
    <3>2. ASSUME NEW k \in DOMAIN rest, NEW i \in row.existing \cup OwnIds(r, new)
          PROVE  ~ SameLesson(rest[k], new[i])
      <4>1. CASE i = id
        <5>1. 1 \in DOMAIN queue /\ queue[1] = c BY <1>6, <1>7
        <5>2. ~ SameLesson(c, rest[k]) BY <1>20, <2>5, <5>1 DEF QueueFits
        <5>3. ~ SameLesson(new[id], rest[k]) BY <1>19, <5>2
        <5> QED BY <4>1, <5>3 DEF SameLesson
      <4>2. CASE i # id
        <5>1. i \in row.existing \cup OwnIds(r, memories) BY <2>1, <3>2, <4>2
        <5>2. i \in DOMAIN memories BY <1>1, <5>1 DEF RowFits, OwnIds
        <5>3. new[i] = memories[i] BY <1>12, <5>2
        <5> QED BY <1>20, <2>5, <5>1, <5>3 DEF QueueFits
      <4> QED BY <4>1, <4>2
    <3> QED BY <3>1, <3>2 DEF QueueFits
  <2>7. next.existing \subseteq DOMAIN new /\ \A u \in next.used : u.id \in DOMAIN new
    BY <1>1, <1>12, <1>15 DEF RowFits
  <2>8. OwnIds(r, new) = FirstIds(r, n + 1) BY <1>2, <2>1, <2>2
  <2> QED BY <1>15, <2>3, <2>6, <2>7, <2>8 DEF RowFits
<1>23. ASSUME NEW q \in Runs PROVE RowFits(q, review'[q], memories')
  <2>1. CASE q = r BY <1>11, <1>18, <1>22, <2>1
  <2>2. CASE q # r
    <3>1. PICK other \in Reviews : other = review[q] /\ RowFits(q, other, memories) BY DEF TableInv
    <3>2. id[1] # q /\ MemoriesOK(memories) BY <1>9, <2>2 DEF TableInv
    <3>3. RowFits(q, other, new) BY <1>9, <1>12, <3>1, <3>2, AddedFits
    <3>4. review'[q] = other BY <1>18, <2>2, <3>1
    <3> QED BY <1>11, <3>3, <3>4
  <2> QED BY <2>1, <2>2
<1>24. ASSUME NEW q \in Runs, NEW u \in review'[q].used
       PROVE  UseFits(request'[q], memories'[u.id], u.alike)
  <2>1. u \in review[q].used BY <1>1, <1>15, <1>18, <1>24
  <2>2. u.id \in DOMAIN memories BY <2>1 DEF TableInv, RowFits
  <2>3. UseFits(request[q], memories[u.id], u.alike) BY <2>1 DEF TableInv
  <2>4. memories'[u.id] = memories[u.id] BY <1>11, <1>12, <2>2
  <2> QED BY <1>17, <2>3, <2>4
<1>25. OnlyOverlapRepeats'
  <2>1. \A a \in Runs : review'[a].existing = review[a].existing BY <1>1, <1>15, <1>18
  <2>2. \A i \in DOMAIN new : i[1] \in Runs BY <1>14 DEF MemoriesOK, MemoryIds
  <2>3. \A a \in Runs : id \notin review[a].existing BY <1>9 DEF TableInv, RowFits
  <2>4. ASSUME NEW j \in DOMAIN memories, SameLesson(new[id], new[j])
        PROVE  j[1] # r /\ j \notin review[r].existing
    <3>1. new[j] = memories[j] BY <1>12
    <3>2. SameLesson(c, memories[j]) BY <1>19, <2>4, <3>1
    <3>3. j \notin row.existing \cup OwnIds(r, memories) BY <1>21, <3>2
    <3> QED BY <1>1, <3>3 DEF OwnIds
  <2>5. ASSUME NEW i \in DOMAIN new, NEW j \in DOMAIN new, i # j,
               new[i].scope = new[j].scope, SameLesson(new[i], new[j])
        PROVE  i[1] # j[1] /\ i \notin review[j[1]].existing /\ j \notin review[i[1]].existing
    <3>1. CASE i = id
      <4>1. j \in DOMAIN memories BY <1>12, <2>5, <3>1
      <4>2. j[1] # r /\ j \notin review[r].existing BY <2>4, <2>5, <3>1, <4>1
      <4> QED BY <1>9, <2>2, <2>3, <3>1, <4>2
    <3>2. CASE j = id
      <4>1. i \in DOMAIN memories BY <1>12, <2>5, <3>2
      <4>2. SameLesson(new[id], new[i]) BY <2>5, <3>2 DEF SameLesson
      <4>3. i[1] # r /\ i \notin review[r].existing BY <2>4, <4>1, <4>2
      <4> QED BY <1>9, <2>2, <2>3, <3>2, <4>3
    <3>3. CASE i # id /\ j # id
      <4>1. i \in DOMAIN memories /\ j \in DOMAIN memories BY <1>12, <3>3
      <4>2. new[i] = memories[i] /\ new[j] = memories[j] BY <1>12, <4>1
      <4> QED BY <2>5, <4>1, <4>2 DEF TableInv, OnlyOverlapRepeats
    <3> QED BY <3>1, <3>2, <3>3
  <2>6. ASSUME NEW i \in DOMAIN memories', NEW j \in DOMAIN memories', i # j,
               memories'[i].scope = memories'[j].scope, SameLesson(memories'[i], memories'[j])
        PROVE  i[1] # j[1] /\ i \notin review'[j[1]].existing /\ j \notin review'[i[1]].existing
    BY <1>11, <2>1, <2>2, <2>5, <2>6
  <2> QED BY <2>6 DEF OnlyOverlapRepeats
<1>26. MemoriesOK(memories') BY <1>11, <1>14
<1> QED BY <1>17, <1>18, <1>23, <1>24, <1>25, <1>26 DEF TableInv

-----------------------------------------------------------------------------
(* Memory: the case file. *)

LEMMA StagesOfFile ==
  /\ DOMAIN Written = FileStages /\ DOMAIN Reading = {"new", "reviewed", "reseeded"}
  /\ Written["seeding"] = "seeded" /\ Written["reseeding"] = "reseeded" /\ Written["filing"] = "filed"
  /\ Reading["new"] = "seeding" /\ Reading["reviewed"] = "reseeding" /\ Reading["reseeded"] = "filing"
BY DEF Written, Reading, FileStages

\* A review that goes to another stage at the file.
LEMMA StageAtFile ==
  ASSUME TableInv, NEW r \in Runs, NEW at \in ReviewStages,
         review[r].at \in FileStages \cup {"new", "reviewed", "reseeded"}, at \notin {"saving", "done"},
         review' = [review EXCEPT ![r].at = at], UNCHANGED <<request, memories>>
  PROVE  /\ TableInv' /\ review'[r].at = at
         /\ \A q \in Runs \ {r} : review'[q] = review[q]
<1>1. PICK row \in Reviews : row = review[r] /\ row.queue = << >>
  BY DEF TableInv, RowFits, FileStages
<1>2. [row EXCEPT !.at = at] = [row EXCEPT !.at = at, !.queue = << >>] BY <1>1 DEF Reviews
<1>3. review' = [review EXCEPT ![r].at = at, ![r].queue = << >>] BY <1>1, <1>2
<1>4. review[r].at \notin {"saving", "done"} BY DEF FileStages
<1> QED BY <1>3, <1>4, StageMoves

\* What does not concern the case file.
LEMMA FilesStay ==
  ASSUME FileInv, UNCHANGED <<request, cases, filing, endangered>>,
         \A q \in Runs : \/ review'[q].at = review[q].at
                         \/ review[q].at = "seeded" /\ review'[q].at = "reviewed"
                         \/ review[q].at \in {"filed", "saving"} /\ review'[q].at \in {"saving", "done"}
  PROVE  FileInv'
<1>1. Filed' = Filed /\ Filing' = Filing BY DEF Filed, Filing
<1>2. Opened' = Opened BY DEF Opened
<1>3. \A q \in Runs : Content(q)' = Content(q) BY <1>1 DEF Content
<1>4. \A q \in Runs : review'[q].at \in FileStages \cup {"reseeded"} <=> review[q].at \in FileStages \cup {"reseeded"}
  BY DEF FileStages
<1>5. \A q \in Runs : review'[q].at \in FileStages <=> review[q].at \in FileStages BY DEF FileStages
<1>6. FileTypes' BY DEF FileInv, FileTypes
<1>7. OneAtATime' BY <1>4 DEF FileInv, OneAtATime
<1>8. OpenedOK' BY <1>1, <1>2, <1>5 DEF FileInv, OpenedOK
<1>9. ContentOK' BY <1>1, <1>2, <1>3, <1>5 DEF FileInv, ContentOK
<1> QED BY <1>6, <1>7, <1>8, <1>9 DEF FileInv

LEMMA QuietFile ==
  ASSUME MemoryInv, NEW r \in Runs,
         Recall(r) \/ SaveMemory(r) \/ Skip(r) \/ \E found \in Findings : Extract(r, found)
  PROVE  FileInv'
<1>1. UNCHANGED <<request, cases, filing, endangered>> BY DEF Recall, SaveMemory, Skip, Extract
<1>2. review \in [Runs -> Reviews] BY DEF MemoryInv, TableInv
<1>3. PICK row \in Reviews : row = review[r] BY <1>2
<1>4. \A q \in Runs \ {r} : review'[q] = review[q]
  BY <1>2 DEF Recall, SaveMemory, Skip, Extract
<1>5. \/ review'[r].at = row.at
      \/ row.at = "seeded" /\ review'[r].at = "reviewed"
      \/ row.at \in {"filed", "saving"} /\ review'[r].at \in {"saving", "done"}
  <2>1. CASE Recall(r) BY <1>2, <1>3, <2>1 DEF Recall, Reviews
  <2>2. CASE SaveMemory(r) BY <1>2, <1>3, <2>2 DEF SaveMemory, Reviews
  <2>3. CASE Skip(r) BY <1>2, <1>3, <2>3 DEF Skip, Reviews
  <2>4. ASSUME NEW found \in Findings, Extract(r, found)
        PROVE  row.at = "filed" /\ review'[r].at = "saving"
    <3>1. PICK seen, queue :
            review' = [review EXCEPT ![r].at = "saving", ![r].existing = seen, ![r].queue = queue]
      BY <2>4 DEF Extract
    <3>2. row.at = "filed" BY <1>3, <2>4 DEF Extract
    <3> QED BY <1>2, <1>3, <3>1, <3>2 DEF Reviews
  <2> QED BY <2>1, <2>2, <2>3, <2>4
<1> QED BY <1>1, <1>3, <1>4, <1>5, FilesStay DEF MemoryInv

LEMMA ReadCasesStep ==
  ASSUME MemoryInv, NEW r \in Runs, ReadCases(r)
  PROVE  MemoryInv'
<1>1. TableInv /\ FileTypes /\ OneAtATime /\ OpenedOK /\ ContentOK BY DEF MemoryInv, FileInv
<1>2. PICK p \in Processes : p = request[r].process BY <1>1, ProcessOf
<1>3. PICK at : at = Reading[review[r].at] OBVIOUS
<1>4. /\ review[r].at \in {"new", "reviewed", "reseeded"} /\ at \in FileStages
      /\ review' = [review EXCEPT ![r].at = at]
  BY <1>3, StagesOfFile DEF ReadCases, FileStages
<1>5. /\ filing' = [filing EXCEPT ![p] = [read |-> cases, phase |-> "read"]]
      /\ UNCHANGED <<request, memories, cases, endangered>>
  BY <1>2 DEF ReadCases
<1>6. /\ TableInv' /\ review'[r].at = at
      /\ \A q \in Runs \ {r} : review'[q] = review[q]
  BY <1>1, <1>4, <1>5, StageAtFile DEF ReviewStages, FileStages
<1>7. \A q \in Runs \ {r} : request[q].process = p => review[q].at \notin FileStages \cup {"reseeded"}
  BY <1>2 DEF ReadCases, Turn, FileStages
<1>8. p \notin Opened BY <1>1, <1>2, <1>4, <1>7 DEF OpenedOK, FileStages
<1>9. /\ FileTypes' /\ filing'[p].phase = "read"
      /\ \A o \in Processes \ {p} : filing'[o] = filing[o]
  BY <1>1, <1>5 DEF FileTypes
<1>10. Opened' = Opened BY <1>8, <1>9 DEF Opened
<1>11. Filed' = Filed /\ \A q \in Runs \ {r} : q \in Filing' <=> q \in Filing
  BY <1>4, <1>6 DEF Filed, Filing, FileStages
<1>12. OneAtATime' BY <1>1, <1>2, <1>4, <1>5, <1>6, <1>7 DEF OneAtATime
<1>13. OpenedOK'
  <2> SUFFICES ASSUME NEW o \in Opened
               PROVE  /\ \E q \in Runs : request[q].process = o /\ review'[q].at \in FileStages
                      /\ filing'[o].phase = "alone" => Opened = {o}
                      /\ filing'[o].phase = "mixed" =>
                           /\ Filed \subseteq endangered
                           /\ \A q \in Filing' : request[q].process = o => q \in endangered
    BY <1>5, <1>10, <1>11 DEF OpenedOK
  <2>1. o # p /\ filing'[o] = filing[o] BY <1>8, <1>9 DEF Opened
  <2>2. \A q \in Runs : request[q].process = o => q # r /\ review'[q] = review[q] BY <1>2, <1>6, <2>1
  <2>3. Filing' \subseteq Runs BY DEF Filing
  <2> QED BY <1>1, <1>11, <2>1, <2>2, <2>3 DEF OpenedOK
<1>14. ContentOK'
  <2>1. ASSUME NEW q \in Runs, review'[q].at \in FileStages, filing'[request[q].process].phase = "alone"
        PROVE  Filed \ endangered \subseteq Content(q)'
    <3>1. request[q].process # p /\ q # r BY <1>2, <1>9, <2>1
    <3>2. filing'[request[q].process] = filing[request[q].process] /\ review'[q] = review[q]
      BY <1>1, <1>6, <1>9, <3>1, ProcessOf
    <3>3. Content(q)' = Content(q)
      <4>1. {q} \cap Filing' = {q} \cap Filing BY <1>11, <3>1
      <4> QED BY <1>5, <3>2, <4>1 DEF Content
    <3> QED BY <1>1, <2>1, <3>2, <3>3 DEF ContentOK
  <2>2. Opened' = {} => Filed \ endangered \subseteq cases BY <1>1, <1>10 DEF ContentOK
  <2> QED BY <1>5, <1>11, <2>1, <2>2 DEF ContentOK
<1> QED BY <1>6, <1>9, <1>12, <1>13, <1>14 DEF MemoryInv, FileInv

LEMMA BeginWriteStep ==
  ASSUME MemoryInv, NEW r \in Runs, BeginWrite(r)
  PROVE  MemoryInv'
<1>1. TableInv /\ FileTypes /\ OneAtATime /\ OpenedOK /\ ContentOK BY DEF MemoryInv, FileInv
<1>2. PICK p \in Processes : p = request[r].process BY <1>1, ProcessOf
<1>3. /\ review[r].at \in FileStages /\ filing[p].phase = "read" /\ cases' = {}
      /\ UNCHANGED <<request, memories, review>>
  BY <1>2, StagesOfFile DEF BeginWrite
<1>4. /\ filing' = [o \in Processes |->
                     IF o \notin Opened \cup {p} THEN filing[o]
                     ELSE [filing[o] EXCEPT !.phase = IF Opened = {} THEN "alone" ELSE "mixed"]]
      /\ endangered' = IF Opened = {} /\ filing[p].read = cases THEN endangered
                       ELSE endangered \cup Filed \cup Filing
  BY <1>2 DEF BeginWrite
<1>5. TableInv' BY <1>1, <1>3 DEF TableInv, OnlyOverlapRepeats
<1>6. Filed' = Filed /\ Filing' = Filing /\ Filed \subseteq Runs /\ Filing \subseteq Runs
  BY <1>3 DEF Filed, Filing
<1>7. FileTypes'
  <2>1. filing' \in [Processes -> [read : SUBSET Runs, phase : {"away", "read", "alone", "mixed"}]]
    BY <1>1, <1>4 DEF FileTypes
  <2>2. endangered' \subseteq Runs BY <1>1, <1>4, <1>6 DEF FileTypes
  <2> QED BY <1>3, <2>1, <2>2 DEF FileTypes
<1>8. OneAtATime' BY <1>1, <1>3 DEF OneAtATime
<1>9. p \notin Opened BY <1>3 DEF Opened
<1>10. \A o \in Processes :
         /\ o \in Opened \cup {p} => filing'[o].phase = IF Opened = {} THEN "alone" ELSE "mixed"
         /\ o \notin Opened \cup {p} => filing'[o] = filing[o]
         /\ filing'[o].read = filing[o].read
  BY <1>1, <1>4 DEF FileTypes
<1>11. Opened' = Opened \cup {p} BY <1>10 DEF Opened
<1>12. \A o \in Opened' : \E q \in Runs : request[q].process = o /\ review[q].at \in FileStages
  BY <1>1, <1>2, <1>3, <1>11 DEF OpenedOK
<1>13. OpenedOK' /\ ContentOK'
  <2>1. CASE Opened = {}
    <3>1. Opened' = {p} /\ filing'[p].phase = "alone" BY <1>10, <1>11, <2>1
    <3>2. OpenedOK' BY <1>3, <1>12, <3>1 DEF OpenedOK
    <3>3. Filed \ endangered' \subseteq filing[p].read
      BY <1>1, <1>4, <2>1 DEF ContentOK
    <3>4. ASSUME NEW q \in Runs, filing'[request[q].process].phase = "alone"
          PROVE  Filed \ endangered' \subseteq Content(q)'
      <4>1. PICK o \in Processes : o = request[q].process BY <1>1, ProcessOf
      <4>2. o = p BY <1>10, <2>1, <3>4, <4>1 DEF Opened
      <4>3. filing[p].read \subseteq Content(q)' BY <1>3, <1>10, <4>1, <4>2 DEF Content
      <4> QED BY <3>3, <4>3
    <3>5. ContentOK' BY <1>3, <1>6, <3>1, <3>4 DEF ContentOK
    <3> QED BY <3>2, <3>5
  <2>2. CASE Opened # {}
    <3>1. \A o \in Opened' : filing'[o].phase = "mixed" BY <1>10, <1>11, <2>2 DEF Opened
    <3>2. Filed \cup Filing \subseteq endangered' BY <1>4, <2>2
    <3>3. OpenedOK' BY <1>3, <1>6, <1>12, <3>1, <3>2 DEF OpenedOK
    <3>4. \A q \in Runs : Filed \ endangered' \subseteq Content(q)' BY <3>2
    <3>5. ContentOK' BY <1>6, <1>11, <3>4 DEF ContentOK
    <3> QED BY <3>3, <3>5
  <2> QED BY <2>1, <2>2
<1> QED BY <1>5, <1>7, <1>8, <1>13 DEF MemoryInv, FileInv

\* A review that leaves the file: its process has the file open no more.
LEMMA LeavesFile ==
  ASSUME MemoryInv, NEW r \in Runs, NEW p \in Processes, p = request[r].process,
         review[r].at \in FileStages, filing' = [filing EXCEPT ![p].phase = "away"],
         review'[r].at \in {"seeded", "reseeded", "filed", "broken"},
         \A q \in Runs \ {r} : review'[q] = review[q],
         request' = request, cases' \subseteq Runs, endangered' \subseteq Runs, endangered \subseteq endangered'
  PROVE  /\ FileTypes' /\ OneAtATime' /\ Opened' = Opened \ {p}
         /\ \A o \in Processes \ {p} : filing'[o] = filing[o]
         /\ \A o \in Opened' : \E q \in Runs : request[q].process = o /\ review'[q].at \in FileStages
         /\ \A q \in Filing' : q # r /\ q \in Filing
<1>1. TableInv /\ FileTypes /\ OneAtATime /\ OpenedOK BY DEF MemoryInv, FileInv
<1>2. FileTypes' BY <1>1 DEF FileTypes
<1>3. filing'[p].phase = "away" /\ \A o \in Processes \ {p} : filing'[o] = filing[o] BY <1>1 DEF FileTypes
<1>4. Opened' = Opened \ {p} BY <1>3 DEF Opened
<1>5. OneAtATime' BY <1>1 DEF OneAtATime
<1>6. ASSUME NEW o \in Opened' PROVE \E q \in Runs : request[q].process = o /\ review'[q].at \in FileStages
  <2>1. PICK q \in Runs : request[q].process = o /\ review[q].at \in FileStages BY <1>1, <1>4 DEF OpenedOK
  <2>2. q # r BY <1>4, <2>1
  <2> QED BY <2>1, <2>2
<1>7. \A q \in Filing' : q # r /\ q \in Filing BY DEF Filing
<1> QED BY <1>2, <1>3, <1>4, <1>5, <1>6, <1>7

LEMMA EndWriteStep ==
  ASSUME MemoryInv, NEW r \in Runs, EndWrite(r)
  PROVE  MemoryInv'
<1>1. TableInv /\ FileTypes /\ OneAtATime /\ OpenedOK /\ ContentOK BY DEF MemoryInv, FileInv
<1>2. PICK p \in Processes : p = request[r].process BY <1>1, ProcessOf
<1>3. PICK at : at = Written[review[r].at] OBVIOUS
<1>4. /\ review[r].at \in FileStages /\ at \in {"seeded", "reseeded", "filed"}
      /\ at = "filed" <=> review[r].at = "filing"
      /\ review' = [review EXCEPT ![r].at = at]
  BY <1>3, StagesOfFile DEF EndWrite, FileStages
<1>5. /\ p \in Opened /\ filing' = [filing EXCEPT ![p].phase = "away"]
      /\ cases' \in {Content(r)} \cup (IF filing[p].phase = "mixed" THEN {{}} ELSE {})
      /\ UNCHANGED <<request, memories, endangered>>
  BY <1>2 DEF EndWrite
<1>6. /\ TableInv' /\ review'[r].at = at
      /\ \A q \in Runs \ {r} : review'[q] = review[q]
  BY <1>1, <1>4, <1>5, StageAtFile DEF ReviewStages
<1>7. cases' \subseteq Runs /\ endangered' \subseteq Runs
  <2>1. filing[p].read \subseteq Runs BY <1>1 DEF FileTypes
  <2>2. Content(r) \subseteq Runs BY <1>2, <2>1 DEF Content
  <2> QED BY <1>1, <1>5, <2>2 DEF FileTypes
<1>8. /\ FileTypes' /\ OneAtATime' /\ Opened' = Opened \ {p}
      /\ \A o \in Processes \ {p} : filing'[o] = filing[o]
      /\ \A o \in Opened' : \E q \in Runs : request[q].process = o /\ review'[q].at \in FileStages
      /\ \A q \in Filing' : q # r /\ q \in Filing
  BY <1>2, <1>4, <1>5, <1>6, <1>7, LeavesFile
<1>9. Filed' \subseteq Filed \cup ({r} \cap Filing) BY <1>4, <1>6 DEF Filed, Filing
<1>10. \A o \in Opened' : filing'[o] = filing[o] /\ filing[o].phase = "mixed"
  <2> SUFFICES ASSUME NEW o \in Opened' PROVE filing'[o] = filing[o] /\ filing[o].phase = "mixed" OBVIOUS
  <2>1. o \in Opened /\ o # p /\ o \in Processes BY <1>8 DEF Opened
  <2>2. filing[o].phase # "alone" BY <1>1, <1>5, <2>1 DEF OpenedOK
  <2> QED BY <1>8, <2>1, <2>2 DEF Opened
<1>11. CASE filing[p].phase = "alone"
  <2>1. Opened' = {} BY <1>1, <1>5, <1>8, <1>11 DEF OpenedOK
  <2>2. cases' = Content(r) BY <1>5, <1>11
  <2>3. Filed \ endangered \subseteq Content(r) BY <1>1, <1>2, <1>4, <1>11 DEF ContentOK
  <2>4. {r} \cap Filing \subseteq Content(r) BY DEF Content
  <2>5. Filed' \ endangered' \subseteq cases' BY <1>5, <1>9, <2>2, <2>3, <2>4
  <2>6. \A q \in Runs : filing'[request'[q].process].phase # "alone"
    <3>1. \A q \in Runs : request[q].process \in Processes BY <1>1, ProcessOf
    <3> QED BY <1>5, <2>1, <3>1 DEF Opened
  <2>7. OpenedOK' /\ ContentOK' BY <2>1, <2>5, <2>6 DEF OpenedOK, ContentOK
  <2> QED BY <1>6, <1>8, <2>7 DEF MemoryInv, FileInv
<1>12. CASE filing[p].phase = "mixed"
  <2>1. Filed' \subseteq endangered' BY <1>1, <1>2, <1>5, <1>9, <1>12 DEF OpenedOK
  <2>2. OpenedOK'
    <3>1. ASSUME NEW o \in Opened', NEW q \in Filing', request[q].process = o PROVE q \in endangered
      BY <1>1, <1>8, <1>10, <3>1 DEF OpenedOK
    <3> QED BY <1>5, <1>8, <1>10, <2>1, <3>1 DEF OpenedOK
  <2>3. ContentOK' BY <2>1 DEF ContentOK
  <2> QED BY <1>6, <1>8, <2>2, <2>3 DEF MemoryInv, FileInv
<1> QED BY <1>5, <1>11, <1>12 DEF Opened

LEMMA BreakOffStep ==
  ASSUME MemoryInv, NEW r \in Runs, BreakOff(r)
  PROVE  MemoryInv'
<1>1. TableInv /\ FileTypes /\ OneAtATime /\ OpenedOK /\ ContentOK BY DEF MemoryInv, FileInv
<1>2. PICK p \in Processes : p = request[r].process BY <1>1, ProcessOf
<1>3. /\ review[r].at \in FileStages /\ review' = [review EXCEPT ![r].at = "broken"]
      /\ filing' = [filing EXCEPT ![p].phase = "away"] /\ UNCHANGED <<request, memories>>
      /\ cases' \in {cases} \cup (IF filing[p].phase = "mixed" THEN {{}} ELSE {})
      /\ endangered' = IF p \in Opened THEN endangered \cup Filed \cup Filing ELSE endangered
  BY <1>2, StagesOfFile DEF BreakOff
<1>4. /\ TableInv' /\ review'[r].at = "broken"
      /\ \A q \in Runs \ {r} : review'[q] = review[q]
  <2>1. PICK at \in ReviewStages : at = "broken" BY DEF ReviewStages
  <2>2. review' = [review EXCEPT ![r].at = at] /\ at \notin {"saving", "done"} BY <1>3, <2>1
  <2> QED BY <1>1, <1>3, <2>1, <2>2, StageAtFile
<1>5. cases' \subseteq Runs /\ endangered' \subseteq Runs /\ endangered \subseteq endangered'
  BY <1>1, <1>3 DEF FileTypes, Filed, Filing
<1>6. /\ FileTypes' /\ OneAtATime' /\ Opened' = Opened \ {p}
      /\ \A o \in Processes \ {p} : filing'[o] = filing[o]
      /\ \A o \in Opened' : \E q \in Runs : request[q].process = o /\ review'[q].at \in FileStages
      /\ \A q \in Filing' : q # r /\ q \in Filing
  BY <1>2, <1>3, <1>4, <1>5, LeavesFile
<1>7. Filed' = Filed BY <1>3, <1>4 DEF Filed, FileStages
<1>8. \A o \in Opened' : o \in Opened /\ filing'[o] = filing[o] BY <1>6 DEF Opened
<1>9. OpenedOK'
  <2>1. ASSUME NEW o \in Opened', filing'[o].phase = "alone" PROVE Opened' = {o}
    BY <1>1, <1>6, <1>8, <2>1 DEF OpenedOK
  <2>2. ASSUME NEW o \in Opened', filing'[o].phase = "mixed"
        PROVE  Filed \subseteq endangered' /\ \A q \in Filing' : request[q].process = o => q \in endangered'
    BY <1>1, <1>5, <1>6, <1>8, <2>2 DEF OpenedOK
  <2> QED BY <1>3, <1>6, <1>7, <2>1, <2>2 DEF OpenedOK
<1>10. ContentOK'
  <2>1. CASE p \in Opened
    <3>1. Filed' \ endangered' = {} BY <1>3, <1>7, <2>1
    <3> QED BY <3>1 DEF ContentOK
  <2>2. CASE p \notin Opened
    <3>1. Opened' = Opened /\ cases' = cases /\ endangered' = endangered
      BY <1>2, <1>3, <1>6, <2>2 DEF Opened
    <3>2. ASSUME NEW q \in Runs, review'[q].at \in FileStages, filing'[request[q].process].phase = "alone"
          PROVE  Filed \ endangered \subseteq Content(q)'
      <4>1. q # r BY <1>4, <3>2 DEF FileStages
      <4>2. PICK o \in Processes : o = request[q].process BY <1>1, ProcessOf
      <4>3. o # p BY <1>1, <1>3, <3>2, <4>2 DEF FileTypes
      <4>4. filing'[o] = filing[o] /\ review'[q] = review[q] BY <1>4, <1>6, <4>1, <4>3
      <4>5. {q} \cap Filing' = {q} \cap Filing BY <4>4 DEF Filing
      <4>6. Content(q)' = Content(q) BY <1>3, <4>2, <4>4, <4>5 DEF Content
      <4> QED BY <1>1, <3>2, <4>2, <4>4, <4>6 DEF ContentOK
    <3> QED BY <1>1, <1>3, <1>7, <3>1, <3>2 DEF ContentOK
  <2> QED BY <2>1, <2>2
<1> QED BY <1>4, <1>6, <1>9, <1>10 DEF MemoryInv, FileInv

LEMMA MemoryInvHolds == MemorySpec => []MemoryInv
<1>1. MemoryInit => MemoryInv BY MemoryInitHolds
<1>2. MemoryInv /\ [MemoryNext]_memoryVars => MemoryInv'
  <2> SUFFICES ASSUME MemoryInv, [MemoryNext]_memoryVars PROVE MemoryInv' OBVIOUS
  <2>1. TableInv /\ FileInv BY DEF MemoryInv
  <2>2. ASSUME NEW r \in Runs, Recall(r) PROVE MemoryInv'
    BY <2>1, <2>2, RecallStep, QuietFile DEF MemoryInv
  <2>3. ASSUME NEW r \in Runs, SaveMemory(r) PROVE MemoryInv'
    BY <2>1, <2>3, SaveMemoryStep, QuietFile DEF MemoryInv
  <2>4. ASSUME NEW r \in Runs, Skip(r) PROVE MemoryInv'
    BY <2>1, <2>4, SkipStep, QuietFile DEF MemoryInv
  <2>5. ASSUME NEW r \in Runs, NEW found \in Findings, Extract(r, found) PROVE MemoryInv'
    BY <2>1, <2>5, ExtractStep, QuietFile DEF MemoryInv
  <2>6. ASSUME NEW r \in Runs, ReadCases(r) PROVE MemoryInv' BY <2>6, ReadCasesStep
  <2>7. ASSUME NEW r \in Runs, BeginWrite(r) PROVE MemoryInv' BY <2>7, BeginWriteStep
  <2>8. ASSUME NEW r \in Runs, EndWrite(r) PROVE MemoryInv' BY <2>8, EndWriteStep
  <2>9. ASSUME NEW r \in Runs, BreakOff(r) PROVE MemoryInv' BY <2>9, BreakOffStep
  <2>10. CASE UNCHANGED memoryVars
    <3>1. TableInv' BY <2>1, <2>10 DEF memoryVars, TableInv, OnlyOverlapRepeats
    <3>2. FileInv' BY <2>1, <2>10, FilesStay DEF memoryVars
    <3> QED BY <3>1, <3>2 DEF MemoryInv
  <2> QED BY <2>2, <2>3, <2>4, <2>5, <2>6, <2>7, <2>8, <2>9, <2>10 DEF MemoryNext
<1> QED BY <1>1, <1>2, PTL DEF MemorySpec

\* What is remembered has the ids and the sources that extraction.py gives it, and a review
\* knows of nothing that is not in the table.
THEOREM MemoryTypes == MemorySpec => []MemoryTypeOK
<1>1. MemoryInv => MemoryTypeOK
  BY DEF MemoryInv, TableInv, FileInv, FileTypes, MemoryTypeOK, MemoriesOK, MemoryIds, RowFits
<1> QED BY <1>1, MemoryInvHolds, PTL

\* However many reviews overlap, whatever they find and are asked: nothing is remembered
\* twice that one could have seen, nothing is used outside its scope, and a case that
\* was filed stays in the file but for a write that was broken off or met another.
THEOREM RememberedHolds == MemorySpec => []Remembered
<1>1. MemoryInv => Remembered
  <2> SUFFICES ASSUME MemoryInv PROVE Remembered OBVIOUS
  <2>1. UsedWithinScope
    <3>1. \A r \in Runs : \A u \in review[r].used : UseFits(request[r], memories[u.id], u.alike)
      BY DEF MemoryInv, TableInv
    <3> QED BY <3>1 DEF UsedWithinScope, UseFits, InScope
  <2>2. CasesKept
    <3>1. CASE Opened = {} BY <3>1 DEF MemoryInv, FileInv, ContentOK, CasesKept
    <3>2. ASSUME NEW p \in Opened PROVE CasesKept
      <4>1. PICK r \in Runs : request[r].process = p /\ review[r].at \in FileStages
        BY DEF MemoryInv, FileInv, OpenedOK
      <4>2. CASE filing[p].phase = "alone"
        <5>1. Filed \ endangered \subseteq Content(r) BY <4>1, <4>2 DEF MemoryInv, FileInv, ContentOK
        <5> QED BY <4>1, <5>1, StagesOfFile DEF CasesKept
      <4>3. CASE filing[p].phase = "mixed"
        <5>1. Filed \ endangered = {} BY <4>3 DEF MemoryInv, FileInv, OpenedOK
        <5> QED BY <5>1 DEF CasesKept
      <4> QED BY <4>2, <4>3 DEF Opened
    <3> QED BY <3>1, <3>2
  <2> QED BY <2>1, <2>2 DEF MemoryInv, TableInv, Remembered
<1> QED BY <1>1, MemoryInvHolds, PTL

-----------------------------------------------------------------------------
(* All of them together. *)

\* What surrounds the review, moved in turn, is each of its components: what holds of one by
\* itself, of its revision, its documents, its handoff, holds where the others move too.
THEOREM SurroundingComponents ==
  Spec => /\ RevisionSpec /\ WorkspaceSpec /\ PatchSpec /\ HandoffSpec
          /\ NoticesSpec /\ PmSpec /\ MemorySpec /\ SkillsSpec
<1> DEFINE vars == <<revisionVars, workspaceVars, patchVars, handoffVars, noticeVars, pmVars,
                     memoryVars, skillVars, focus>>
<1>1. Init => /\ RevisionInit /\ WorkspaceInit /\ PatchInit /\ HandoffInit
              /\ NoticesInit /\ PmInit /\ MemoryInit /\ SkillsInit
  BY DEF Init
<1>2. vars' = vars =>
        /\ revisionVars' = revisionVars /\ workspaceVars' = workspaceVars /\ patchVars' = patchVars
        /\ handoffVars' = handoffVars /\ noticeVars' = noticeVars /\ pmVars' = pmVars
        /\ memoryVars' = memoryVars /\ skillVars' = skillVars
  OBVIOUS
<1>3. [Next]_vars => [RevisionNext]_revisionVars BY <1>2 DEF Next, AnswersNext
<1>4. [Next]_vars => [WorkspaceNext]_workspaceVars BY <1>2 DEF Next
<1>5. [Next]_vars => [PatchNext]_patchVars BY <1>2 DEF Next
<1>6. [Next]_vars => [HandoffNext]_handoffVars BY <1>2 DEF Next
<1>7. [Next]_vars => [NoticesNext]_noticeVars BY <1>2 DEF Next, DispatchesNext
<1>8. [Next]_vars => [PmNext]_pmVars BY <1>2 DEF Next, ConsoleNext
<1>9. [Next]_vars => [MemoryNext]_memoryVars BY <1>2 DEF Next
<1>10. [Next]_vars => [SkillsNext]_skillVars BY <1>2 DEF Next, PlanningNext
<1> QED
  BY <1>1, <1>3, <1>4, <1>5, <1>6, <1>7, <1>8, <1>9, <1>10, PTL
  DEF Spec, RevisionSpec, WorkspaceSpec, PatchSpec, HandoffSpec, NoticesSpec, PmSpec, MemorySpec, SkillsSpec

\* The values that the variables of all components range over.
THEOREM SurroundingTypes == Spec => []TypeOK
<1>1. RevisionTypeOK /\ WorkspaceTypeOK /\ HandoffTypeOK /\ NoticesTypeOK
        /\ PmTypeOK /\ MemoryTypeOK /\ SkillsTypeOK => TypeOK
  BY DEF TypeOK
<1> QED
  BY <1>1, SurroundingComponents, RevisionTypes, WorkspaceTypes, HandoffTypes, NoticesTypes, PmTypes,
     MemoryTypes, SkillsTypes, PTL
=============================================================================
