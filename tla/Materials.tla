------------------------------ MODULE Materials ------------------------------
(***************************************************************************)
(* The source documents of one project and the reviews started from them   *)
(* (server/project_space.py, service/materials_service.py).  A source is a *)
(* version of a titled document; a version comes from another, keeps its   *)
(* text and the checksum of the text, and may have a URL, in which case a  *)
(* review fetches the document there and not the stored text.  Commands of *)
(* the agent add and review sources too: AgentCommands extends this        *)
(* module.                                                                 *)
(*                                                                         *)
(* The handlers are synchronous from the first row they read to the last   *)
(* one they write, so each is one step.  A text stands for itself and for  *)
(* its checksum.  A source may be there from before there were checksums,  *)
(* and has none.  Bounds: MaxSources, MaxReviews.                          *)
(***************************************************************************)
EXTENDS Naturals, SequencesExt, FiniteSetsExt

CONSTANTS
  Titles,
  Texts,          \* what a document may say
  MaxSources,
  MaxReviews,
  NoChecksum,     \* of a source stored before there was a column for it
  NoUrl,          \* a source without a URL
  Url,            \* the URL of the document outside
  Nobody          \* a review that no command started

VARIABLES
  sources,        \* project_sources in the order of their creation
  reviews,        \* reviews in the order of their start
  outside         \* the text at Url

materialVars == <<sources, reviews, outside>>

ASSUME MaterialsAssumption == MaxSources \in Nat \ {0} /\ NoChecksum \notin Texts

-----------------------------------------------------------------------------
Urls == {NoUrl, Url}

\* A row of project_sources; a deleted one is kept here as stored = FALSE.
Sources ==
  [stored : BOOLEAN, title : Titles, version : 1 .. MaxSources, parent : 0 .. MaxSources,
   text : Texts, checksum : Texts \cup {NoChecksum}, url : Urls, prd : BOOLEAN]

\* A review: what it was started with and, once it resolved its input, what it reviews.
Reviews ==
  [source : 1 .. MaxSources, text : Texts, url : Urls, command : {Nobody} \cup Nat,
   reviewed : {{}} \cup {{t} : t \in Texts}]

SourceThere(i) == i \in DOMAIN sources /\ sources[i].stored

\* The versions of the rows with a title.
VersionsOf(title) ==
  {sources[i].version : i \in {j \in DOMAIN sources : SourceThere(j) /\ sources[j].title = title}}

\* The row with the greatest version of a title, the parent of the next one; 0: none.
Newest(title) ==
  IF VersionsOf(title) = {} THEN {0}
  ELSE {i \in DOMAIN sources : SourceThere(i) /\ sources[i].title = title
                                 /\ sources[i].version = Max(VersionsOf(title))}

\* insert_source.
InsertSource(row) ==
  /\ Len(sources) < MaxSources
  /\ sources' = Append(sources, row)

\* Mutation: versions are counted from 0.
CreateVersion_FromZero(title, parent, text, url, prd) ==
  \E p \in Newest(title) :
    InsertSource([stored |-> TRUE, title |-> title, parent |-> p, text |-> text,
                  version |-> IF p = 0 THEN 0 ELSE sources[p].version + 1,
                  checksum |-> text, url |-> url, prd |-> prd])

\* resolve_version_info, create_source_version: under the parent that is named, with its
\* title; or else after the newest version of the title.
CreateVersion(title, parent, text, url, prd) ==
  LET row(t, v, p) == [stored |-> TRUE, title |-> t, version |-> v, parent |-> p, text |-> text,
                       checksum |-> text, url |-> url, prd |-> prd]
  IN  IF parent # 0
      THEN /\ SourceThere(parent)
           /\ InsertSource(row(sources[parent].title, sources[parent].version + 1, parent))
      ELSE \E p \in Newest(title) :
             InsertSource(row(title, IF p = 0 THEN 1 ELSE sources[p].version + 1, p))

\* Rows as Store.initialize finds them, which adds the columns: one, or none.
OldRows ==
  [stored : {TRUE}, title : Titles, version : {1}, parent : {0}, text : Texts,
   checksum : {NoChecksum}, url : Urls, prd : BOOLEAN]

MaterialsInit ==
  /\ sources \in {<< >>} \cup {<<row>> : row \in OldRows}
  /\ reviews = << >>
  /\ outside \in Texts

-----------------------------------------------------------------------------
\* add_source, upload_source.
AddSource(title, parent, text, url, prd) ==
  /\ CreateVersion(title, parent, text, url, prd)
  /\ UNCHANGED <<reviews, outside>>

\* Mutation: the version goes on from the row that is rolled back to.
RollbackSource_FromOld(i) ==
  /\ SourceThere(i)
  /\ InsertSource([sources[i] EXCEPT !.parent = i])
  /\ UNCHANGED <<reviews, outside>>

\* rollback_source: the old text as the next version of its title, with its URL.
RollbackSource(i) ==
  /\ SourceThere(i)
  /\ InsertSource([sources[i] EXCEPT !.version = Max(VersionsOf(sources[i].title)) + 1,
                                     !.parent = i, !.checksum = sources[i].text])
  /\ UNCHANGED <<reviews, outside>>

\* update_source: neither the text nor the version changes, also under a new title.
UpdateSource(i, title, url, prd) ==
  /\ SourceThere(i)
  /\ sources' = [sources EXCEPT ![i].title = title, ![i].url = url, ![i].prd = prd]
  /\ UNCHANGED <<reviews, outside>>

\* delete_source: versions that come from it keep naming it.
DeleteSource(i) ==
  /\ SourceThere(i)
  /\ sources' = [sources EXCEPT ![i].stored = FALSE]
  /\ UNCHANGED <<reviews, outside>>

\* _enqueue_review_run: the job is created, and reads its input later.
Enqueue(i, command) ==
  /\ Len(reviews) < MaxReviews
  /\ reviews' = Append(reviews, [source |-> i, text |-> sources[i].text, url |-> sources[i].url,
                                 command |-> command, reviewed |-> {}])

\* The review endpoint of a project.
ReviewSource(i) ==
  /\ SourceThere(i)
  /\ Enqueue(i, Nobody)
  /\ UNCHANGED <<sources, outside>>

\* _resolve_requirement_doc: a URL goes before the text.
Input(r) == IF reviews[r].url = NoUrl THEN reviews[r].text ELSE outside

\* The job of a review resolves its input.
ResolveInput(r) ==
  /\ reviews[r].reviewed = {}
  /\ reviews' = [reviews EXCEPT ![r].reviewed = {Input(r)}]
  /\ UNCHANGED <<sources, outside>>

\* Somebody edits the document at Url.
EditOutside ==
  /\ outside' \in Texts \ {outside}
  /\ UNCHANGED <<sources, reviews>>

MaterialsNext ==
  \/ \E title \in Titles, text \in Texts, url \in Urls, prd \in BOOLEAN :
       \/ \E parent \in {0} \cup DOMAIN sources : AddSource(title, parent, text, url, prd)
       \/ \E i \in DOMAIN sources : UpdateSource(i, title, url, prd)
  \/ \E i \in DOMAIN sources : RollbackSource(i) \/ DeleteSource(i) \/ ReviewSource(i)
  \/ \E r \in DOMAIN reviews : ResolveInput(r)
  \/ EditOutside

MaterialsSpec == MaterialsInit /\ [][MaterialsNext]_materialVars

-----------------------------------------------------------------------------
\* The values the variables range over.
MaterialsTypeOK ==
  /\ sources \in Seq(Sources)
  /\ Len(sources) <= MaxSources
  /\ reviews \in Seq(Reviews)
  /\ outside \in Texts

\* However versions are added, rolled back, renamed, deleted and overwritten: the checksum
\* of a stored version is that of its text (a command that waits for its confirmation
\* compares nothing else), or there is none and it is as it was stored before there were
\* checksums; and a version comes from an older one with a smaller number, so that the
\* chain of parents ends.
SourceHistory ==
  \A i \in DOMAIN sources :
    sources[i].stored =>
      /\ \/ sources[i].checksum = sources[i].text
         \/ sources[i].checksum = NoChecksum /\ sources[i].parent = 0 /\ sources[i].version = 1
      /\ sources[i].parent < i
      /\ sources[i].parent # 0 => sources[sources[i].parent].version < sources[i].version
=============================================================================
