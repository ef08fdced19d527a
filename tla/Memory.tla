-------------------------------- MODULE Memory -------------------------------
(***************************************************************************)
(* What reviews remember (memory/, review/memory_store.py): a review is    *)
(* given the memories of those before it, and leaves its own: after it, a  *)
(* case in a JSON file and up to MaxKept memories in a table, each by      *)
(* itself.  What is remembered already is read once, before the first is   *)
(* stored.                                                                 *)
(*                                                                         *)
(* The file is read and written whole, three times by a review: with the   *)
(* seeds before it and after it, and with its case.  It is cut to nothing, *)
(* then written, and what is no JSON is read as nothing: a file cut short  *)
(* is here the empty one.  Seeds are left out of the content, and the      *)
(* store is the file-backed one.                                           *)
(*                                                                         *)
(* Reviews overlap, in one process or two.  The text of a memory is its    *)
(* topic: those of one type and one topic are alike.  Scores are in        *)
(* ten-thousandths; how alike the risks of a memory and a document are is  *)
(* left open.  Bounds: Runs, Topics, Findings.                             *)
(***************************************************************************)
EXTENDS Integers, SequencesExt, FiniteSetsExt

CONSTANTS
  Runs,
  Processes,
  Topics,         \* a set of numbers, in the order of their titles
  Findings,       \* what reviews find: the topics of [rules, clarified, risks, items, answers]
                  \* (clarified: the rules among them that someone explained), whether the
                  \* risk is high, and which of the sources are worded too vaguely
  Asked,          \* what the runs are asked, functions from Runs to records: the process, the
                  \* mode of retrieval ("off", "assist", "strict", "hybrid") and team, project,
                  \* type and profile, each a name or None
  MaxKept,
  None

ASSUME MemoryAssumption ==
  /\ Topics \subseteq Nat /\ MaxKept \in Nat \ {0}
  /\ \A found \in Findings : found.rules \cup found.risks \cup found.items \cup found.answers \subseteq Topics
  /\ \A asked \in Asked, r \in Runs : asked[r].process \in Processes

VARIABLES
  request,        \* of each run: what it is asked and in which process
  memories,       \* the table: id -> memory
  review,         \* where each run is, what it was given and what it has left to store
  cases,          \* the JSON file: the runs it has
  filing,         \* what a process read from the file, and how far it is with it
  endangered      \* runs whose case was filed, or being filed, when a write was broken off
                  \* or met a write of another process (history)

memoryVars == <<request, memories, review, cases, filing, endangered>>

-----------------------------------------------------------------------------
\* What a candidate is made from.
Sources == {"rule", "clarified_rule", "risk", "risk_item", "answer", "case"}

TypeOfMemory(source) ==
  CASE source \in {"rule", "clarified_rule"} -> "team_rule"
    [] source \in {"risk", "risk_item"} -> "risk_pattern"
    [] source = "answer" -> "clarification_fact"
    [] source = "case" -> "review_case"

Priority == [team_rule |-> 0, risk_pattern |-> 1, clarification_fact |-> 2, review_case |-> 3]

\* 0.18 of the reuse score, 0.14 of the confidence.
Reuse == [rule |-> 1620, clarified_rule |-> 1620, risk |-> 1548, risk_item |-> 1494,
          answer |-> 936, case |-> 846]
Confidence == [rule |-> 1036, clarified_rule |-> 1176, risk |-> 1064, risk_item |-> 1008,
               answer |-> 924, case |-> 854]

Threshold == [strict |-> 7000, assist |-> 6600, hybrid |-> 6000]

\* _resolve_memory_retrieval_config: any other mode is off.
RecallModes == {"off"} \cup DOMAIN Threshold

MemoryInit ==
  /\ request \in Asked /\ \A r \in Runs : request[r].mode \in RecallModes
  /\ memories = << >>
  /\ review = [r \in Runs |-> [at |-> "new", used |-> {}, existing |-> {}, queue |-> << >>]]
  /\ cases = {}
  /\ filing = [p \in Processes |-> [read |-> {}, phase |-> "away"]]
  /\ endangered = {}

\* _build_scope: facts are the project's, rules and risks the team's, when there is one.
ScopeOf(type, asks) ==
  IF type = "clarification_fact" /\ asks.project # None THEN <<"project", asks.project>>
  ELSE IF type \in {"team_rule", "risk_pattern"} /\ asks.team # None THEN <<"team", asks.team>>
  ELSE IF asks.project # None THEN <<"project", asks.project>>
  ELSE IF asks.team # None THEN <<"team", asks.team>>
  ELSE <<"global", None>>

\* MemoryCandidate.
Candidate(source, topic) == [source |-> source, topic |-> topic]

\* extract_memory_candidates: a case needs two findings.
Candidates(found) ==
  {Candidate(IF t \in found.clarified THEN "clarified_rule" ELSE "rule", t) : t \in found.rules}
  \cup {Candidate("risk", t) : t \in found.risks}
  \cup {Candidate("risk_item", t) : t \in found.items}
  \cup {Candidate("answer", t) : t \in found.answers}
  \cup {c \in {Candidate("case", 0)} :
          found.high /\ Cardinality(found.rules \cup found.risks) >= 2}

SameLesson(c, d) == TypeOfMemory(c.source) = TypeOfMemory(d.source) /\ c.topic = d.topic

\* _find_duplicate, among what was read.
Repeats(c, existing) == \E id \in existing : SameLesson(c, memories[id])

\* The order of two keys, as Python compares tuples.
Precedes(a, b) == \E k \in DOMAIN a : a[k] < b[k] /\ \A l \in 1 .. k - 1 : a[l] = b[l]

\* sorted(S, key)[:n]; what has the same key comes in any order.
FirstOf(S, n, key) ==
  {s \in BoundedSeq(S, n) :
     /\ \A j, k \in DOMAIN s : j < k => s[j] # s[k] /\ ~ Precedes(key[s[k]], key[s[j]])
     /\ Len(s) = n \/ Range(s) = S
     /\ \A c \in S \ Range(s), k \in DOMAIN s : ~ Precedes(key[c], key[s[k]])}

\* The confidence and the reuse score of a candidate, added.
Worth(source) ==
  CASE source = "clarified_rule" -> 174 [] source = "rule" -> 164 [] source = "risk" -> 162
    [] source = "risk_item" -> 155 [] source = "answer" -> 118 [] OTHER -> 108

\* gatekeep_memory_candidates, up to the order: not vague, not a duplicate, of a batch the
\* first (a risk of a finding comes before one of a risk item).
New(found, existing) ==
  LET fit == {c \in Candidates(found) : c.source \notin found.vague /\ ~ Repeats(c, existing)}
  IN  {c \in fit : c.source = "risk_item" => Candidate("risk", c.topic) \notin fit}

\* The MaxKept best of them.
BestOf(found, existing) ==
  LET new == New(found, existing)
  IN  FirstOf(new, MaxKept,
        [c \in new |-> <<Priority[TypeOfMemory(c.source)], -Worth(c.source), c.topic>>])

InScope(r) == {<<"global", None>>} \cup
              {<<"team", request[r].team>>, <<"project", request[r].project>>}

\* list_by_scope, of global, team and project.
Visible(r) == {id \in DOMAIN memories : memories[id].scope \in InScope(r)}

-----------------------------------------------------------------------------
\* _load_candidates: and those of any project whose requirement is of the same type.
Recalled(r) ==
  Visible(r) \cup {id \in DOMAIN memories : request[r].type # None /\ request[r].type \in memories[id].types}

\* Mutation: a memory of the same requirement type counts like one of the project.
ScopeScore_TypeAsProject(r, m) ==
  IF m.scope = <<"project", request[r].project>> \/ request[r].type \in m.types \ {None} THEN 10000
  ELSE IF m.scope = <<"team", request[r].team>> THEN 7500
  ELSE 0

\* _score_memory: same project, same team, or same requirement type.
ScopeScore(r, m) ==
  IF m.scope = <<"project", request[r].project>> THEN 10000
  ELSE IF m.scope = <<"team", request[r].team>> THEN 7500
  ELSE IF request[r].type \in m.types \ {None} THEN 4500
  ELSE 0

\* The rest of it; alike: what the similarity of the risks adds.
Score(r, m, alike) ==
  ScopeScore(r, m) + alike + Reuse[m.source] + Confidence[m.source]
  + (IF request[r].mode = "strict" /\ TypeOfMemory(m.source) = "team_rule" THEN 1000 ELSE 0)
  + (IF request[r].mode = "hybrid" /\ TypeOfMemory(m.source) \in {"team_rule", "risk_pattern"}
     THEN 800 ELSE 0)

\* min(0.4, similarity + 0.08) from a similarity of 0.18 on.
Alike == {0, 2600, 4000}

\* retrieve_memories_with_diagnostics_async: what reaches the threshold.
Fitting(r, alike) ==
  {id \in Recalled(r) :
     /\ request[r].mode = "strict" => TypeOfMemory(memories[id].source) = "team_rule"
     /\ Score(r, memories[id], alike[id]) >= Threshold[request[r].mode]}

\* The three best of it; where the reuse scores or the confidences differ, so does their sum.
Selected(r, alike) ==
  LET fit == Fitting(r, alike)
      key == [id \in fit |->
               LET m == memories[id]
               IN  <<-Score(r, m, alike[id]), Priority[TypeOfMemory(m.source)],
                     -(Reuse[m.source] + Confidence[m.source]), m.topic>>]
  IN  {{[id |-> s[k], alike |-> alike[s[k]] > 0] : k \in DOMAIN s} : s \in FirstOf(fit, 3, key)}

\* What a review does at the file it does without giving way to the others of its process.
Turn(r) ==
  \A q \in Runs \ {r} :
    request[q].process = request[r].process =>
      review[q].at \notin {"seeding", "reseeding", "reseeded", "filing"}

\* _prepare_review_context: an error of the table, and there are none.
Recall(r) ==
  /\ review[r].at = "seeded" /\ Turn(r)
  /\ \E used \in {{}} \cup (IF request[r].mode = "off" THEN {}
                            ELSE UNION {Selected(r, a) : a \in [Recalled(r) -> Alike]}) :
       review' = [review EXCEPT ![r].at = "reviewed", ![r].used = used]
  /\ UNCHANGED <<request, memories, cases, filing, endangered>>

\* import_seeds of retrieve_similar and of run_review, and store_review_case.
Reading == [new |-> "seeding", reviewed |-> "reseeding", reseeded |-> "filing"]
Written == [seeding |-> "seeded", reseeding |-> "reseeded", filing |-> "filed"]

\* Whose case is in the file, as the review was told, and whose is on its way.
Filed == {r \in Runs : review[r].at \in {"filed", "saving", "done"}}
Filing == {r \in Runs : review[r].at = "filing"}

\* _load_payload.
ReadCases(r) ==
  /\ review[r].at \in DOMAIN Reading /\ Turn(r)
  /\ filing' = [filing EXCEPT ![request[r].process] = [read |-> cases, phase |-> "read"]]
  /\ review' = [review EXCEPT ![r].at = Reading[@]]
  /\ UNCHANGED <<request, memories, cases, endangered>>

\* The processes with the file open for writing; two of them mix what they write.
Opened == {p \in Processes : filing[p].phase \in {"alone", "mixed"}}

\* Mutation: the import of seeds writes them alone.
Content_SeedsOnly(r) ==
  IF r \in Filing THEN filing[request[r].process].read \cup {r} ELSE {}

\* What a review at the file has to write: what was read, and its case.
Content(r) == filing[request[r].process].read \cup ({r} \cap Filing)

\* _write_payload opens the file, which cuts it to nothing.
BeginWrite(r) ==
  LET p == request[r].process
      together == Opened \cup {p}
  IN  /\ review[r].at \in DOMAIN Written /\ filing[p].phase = "read"
      /\ cases' = {}
      /\ filing' = [o \in Processes |->
                      IF o \notin together THEN filing[o]
                      ELSE [filing[o] EXCEPT !.phase = IF Opened = {} THEN "alone" ELSE "mixed"]]
      /\ endangered' = IF Opened = {} /\ filing[p].read = cases THEN endangered
                       ELSE endangered \cup Filed \cup Filing
      /\ UNCHANGED <<request, memories, review>>

\* _write_payload has written; after a mixture the file may be no JSON.
EndWrite(r) ==
  LET p == request[r].process
  IN  /\ review[r].at \in DOMAIN Written /\ p \in Opened
      /\ cases' \in {Content(r)} \cup (IF filing[p].phase = "mixed" THEN {{}} ELSE {})
      /\ filing' = [filing EXCEPT ![p].phase = "away"]
      /\ review' = [review EXCEPT ![r].at = Written[@]]
      /\ UNCHANGED <<request, memories, endangered>>

\* A death of the process, or an error of the file, which ends the run.
BreakOff(r) ==
  LET p == request[r].process
  IN  /\ review[r].at \in DOMAIN Written
      /\ cases' \in {cases} \cup (IF filing[p].phase = "mixed" THEN {{}} ELSE {})
      /\ endangered' = IF p \in Opened THEN endangered \cup Filed \cup Filing ELSE endangered
      /\ filing' = [filing EXCEPT ![p].phase = "away"]
      /\ review' = [review EXCEPT ![r].at = "broken"]
      /\ UNCHANGED <<request, memories>>

\* process_review_memory_extraction_async, up to what is kept.
Extract(r, found) ==
  /\ review[r].at = "filed" /\ Turn(r)
  /\ \E queue \in BestOf(found, Visible(r)) :
       review' = [review EXCEPT ![r].at = "saving", ![r].existing = Visible(r), ![r].queue = queue]
  /\ UNCHANGED <<request, memories, cases, filing, endangered>>

\* MemoryRecord, of a candidate.
Remember(r, c) ==
  [source |-> c.source, topic |-> c.topic,
   scope |-> ScopeOf(TypeOfMemory(c.source), request[r]),
   types |-> {request[r].type, request[r].profile} \ {None}]

\* save_memory of the next one, a transaction with its audit row.
SaveMemory(r) ==
  /\ review[r].at = "saving" /\ review[r].queue # << >> /\ Turn(r)
  /\ LET c == Head(review[r].queue)
         saved == {id \in DOMAIN memories : id[1] = r}
         id == <<r, Cardinality(saved) + 1>>
     IN  memories' = [i \in DOMAIN memories \cup {id} |-> IF i = id THEN Remember(r, c) ELSE memories[i]]
  /\ review' = [review EXCEPT ![r].queue = Tail(@)]
  /\ UNCHANGED <<request, cases, filing, endangered>>

\* There is no extraction, or an error of the table ends it, not the review; a death ends
\* both.
Skip(r) ==
  /\ review[r].at \in {"filed", "saving"}
  /\ review' = [review EXCEPT ![r].at = "done", ![r].queue = << >>]
  /\ UNCHANGED <<request, memories, cases, filing, endangered>>

MemoryNext ==
  \E r \in Runs :
    \/ ReadCases(r) \/ BeginWrite(r) \/ EndWrite(r) \/ BreakOff(r)
    \/ Recall(r) \/ SaveMemory(r) \/ Skip(r)
    \/ \E found \in Findings : Extract(r, found)

MemorySpec == MemoryInit /\ [][MemoryNext]_memoryVars

-----------------------------------------------------------------------------
\* The values the variables range over.
MemoryTypeOK ==
  /\ DOMAIN memories \subseteq Runs \X (1 .. MaxKept)
  /\ \A id \in DOMAIN memories : memories[id].source \in Sources
  /\ \A r \in Runs : review[r].existing \subseteq DOMAIN memories
  /\ cases \subseteq Runs /\ endangered \subseteq Runs

\* Two memories that say the same in one scope were stored by reviews of which neither
\* had seen what the other stored; one review never stores the same twice.
OnlyOverlapRepeats ==
  \A i, j \in DOMAIN memories :
    i # j /\ memories[i].scope = memories[j].scope /\ SameLesson(memories[i], memories[j]) =>
      i[1] # j[1] /\ i \notin review[j[1]].existing /\ j \notin review[i[1]].existing

\* A memory of another team or project is given to a review only for its requirement
\* type or its risks, what a project was told or how its review went only for its risks
\* unless the mode is hybrid, and under the mode strict nothing but rules.
UsedWithinScope ==
  \A r \in Runs : \A u \in review[r].used :
    LET m == memories[u.id]
        type == TypeOfMemory(m.source)
    IN  /\ request[r].mode # "off"
        /\ request[r].mode = "strict" => type = "team_rule"
        /\ m.scope \in InScope(r) \ {<<"global", None>>} \/ request[r].type \in m.types \/ u.alike
        /\ type \in {"clarification_fact", "review_case"} /\ request[r].mode = "assist" =>
             m.scope \in InScope(r) \/ u.alike

\* A case that was filed stays in the file, over whatever reviews, seeds and other
\* processes write to it, or is in what is being written to it; except those that were
\* filed or being filed when a write was broken off or met a write of another process.
CasesKept ==
  \/ Filed \ endangered \subseteq cases
  \/ \E r \in Runs : /\ review[r].at \in DOMAIN Written /\ request[r].process \in Opened
                    /\ Filed \ endangered \subseteq Content(r)

\* What reviews that overlap remember: nothing twice that one could have seen, nothing
\* given outside its scope, no case lost but to a write broken off or a clash of two.
Remembered == OnlyOverlapRepeats /\ UsedWithinScope /\ CasesKept
=============================================================================
