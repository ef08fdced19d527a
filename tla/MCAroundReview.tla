---------------------------- MODULE MCAroundReview ---------------------------
\* TLC: what surrounds the review: what becomes of its report, and the console its documents
\* come from.  The components share no state, so each behaviour moves only the one in focus
\* and leaves the others at one initial state.
EXTENDS Revision, WorkspaceVersions, PatchDocument, Handoff, Notifications, PmConsole,
        Memory, Skills

CONSTANTS q1, q2, g1, a1, e1, e2, b1, b2, b3, t1, t2, p1, k1, k2, feishu, wecom, web, mcp, w1,
          x1, x2, m1, m2

VARIABLE focus

Sends == <<feishu, wecom>>

\* The notes of two tasks of one run.
SameType == [n \in Notes |-> "execution_completed"]

\* A finding of every kind, more than are kept, and what is too vague.
Found ==
  {[rules |-> {1}, clarified |-> {1}, risks |-> {1, 2}, items |-> {2}, answers |-> {1},
    high |-> TRUE, vague |-> {"answer"}],
   [rules |-> {}, clarified |-> {}, risks |-> {}, items |-> {1}, answers |-> {1, 2},
    high |-> TRUE, vague |-> {}],
   [rules |-> {1, 2}, clarified |-> {}, risks |-> {}, items |-> {}, answers |-> {},
    high |-> TRUE, vague |-> {}]}

\* A second run of the same project, of another one of the team, of another team, of none;
\* the first is told its requirement type, or its profile stands for one.  The other modes
\* meet the first two of these, and two processes the first: they meet at the case file only,
\* which takes no notice of scope and mode.
SecondRuns ==
  LET same == <<x1, m1, None>>
      other == <<x1, m2, "api">>
  IN  ({<<web, "assist">>} \X {same, other, <<x2, None, "api">>, <<None, None, None>>})
        \cup ({<<web, "strict">>, <<web, "hybrid">>} \X {same, other})
        \cup {<<<<mcp, "assist">>, same>>}

RunsAsked ==
  {<<[process |-> web, mode |-> "off", team |-> x1, project |-> m1, type |-> t[1], profile |-> t[2]],
     [process |-> s[1][1], mode |-> s[1][2], team |-> s[2][1], project |-> s[2][2], type |-> s[2][3],
      profile |-> None]>> :
     t \in {<<"api", None>>, <<None, "api">>}, s \in SecondRuns}

\* Of the reviews that plan: each cache, and a model that never succeeds.
Environments == {<<TRUE, "sqlite">>, <<TRUE, "memory">>, <<FALSE, "memory">>}

\* The second review plans after the first has begun, prompts come out one way, and the
\* cache holds three rows.  With a catalog reviews only search: the key of a plan has
\* nothing of the search in it.
PlanningNext ==
  /\ SkillsNext
  /\ planning[1] = NoPlanning => planning'[2] \in {planning[2], NoPlanning}
  /\ \A p \in Plannings :
       /\ \A s \in PromptSkills : planning'[p].calls[s].out <= 1
       /\ catalog' # NoOutput => \A s \in PlanSkills : planning'[p].calls[s] = NotCalled
  /\ Cardinality(rows') <= 3

\* Of two questions that are asked, one is answered at length.
AnswersNext == RevisionNext /\ (q2 \in report'.softened => q1 \notin report'.asked)

\* Two edits at once while no pipeline runs and all is stored, one beside a pipeline or
\* after a lost write, none beside a pipeline after a lost write.
ConsoleNext ==
  /\ PmNext
  /\ flow' # NoId \/ drops' > 0 => Cardinality(editing') <= 1
  /\ flow' # NoId /\ drops' > 0 => editing' = {}

\* The dispatchers are alike, and so are the notes: the first dispatch is the web server's.
DispatchesNext ==
  /\ NoticesNext
  /\ notices = << >> /\ sending[web] = Idle /\ cut = 0 =>
       sending'[mcp] = Idle /\ Head(sending'[web].queue) = k1

\* One question is as good as the other: that q2 alone is asked is left out.
Init ==
  /\ focus \in {"revision", "workspace", "patch", "handoff", "notices", "console", "memory", "planning"}
  /\ RevisionInit /\ WorkspaceInit /\ PatchInit /\ HandoffInit /\ NoticesInit /\ PmInit
  /\ MemoryInit /\ (focus # "memory" => request = CHOOSE asked \in RunsAsked : TRUE)
  /\ SkillsInit /\ catalog = NoOutput /\ <<toolCalls, backend>> \in
       (IF focus = "planning" THEN Environments ELSE {<<FALSE, "memory">>})
  /\ focus # "revision" => report.asked = {} /\ report.completed
  /\ report.asked # {q2}
  /\ focus # "notices" => keyed = {}
  /\ focus # "patch" => document = <<[id |-> b1, text |-> t1]>>

Next ==
  /\ UNCHANGED focus
  /\ \/ /\ focus = "revision" /\ AnswersNext
        /\ UNCHANGED <<workspaceVars, patchVars, handoffVars, noticeVars, pmVars, memoryVars, skillVars>>
     \/ /\ focus = "workspace" /\ WorkspaceNext
        /\ UNCHANGED <<revisionVars, patchVars, handoffVars, noticeVars, pmVars, memoryVars, skillVars>>
     \/ /\ focus = "patch" /\ PatchNext
        /\ UNCHANGED <<revisionVars, workspaceVars, handoffVars, noticeVars, pmVars, memoryVars, skillVars>>
     \/ /\ focus = "handoff" /\ HandoffNext
        /\ UNCHANGED <<revisionVars, workspaceVars, patchVars, noticeVars, pmVars, memoryVars, skillVars>>
     \/ /\ focus = "notices" /\ DispatchesNext
        /\ UNCHANGED <<revisionVars, workspaceVars, patchVars, handoffVars, pmVars, memoryVars, skillVars>>
     \/ /\ focus = "console" /\ ConsoleNext
        /\ UNCHANGED <<revisionVars, workspaceVars, patchVars, handoffVars, noticeVars, memoryVars, skillVars>>
     \/ /\ focus = "memory" /\ MemoryNext
        /\ UNCHANGED <<revisionVars, workspaceVars, patchVars, handoffVars, noticeVars, pmVars, skillVars>>
     \/ /\ focus = "planning" /\ PlanningNext
        /\ UNCHANGED <<revisionVars, workspaceVars, patchVars, handoffVars, noticeVars, pmVars, memoryVars>>

Spec == Init /\ [][Next]_<<revisionVars, workspaceVars, patchVars, handoffVars, noticeVars, pmVars,
                          memoryVars, skillVars, focus>>

TypeOK == RevisionTypeOK /\ WorkspaceTypeOK /\ HandoffTypeOK /\ NoticesTypeOK
          /\ PmTypeOK /\ MemoryTypeOK /\ SkillsTypeOK
=============================================================================
