--------------------------- MODULE MCProjectSpace ---------------------------
\* TLC: the components around a project.  Commands of the agent work on the sources of the
\* project, and share a behaviour with the requests of its members; the sync of the
\* connectors and their settings share no state with them, and a behaviour moves only what
\* is in focus.
EXTENDS AgentCommands, ConnectorSync, Connections, TLC

CONSTANTS
  t1, t2, x1, x2, p1, p2, j1, j2, d1, s1, s2, k1, k2,
  AgentSources,   \* sources while commands are in focus
  Foci            \* the foci considered

VARIABLE focus

\* What each command may be posted with, and how often it may be tried: one command of any
\* action, or a review, the only one then, while the document it was confirmed for is
\* connected anew.
Posts ==
  LET Of(actions, tries) == [actions |-> actions, tries |-> tries]
  IN  [commands |-> <<Of(Actions, MaxTries), Of({}, 0)>>,
       overlap |-> <<Of({"start_review"}, 1), Of({"connect_feishu"}, 1)>>]

\* The secrets of the environment: one a project may have as well.
SharedSecrets == [r \in Roles |-> s1]

Init ==
  /\ focus \in Foci
  /\ MaterialsInit /\ (focus \in {"commands", "sync", "connections"} => sources = << >>)
  /\ AgentInit /\ SyncInit
  /\ ConnectionsInit /\ (focus # "connections" => master = NoKey /\ provider = "notion")

Next ==
  /\ UNCHANGED focus
  /\ \/ /\ focus \in DOMAIN Posts
        /\ ProjectNext
        /\ focus = "overlap" => \A r \in DOMAIN reviews' : reviews'[r].command # Nobody
        /\ Len(sources') <= AgentSources
        /\ \A c \in Commands : Posted(c)' =>
             /\ command'[c].action \in Posts[focus][c].actions
             /\ command'[c].tries <= Posts[focus][c].tries
        /\ UNCHANGED <<syncVars, connectionVars>>
     \/ /\ focus = "materials" /\ MaterialsNext
        /\ UNCHANGED <<agentVars, syncVars, connectionVars>>
     \/ /\ focus = "sync" /\ SyncNext
        /\ UNCHANGED <<materialVars, agentVars, connectionVars>>
     \/ /\ focus = "connections" /\ ConnectionsNext
        \* Keys are alike, and so are projects: the first row is that of j1, under k1.
        /\ (\A p \in Projects : rows[p] = NoRow) => master' # k2 /\ rows'[j2] = NoRow
        /\ UNCHANGED <<materialVars, agentVars, syncVars>>

Spec == Init /\ [][Next]_<<materialVars, agentVars, syncVars, connectionVars, focus>>

TypeOK == MaterialsTypeOK /\ AgentTypeOK /\ SyncTypeOK /\ ConnectionsTypeOK

Symmetry == Permutations(Titles) \cup Permutations(Texts)
=============================================================================
