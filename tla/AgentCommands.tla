---------------------------- MODULE AgentCommands ----------------------------
(***************************************************************************)
(* Commands that a conversation with the agent turns into (server/         *)
(* agent_router.py, command_gateway.py): a message posts a command, its    *)
(* requester confirms or dismisses it, and it is executed against the      *)
(* sources of the project (Materials), the decision domain and the review  *)
(* runs.  A failed command may be tried again.                             *)
(*                                                                         *)
(* Handlers run on one event loop; an execution awaits the store, the      *)
(* connector or the review starter between its steps, and other requests   *)
(* for the same command run meanwhile.  Bounds: Commands, MaxTries.        *)
(***************************************************************************)
EXTENDS Materials

CONSTANTS
  Commands,       \* a set of numbers
  MaxTries,       \* executions of one command
  NoCommand

VARIABLES
  command,        \* agent_commands and agent_tasks: a row per command, or NoCommand
  execution,      \* what an execution under way has found so far, or NoCommand
  made,           \* how often each effect was made for a command
  missed          \* how often it was there and not found, as its listing failed (history)

agentVars == <<command, execution, made, missed>>

-----------------------------------------------------------------------------
Actions == {"connect_feishu", "generate_insight", "generate_prd", "start_review", "prepare_delivery"}

CommandStatus ==
  {"awaiting_confirmation", "executable", "running", "completed", "failed", "denied", "dismissed"}

Effects == {"source", "evidence", "insight", "opportunity", "prd", "review"}

\* The actions of CommandGateway: the effects each makes, one after the other.
Plan(action) ==
  CASE action = "connect_feishu"   -> <<"source", "evidence">>
    [] action = "generate_insight" -> <<"insight", "opportunity">>
    [] action = "generate_prd"     -> <<"prd">>
    [] action = "start_review"     -> <<"review">>
    [] action = "prepare_delivery" -> << >>

\* POLICIES.
RequiresConfirmation(action) == action \in {"connect_feishu", "generate_prd", "start_review"}

\* An effect that is looked up before it is made, by the id of the command; the rows of
\* a connected document have ids of their own, and a review is started every time.
LookedUp == {"insight", "opportunity", "prd"}

\* A row of agent_commands with that of its task, and an execution.
CommandRows ==
  [action : Actions, confirmed : BOOLEAN, tries : 0 .. MaxTries, source : 0 .. MaxSources,
   checksum : {{}} \cup {{t} : t \in Texts}, status : CommandStatus]

Executions == [at : 1 .. 3, found : SUBSET Effects, seen : BOOLEAN]

ASSUME AgentAssumption ==
  /\ MaxTries \in Nat
  /\ Commands \subseteq Nat /\ Nobody \notin Commands
  /\ NoCommand \notin CommandRows /\ NoCommand \notin Executions

AgentInit ==
  /\ command = [c \in Commands |-> NoCommand]
  /\ execution = [c \in Commands |-> NoCommand]
  /\ made = [c \in Commands |-> [e \in Effects |-> 0]]
  /\ missed = made

Posted(c) == command[c] # NoCommand

\* run_command: only an executable or a failed command is claimed.
Claimable(status) == status \in {"executable", "failed"}

\* run_command, the claim, of a row that has the given status by now.
Claim(c, row) ==
  /\ Claimable(row.status)
  /\ row.tries < MaxTries
  /\ command' = [command EXCEPT ![c] = [row EXCEPT !.status = "running", !.tries = @ + 1]]
  /\ execution' = [execution EXCEPT ![c] = [at |-> 1, found |-> {}, seen |-> FALSE]]

\* The newest source that is a PRD; 0: none.
LatestPrd ==
  LET prds == {i \in DOMAIN sources : SourceThere(i) /\ sources[i].prd}
  IN  IF prds = {} THEN 0 ELSE Max(prds)

\* add_message: the command remembers the source to be reviewed and its checksum; one
\* that needs no confirmation is claimed at once.
PostMessage(c, action) ==
  LET row == [action |-> action, confirmed |-> FALSE, tries |-> 0, source |-> LatestPrd,
              checksum |-> IF LatestPrd = 0 THEN {} ELSE {sources[LatestPrd].checksum} \ {NoChecksum},
              status |-> IF RequiresConfirmation(action) THEN "awaiting_confirmation"
                         ELSE "executable"]
  IN  /\ ~ Posted(c)
      /\ IF RequiresConfirmation(action)
         THEN command' = [command EXCEPT ![c] = row] /\ UNCHANGED execution
         ELSE Claim(c, row)
      /\ UNCHANGED <<made, missed, materialVars>>

\* confirm_task with confirmed, retry_task.
ConfirmTask(c) ==
  /\ Posted(c)
  /\ \/ /\ command[c].status = "awaiting_confirmation"
        /\ Claim(c, [command[c] EXCEPT !.status = "executable", !.confirmed = TRUE])
     \/ /\ command[c].status # "awaiting_confirmation"
        /\ Claim(c, command[c])
  /\ UNCHANGED <<made, missed, materialVars>>

\* confirm_task without: whatever the status is, and an execution goes on.
DismissTask(c) ==
  /\ Posted(c)
  /\ command' = [command EXCEPT ![c].status = "dismissed"]
  /\ UNCHANGED <<execution, made, missed, materialVars>>

-----------------------------------------------------------------------------
\* The end of an execution overwrites the status.
Finish(c, status) ==
  /\ command' = [command EXCEPT ![c].status = status]
  /\ execution' = [execution EXCEPT ![c] = NoCommand]

Executing(c) == execution[c] # NoCommand
NextEffect(c) ==
  LET plan == Plan(command[c].action)
  IN  IF execution[c].at \in DOMAIN plan THEN {plan[execution[c].at]} ELSE {}

\* Mutation: what was made by an earlier try is not found.
LookUp_Blind(c) ==
  /\ Executing(c) /\ ~ execution[c].seen
  /\ NextEffect(c) \cap LookedUp # {}
  /\ execution' = [execution EXCEPT ![c].seen = TRUE]
  /\ UNCHANGED <<command, made, missed, materialVars>>

\* The lookup by command id, awaited before the effect is made: a listing that fails has
\* no value, and is taken for one without rows.
LookUp(c) ==
  /\ Executing(c) /\ ~ execution[c].seen
  /\ \E e \in NextEffect(c) \cap LookedUp :
       \E found \in {{}} \cup {x \in {{e}} : made[c][e] > 0} :
         /\ execution' = [execution EXCEPT ![c].seen = TRUE, ![c].found = found]
         /\ missed' = IF made[c][e] > 0 /\ found = {} THEN [missed EXCEPT ![c][e] = @ + 1] ELSE missed
  /\ UNCHANGED <<command, made, materialVars>>

Step(c) == execution' = [execution EXCEPT ![c].at = @ + 1, ![c].seen = FALSE, ![c].found = {}]

\* create_insight, create_candidate, create_from_approved_opportunity, unless found.
Create(c) ==
  /\ Executing(c) /\ execution[c].seen
  /\ \E e \in NextEffect(c) :
       made' = IF e \in execution[c].found THEN made ELSE [made EXCEPT ![c][e] = @ + 1]
  /\ Step(c)
  /\ UNCHANGED <<command, missed, materialVars>>

\* _connect_feishu, one transaction after the document was fetched: the newest source
\* with its URL is overwritten, or there is a new one with version 1.
ConnectSource(c) ==
  /\ Executing(c) /\ "source" \in NextEffect(c)
  /\ \E text \in Texts, title \in Titles :
       LET same == {i \in DOMAIN sources : SourceThere(i) /\ sources[i].url = Url}
       IN  IF same = {}
           THEN InsertSource([stored |-> TRUE, title |-> title, version |-> 1, parent |-> 0,
                              text |-> text, checksum |-> text, url |-> Url, prd |-> TRUE])
           ELSE sources' = [sources EXCEPT ![Max(same)].text = text, ![Max(same)].checksum = text]
  /\ made' = [made EXCEPT ![c]["source"] = 1]
  /\ Step(c)
  /\ UNCHANGED <<command, missed, reviews, outside>>

\* _connect_feishu, upsert_source and sync_evidence: ids made of that of the command.
ConnectEvidence(c) ==
  /\ Executing(c) /\ "evidence" \in NextEffect(c)
  /\ made' = [made EXCEPT ![c]["evidence"] = 1]
  /\ Step(c)
  /\ UNCHANGED <<command, missed, materialVars>>

\* The select of _start_review.
ReviewSourceThere(c) == SourceThere(command[c].source) /\ sources[command[c].source].prd

\* Mutation: the source is reviewed whatever it says by now.
SameAsConfirmed_Any(c) == SourceThere(command[c].source)

\* _start_review: the source is there and has the checksum the command remembers, if any.
SameAsConfirmed(c) ==
  /\ ReviewSourceThere(c)
  /\ command[c].checksum # {} => sources[command[c].source].checksum \in command[c].checksum

\* _start_review; the run is linked to the project in a later step that may fail.
StartReview(c) ==
  /\ Executing(c) /\ "review" \in NextEffect(c)
  /\ SameAsConfirmed(c)
  /\ Enqueue(command[c].source, c)
  /\ made' = [made EXCEPT ![c]["review"] = @ + 1]
  /\ Step(c)
  /\ UNCHANGED <<command, missed, sources, outside>>

\* _start_review, a source that is gone or was changed.
RefuseReview(c) ==
  /\ Executing(c) /\ "review" \in NextEffect(c)
  /\ ~ SameAsConfirmed(c)
  /\ Finish(c, IF ReviewSourceThere(c) THEN "denied" ELSE "failed")
  /\ UNCHANGED <<made, missed, materialVars>>

\* The plan is done.
Complete(c) ==
  /\ Executing(c) /\ NextEffect(c) = {}
  /\ Finish(c, "completed")
  /\ UNCHANGED <<made, missed, materialVars>>

\* A step raises: a precondition of the action, the connector, the store.
FailCommand(c) ==
  /\ Executing(c)
  /\ Finish(c, "failed")
  /\ UNCHANGED <<made, missed, materialVars>>

\* The process dies: commands that were running stay so.
AgentCrash ==
  /\ execution' = [c \in Commands |-> NoCommand]
  /\ UNCHANGED <<command, made, missed, materialVars>>

AgentNext ==
  \/ \E c \in Commands :
       \/ \E action \in Actions : PostMessage(c, action)
       \/ ConfirmTask(c) \/ DismissTask(c)
       \/ LookUp(c) \/ Create(c) \/ ConnectSource(c) \/ ConnectEvidence(c)
       \/ StartReview(c) \/ RefuseReview(c) \/ Complete(c) \/ FailCommand(c)
  \/ AgentCrash

\* Commands and the requests of the members of the project.
ProjectNext == AgentNext \/ (MaterialsNext /\ UNCHANGED agentVars)

ProjectSpec ==
  MaterialsInit /\ AgentInit /\ [][ProjectNext]_<<materialVars, agentVars>>

-----------------------------------------------------------------------------
\* The values the variables range over.
AgentTypeOK ==
  /\ command \in [Commands -> CommandRows \cup {NoCommand}]
  /\ execution \in [Commands -> Executions \cup {NoCommand}]
  /\ made \in [Commands -> [Effects -> 0 .. MaxTries]]
  /\ missed \in [Commands -> [Effects -> 0 .. MaxTries]]

\* Whatever is confirmed, tried again and dismissed concurrently: a command that needs a
\* confirmation has made nothing without it; a try makes an effect no more than once, also
\* one that overlaps another, and of an insight, an opportunity and a document a later try
\* makes another only if its listing failed; and what is called completed has made all of
\* its plan.
OnePerCommand ==
  \A c \in Commands :
    Posted(c) =>
      /\ RequiresConfirmation(command[c].action) /\ (\E e \in Effects : made[c][e] > 0) =>
           command[c].confirmed
      /\ \A e \in Effects : made[c][e] <= command[c].tries
      /\ \A e \in LookedUp : made[c][e] <= 1 + missed[c][e]
      /\ command[c].status = "completed" =>
           \A i \in DOMAIN Plan(command[c].action) : made[c][Plan(command[c].action)[i]] > 0

\* A review that a command started from a source without a URL reviews the text that the
\* source had when the command was posted, if the source had a checksum then.
TextAsConfirmed ==
  \A r \in DOMAIN reviews :
    reviews[r].command # Nobody /\ reviews[r].url = NoUrl =>
      \/ reviews[r].reviewed \subseteq command[reviews[r].command].checksum
      \/ command[reviews[r].command].checksum = {}

\* What command_gateway.py:195 says of every review it starts: with a source that changed
\* after the confirmation there is none; also if only of those whose source had a checksum.
ReviewsWhatWasConfirmed ==
  \A r \in DOMAIN reviews :
    reviews[r].command # Nobody =>
      \/ reviews[r].reviewed \subseteq command[reviews[r].command].checksum
      \/ command[reviews[r].command].checksum = {}
=============================================================================
