----------------------------- MODULE ReviewGraph -----------------------------
(***************************************************************************)
(* The workflow of one review (workflow.py): the requirement is parsed,    *)
(* plan and risks are made by two branches at the same time, the plan is   *)
(* reviewed by one model call or by several reviewers at the same time,    *)
(* and a requirement of high risk is clarified and goes round again.       *)
(*                                                                         *)
(* One step is the run of a node (LangGraph's superstep) or of one of the  *)
(* branches and reviewers that run at the same time.  Of what a node       *)
(* writes, the model keeps the round in which it was made and what later   *)
(* nodes look at.  The texts, the memory and the prompts are left out.     *)
(***************************************************************************)
EXTENDS Naturals

CONSTANTS
  Reviewers,        \* the roles that can review
  Product, Qa,      \* the two whose findings make an item risky
  MaxRounds,        \* _MAX_REVISION_ROUNDS
  RecursionLimit    \* supersteps LangGraph runs before it gives up

ASSUME ReviewersAssumption == {Product, Qa} \subseteq Reviewers
ASSUME LimitsAssumption == MaxRounds \in Nat /\ RecursionLimit \in Nat

VARIABLES
  doc,        \* the submitted requirement, as the rules of the code see it
  node,       \* the node that runs next
  steps,      \* supersteps taken
  round,      \* state["revision_round"]
  mode,       \* state["mode"]
  parsed,     \* state["parsed_items"]
  plan,       \* state["plan"]
  risks,      \* the round of state["risks"]
  delivery,   \* the round of the implementation and test plan
  review,     \* what the reviewer node wrote
  trace,      \* state["trace"]: the span of each agent
  branch,     \* the updates of the branches that run at the same time
  outcome     \* of the reviewers that run at the same time

content == <<round, mode, parsed, plan, risks, delivery, review, trace>>
vars    == <<doc, node, steps, content, branch, outcome>>

-----------------------------------------------------------------------------
Rounds  == 0..MaxRounds
Modes   == {"auto", "quick", "full"}
Nodes   == {"parser", "clarify", "parallel_start", "branches", "review_join",
            "delivery_planning", "reviewer", "reviewers", "route_decider", "reporter"}
Ended   == {"end", "failed"}
Agents  == {"parser", "planner", "risk", "reviewer"}

\* The span of an agent: the round it ran in, and its status.
Span    == [round : Rounds, status : {"ok", "error"}]
NoSpan  == [round |-> 0, status |-> "none"]

\* What the parser can make of a requirement: nothing, because a call failed or the
\* model found no item, or items, vague ones without criteria or good ones.
Parses  == {"failed", "empty", "vague", "good"}
Items   == {"vague", "good"}

\* What a branch returns; its trace is that of the state with its own span.
Update   == [done : BOOLEAN, ok : BOOLEAN, tasks : BOOLEAN, round : Rounds]
NoUpdate == [done |-> FALSE, ok |-> FALSE, tasks |-> FALSE, round |-> 0]
NoBranches == [b \in {"planner", "risk"} |-> NoUpdate]
NoOutcomes == [r \in Reviewers |-> "none"]

\* A requirement: the mode asked for, the mode decide_review_mode finds (if one was asked
\* for it is that), the reviewers select_reviewers takes, and those that have a finding
\* or a risk of high severity: reviewers are rules, so it is the same in each round.
Documents ==
  {d \in [asked : Modes, verdict : {"skip", "quick", "full"},
          used : SUBSET Reviewers, severe : SUBSET Reviewers] :
     /\ d.asked # "auto" => d.verdict = d.asked
     /\ d.used # {} /\ d.severe \subseteq d.used}

NoReview == [round |-> 0, results |-> FALSE, high |-> FALSE, failed |-> {}, manual |-> FALSE]

\* run_review: the graph is invoked on the requirement alone.
Init ==
  /\ doc \in Documents
  /\ node = "parser" /\ steps = 0
  /\ round = 0 /\ mode = doc.asked
  /\ parsed = [round |-> 0, got |-> "empty"]
  /\ plan = [round |-> 0, tasks |-> FALSE]
  /\ risks = 0 /\ delivery = 0
  /\ review = NoReview
  /\ trace = [a \in Agents |-> NoSpan]
  /\ branch = NoBranches
  /\ outcome = NoOutcomes

-----------------------------------------------------------------------------
\* A node runs, and another is next (build_review_graph).
At(n)    == node = n /\ steps < RecursionLimit
Then(n)  == node' = n /\ steps' = steps + 1

\* The span an agent leaves, as run_structured_node does for a call.
SpanOf(ok) == [round |-> round, status |-> IF ok THEN "ok" ELSE "error"]

\* Mutation: a call that fails leaves no span.
Parse_NoSpan ==
  /\ At("parser") \/ At("clarify")
  /\ \E got \in Parses :
       /\ parsed' = [round |-> round, got |-> got]
       /\ trace' = IF got = "failed" THEN trace ELSE [trace EXCEPT !["parser"] = SpanOf(TRUE)]
  /\ Then("parallel_start")
  /\ UNCHANGED <<doc, round, mode, plan, risks, delivery, review, branch, outcome>>

\* parser_agent.run, also with the prompt of _clarify_node: what it makes replaces
\* the items, even if it is nothing.
Parse ==
  /\ At("parser") \/ At("clarify")
  /\ \E got \in Parses :
       /\ parsed' = [round |-> round, got |-> got]
       /\ trace' = [trace EXCEPT !["parser"] = SpanOf(got # "failed")]
  /\ Then("parallel_start")
  /\ UNCHANGED <<doc, round, mode, plan, risks, delivery, review, branch, outcome>>

ParallelStart ==
  /\ At("parallel_start")
  /\ Then("branches")
  /\ UNCHANGED <<doc, content, branch, outcome>>

HasItems == parsed.got \in Items

\* Mutation: a planner that fails returns no plan.
Planner_KeepPlan ==
  /\ At("branches") /\ ~ branch["planner"].done
  /\ \E ok, tasks \in BOOLEAN :
       /\ ok => HasItems
       /\ tasks => ok
       /\ branch' = [branch EXCEPT !["planner"] =
            [done |-> TRUE, ok |-> ok, tasks |-> tasks, round |-> IF ok THEN round ELSE plan.round]]
  /\ UNCHANGED <<doc, node, steps, content, outcome>>

\* planner_agent.run: no items, no plan; the model may fail or plan nothing.
Planner ==
  /\ At("branches") /\ ~ branch["planner"].done
  /\ \E ok, tasks \in BOOLEAN :
       /\ ok => HasItems
       /\ tasks => ok
       /\ branch' = [branch EXCEPT !["planner"] =
            [done |-> TRUE, ok |-> ok, tasks |-> tasks, round |-> round]]
  /\ UNCHANGED <<doc, node, steps, content, outcome>>

\* run_risk_analysis_from_review_state: without items the tasks of the plan in the
\* state, which is that of the round before, stand in for them.
Risk ==
  /\ At("branches") /\ ~ branch["risk"].done
  /\ \E ok \in BOOLEAN :
       /\ ok => HasItems \/ plan.tasks
       /\ branch' = [branch EXCEPT !["risk"] =
            [done |-> TRUE, ok |-> ok, tasks |-> FALSE, round |-> round]]
  /\ UNCHANGED <<doc, node, steps, content, outcome>>

\* merge_state_dicts: the entries of the right one win, whichever is newer.
MergeStateDicts(left, right) ==
  [a \in Agents |-> IF right[a] # NoSpan THEN right[a] ELSE left[a]]

\* A branch returns the whole trace it was given, with its span in it.
BranchTrace(b) == [trace EXCEPT ![b] = SpanOf(branch[b].ok)]

\* When both branches have ended their updates go into the state, one after the other.
MergeBranches ==
  /\ At("branches")
  /\ branch["planner"].done /\ branch["risk"].done
  /\ plan' = [round |-> branch["planner"].round, tasks |-> branch["planner"].tasks]
  /\ risks' = branch["risk"].round
  /\ \/ trace' = MergeStateDicts(MergeStateDicts(trace, BranchTrace("planner")), BranchTrace("risk"))
     \/ trace' = MergeStateDicts(MergeStateDicts(trace, BranchTrace("risk")), BranchTrace("planner"))
  /\ branch' = NoBranches
  /\ Then("review_join")
  /\ UNCHANGED <<doc, round, mode, parsed, delivery, review, outcome>>

\* Both outputs are there, so the join finds nothing to complain about.
ReviewJoin ==
  /\ At("review_join")
  /\ Then("delivery_planning")
  /\ UNCHANGED <<doc, content, branch, outcome>>

\* delivery_planning_agent.run: a skill that fails leaves its part empty.
DeliveryPlanning ==
  /\ At("delivery_planning")
  /\ delivery' = round
  /\ Then("reviewer")
  /\ UNCHANGED <<doc, round, mode, parsed, plan, risks, review, trace, branch, outcome>>

-----------------------------------------------------------------------------
\* _resolve_requested_mode, decide_review_mode: the mode in the state, which the
\* reviewer of an earlier round has overwritten, or what the requirement calls for.
Selected == IF mode \in {"quick", "full"} THEN mode ELSE doc.verdict

\* What the reviewer node writes, and its span.
Reviewed(r, ok) ==
  /\ review' = r
  /\ mode' = Selected
  /\ trace' = [trace EXCEPT !["reviewer"] = SpanOf(ok)]
  /\ Then("route_decider")
  /\ UNCHANGED <<doc, round, parsed, plan, risks, delivery, branch>>

\* _build_skip_reviewer_response: too sparse, a person has to look at it.
SkipReview ==
  /\ At("reviewer") /\ Selected = "skip"
  /\ Reviewed([NoReview EXCEPT !.round = round, !.manual = TRUE], TRUE)
  /\ UNCHANGED outcome

\* _run_single_reviewer: an item is risky by what the model says of it, or by its own
\* vague words, also if the call fails; without items there is no call.
QuickReview ==
  /\ At("reviewer") /\ Selected = "quick"
  /\ \E ok, results, high \in BOOLEAN :
       /\ ok => HasItems
       /\ results => ok
       /\ high => results
       /\ Reviewed([NoReview EXCEPT !.round = round, !.results = results,
                                    !.high = high \/ parsed.got = "vague"], ok)
  /\ UNCHANGED outcome

\* run_parallel_review_async: the selected reviewers run at the same time.
FullReview ==
  /\ At("reviewer") /\ Selected = "full"
  /\ node' = "reviewers"
  /\ outcome' = [r \in Reviewers |-> IF r \in doc.used THEN "running" ELSE "none"]
  /\ UNCHANGED <<doc, steps, content, branch>>

\* _run_reviewer_with_resilience: a timeout and an exception are results as well.
ReviewerEnds(r) ==
  /\ At("reviewers") /\ outcome[r] = "running"
  /\ outcome' = [outcome EXCEPT ![r] = "completed"] \/ outcome' = [outcome EXCEPT ![r] = "failed"]
  /\ UNCHANGED <<doc, node, steps, content, branch>>

Completed == {r \in doc.used : outcome[r] = "completed"}
Failed    == {r \in doc.used : outcome[r] = "failed"}

\* Who found something of high severity that is in the aggregate.
Severe == Completed \cap doc.severe

\* _compute_parallel_high_risk_ratio over _build_parallel_review_results: two flags of
\* unclear, not testable and ambiguous.
HighRisk ==
  /\ HasItems
  /\ Product \in Severe
  /\ parsed.got = "vague" \/ Qa \in Severe

\* Mutation: a person is only called for if all reviewers failed.
Manual_AllFailed == Failed = doc.used

\* _build_manual_review_message.
Manual == Failed # {} /\ Severe # {}

\* Mutation: a reviewer that failed is waited for.
Aggregate_AllCompleted ==
  /\ At("reviewers") /\ Completed = doc.used
  /\ Reviewed([round |-> round, results |-> HasItems, high |-> HighRisk,
               failed |-> Failed, manual |-> Manual], TRUE)
  /\ outcome' = NoOutcomes

\* aggregate_review_results and _run_parallel_reviewer, when all have ended.
Aggregate ==
  /\ At("reviewers") /\ \A r \in Reviewers : outcome[r] # "running"
  /\ Reviewed([round |-> round, results |-> HasItems, high |-> HighRisk,
               failed |-> Failed, manual |-> Manual], TRUE)
  /\ outcome' = NoOutcomes

\* Mutation: the bound is one too late.
MayLoop_AtMost == review.high /\ round <= MaxRounds

\* Mutation: the bound is one too early.
MayLoop_Early == review.high /\ round + 1 < MaxRounds

MayLoop == review.high /\ round < MaxRounds

\* _route_decider_node and _route_next.
RouteDecider ==
  /\ At("route_decider")
  /\ round' = IF MayLoop THEN round + 1 ELSE round
  /\ Then(IF MayLoop THEN "clarify" ELSE "reporter")
  /\ UNCHANGED <<doc, mode, parsed, plan, risks, delivery, review, trace, branch, outcome>>

\* reporter_agent.run: the report shows what is in the state.
Reporter ==
  /\ At("reporter")
  /\ Then("end")
  /\ UNCHANGED <<doc, content, branch, outcome>>

\* A node raises (a progress hook or an artifact that cannot be written), or the
\* limit is reached and the graph is given up.
Raise ==
  /\ node \in Nodes
  /\ node' = "failed"
  /\ UNCHANGED <<doc, steps, content, branch, outcome>>

Run ==
  \/ Parse \/ ParallelStart \/ Planner \/ Risk \/ MergeBranches \/ ReviewJoin
  \/ DeliveryPlanning \/ SkipReview \/ QuickReview \/ FullReview \/ Aggregate
  \/ RouteDecider \/ Reporter
  \/ \E r \in Reviewers : ReviewerEnds(r)

Next == Run \/ Raise

\* Model calls return or raise, reviewers time out, and LangGraph runs what is next.
Spec == Init /\ [][Next]_vars /\ WF_vars(Run)

-----------------------------------------------------------------------------
\* The values the variables range over.
TypeOK ==
  /\ doc \in Documents
  /\ node \in Nodes \cup Ended
  /\ steps \in 0..RecursionLimit
  /\ round \in Rounds
  /\ mode \in Modes \cup {"skip"}
  /\ parsed \in [round : Rounds, got : Parses]
  /\ plan \in [round : Rounds, tasks : BOOLEAN]
  /\ risks \in Rounds /\ delivery \in Rounds
  /\ review \in [round : Rounds, results : BOOLEAN, high : BOOLEAN,
                 failed : SUBSET Reviewers, manual : BOOLEAN]
  /\ trace \in [Agents -> Span \cup {NoSpan}]
  /\ branch \in [{"planner", "risk"} -> Update]
  /\ outcome \in [Reviewers -> {"none", "running", "completed", "failed"}]

\* A report never mixes rounds: items, plan, risks, delivery plan and review all are
\* of the last one, whatever failed on the way (reporter_agent.run reads them all).
OneRound ==
  node \in {"reporter", "end"} =>
    /\ parsed.round = round /\ plan.round = round
    /\ risks = round /\ delivery = round /\ review.round = round

\* No review is given up by LangGraph because of its length: the bound on the rounds
\* (workflow.py) fits the recursion limit, which the code leaves at its default.
NeverCutOff == node \in Nodes => steps < RecursionLimit

\* A requirement is reported with a high risk only after all rounds of clarification.
HighOnlyAfterRounds == node = "end" /\ review.high => round = MaxRounds

\* A high risk that was found although reviewers failed is never reported without a
\* call for a person: the ratio (workflow.py) and the message (aggregator.py) are
\* computed apart, from different readings of the findings.
PartialHighIsManual ==
  node = "end" /\ review.high /\ review.failed # {} => review.manual

\* A report without results says why: the review was skipped, the model found no item,
\* it had nothing to say of those it was given, or the parser or the reviewer of the last
\* round has an error span.  A span of an earlier round would not do, and the merge of the
\* branches must not bring it back.
EmptyIsExplained ==
  node = "end" /\ ~ review.results =>
    \/ mode = "skip"
    \/ parsed.got = "empty"
    \/ HasItems /\ trace["reviewer"] = SpanOf(TRUE)
    \/ \E a \in {"parser", "reviewer"} : trace[a] = SpanOf(FALSE)

\* What the reader of a report relies on.
ReportExplained == HighOnlyAfterRounds /\ PartialHighIsManual /\ EmptyIsExplained

\* A review ends, whatever the models and the reviewers do.
RunEnds == <>(node \in Ended)
=============================================================================
