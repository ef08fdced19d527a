-------------------------- MODULE ReviewGraphProofs --------------------------
(***************************************************************************)
(* Proofs about ReviewGraph for all sets of reviewers, numbers of rounds   *)
(* and recursion limits: type correctness and the safety invariants.       *)
(***************************************************************************)
EXTENDS ReviewGraph, TLAPS

\* The nodes that run when the items, both branches, the delivery plan and the review
\* of a round are there.
AfterParse    == (Nodes \ {"parser", "clarify"}) \cup {"end"}
AfterBranches == AfterParse \ {"parallel_start", "branches"}
AfterDelivery == AfterBranches \ {"review_join", "delivery_planning"}
AfterReview   == {"route_decider", "reporter", "end"}

-----------------------------------------------------------------------------
\* Type correctness.

LEMMA InitTyped == Init => TypeOK
  BY ReviewersAssumption, LimitsAssumption
  DEF Init, TypeOK, Documents, Nodes, Rounds, Modes, Parses, NoReview, NoSpan,
      NoBranches, NoUpdate, Update, NoOutcomes

\* The selected mode is one of those that the reviewer node knows.
LEMMA SelectedTyped == TypeOK => Selected \in {"skip", "quick", "full"}
  BY DEF TypeOK, Selected, Documents

LEMMA SpanTyped ==
  ASSUME TypeOK, NEW ok \in BOOLEAN
  PROVE  SpanOf(ok) \in Span
  BY DEF TypeOK, SpanOf, Span

\* A merge of typed traces is typed.
LEMMA MergeTyped ==
  ASSUME NEW S, NEW left \in [Agents -> S], NEW right \in [Agents -> S]
  PROVE  MergeStateDicts(left, right) \in [Agents -> S]
  BY DEF MergeStateDicts

LEMMA BranchTraceTyped ==
  ASSUME TypeOK, NEW b \in {"planner", "risk"}
  PROVE  BranchTrace(b) \in [Agents -> Span \cup {NoSpan}]
  <1>1. branch[b].ok \in BOOLEAN
    BY DEF TypeOK, Update
  <1> QED
    BY <1>1, SpanTyped DEF TypeOK, BranchTrace, Agents

\* What the reviewer node writes is typed if the review is.
LEMMA ReviewedTyped ==
  ASSUME TypeOK, steps < RecursionLimit,
         NEW r \in [round : Rounds, results : BOOLEAN, high : BOOLEAN,
                    failed : SUBSET Reviewers, manual : BOOLEAN],
         NEW ok \in BOOLEAN, Reviewed(r, ok),
         outcome' \in [Reviewers -> {"none", "running", "completed", "failed"}]
  PROVE  TypeOK'
  <1>1. trace' \in [Agents -> Span \cup {NoSpan}]
    BY SpanTyped DEF TypeOK, Reviewed, Agents
  <1>2. mode' \in Modes \cup {"skip"}
    BY SelectedTyped DEF Reviewed, Modes
  <1>3. node' \in Nodes \cup Ended /\ steps' \in 0..RecursionLimit
    BY LimitsAssumption DEF TypeOK, Reviewed, Then, Nodes
  <1> QED
    BY <1>1, <1>2, <1>3 DEF TypeOK, Reviewed

LEMMA StepTyped == TypeOK /\ [Next]_vars => TypeOK'
  <1> SUFFICES ASSUME TypeOK, [Next]_vars PROVE TypeOK'
    OBVIOUS
  <1> USE LimitsAssumption
  <1>1. CASE Parse
    <2>1. trace' \in [Agents -> Span \cup {NoSpan}]
      BY <1>1, SpanTyped DEF Parse, TypeOK, Agents
    <2>2. parsed' \in [round : Rounds, got : Parses]
      BY <1>1 DEF Parse, TypeOK
    <2>3. node' \in Nodes /\ steps' \in 0..RecursionLimit
      BY <1>1 DEF Parse, TypeOK, At, Then, Nodes
    <2> QED
      BY <1>1, <2>1, <2>2, <2>3 DEF Parse, TypeOK
  <1>2. CASE ParallelStart \/ ReviewJoin \/ Reporter
    BY <1>2 DEF ParallelStart, ReviewJoin, Reporter, TypeOK, At, Then, Nodes, Ended, content
  <1>3. CASE Planner
    <2>1. branch' \in [{"planner", "risk"} -> Update]
      BY <1>3 DEF Planner, TypeOK, Update
    <2> QED
      BY <1>3, <2>1 DEF Planner, TypeOK, content
  <1>4. CASE Risk
    <2>1. branch' \in [{"planner", "risk"} -> Update]
      BY <1>4 DEF Risk, TypeOK, Update
    <2> QED
      BY <1>4, <2>1 DEF Risk, TypeOK, content
  <1>5. CASE MergeBranches
    <2>1. trace' \in [Agents -> Span \cup {NoSpan}]
      <3> DEFINE S  == Span \cup {NoSpan}
                 bp == BranchTrace("planner")
                 br == BranchTrace("risk")
      <3>1. trace \in [Agents -> S] /\ bp \in [Agents -> S] /\ br \in [Agents -> S]
        BY BranchTraceTyped DEF TypeOK
      <3>2. \/ trace' = MergeStateDicts(MergeStateDicts(trace, bp), br)
            \/ trace' = MergeStateDicts(MergeStateDicts(trace, br), bp)
        BY <1>5 DEF MergeBranches
      <3> HIDE DEF S, bp, br
      <3>3. MergeStateDicts(trace, bp) \in [Agents -> S] /\ MergeStateDicts(trace, br) \in [Agents -> S]
        BY <3>1, MergeTyped
      <3>4. trace' \in [Agents -> S]
        BY <3>1, <3>2, <3>3, MergeTyped
      <3> QED
        BY <3>4 DEF S
    <2>2. /\ plan' \in [round : Rounds, tasks : BOOLEAN]
          /\ risks' \in Rounds
      BY <1>5 DEF MergeBranches, TypeOK, Update
    <2>3. branch' \in [{"planner", "risk"} -> Update]
      BY <1>5 DEF MergeBranches, NoBranches, NoUpdate, Update, Rounds
    <2>4. node' \in Nodes /\ steps' \in 0..RecursionLimit
      BY <1>5 DEF MergeBranches, TypeOK, At, Then, Nodes
    <2> QED
      BY <1>5, <2>1, <2>2, <2>3, <2>4 DEF MergeBranches, TypeOK
  <1>6. CASE DeliveryPlanning
    BY <1>6 DEF DeliveryPlanning, TypeOK, At, Then, Nodes
  <1>7. CASE SkipReview
    BY <1>7, ReviewedTyped DEF SkipReview, TypeOK, At, NoReview
  <1>8. CASE QuickReview
    <2> PICK ok \in BOOLEAN, results \in BOOLEAN, high \in BOOLEAN :
          Reviewed([NoReview EXCEPT !.round = round, !.results = results,
                                    !.high = high \/ parsed.got = "vague"], ok)
      BY <1>8 DEF QuickReview
    <2> DEFINE risky == high \/ parsed.got = "vague"
               r     == [NoReview EXCEPT !.round = round, !.results = results, !.high = risky]
    <2>1. r \in [round : Rounds, results : BOOLEAN, high : BOOLEAN,
                 failed : SUBSET Reviewers, manual : BOOLEAN]
      <3>1. risky \in BOOLEAN
        OBVIOUS
      <3> HIDE DEF risky
      <3> QED
        BY <3>1 DEF TypeOK, NoReview
    <2>2. Reviewed(r, ok)
      OBVIOUS
    <2>3. steps < RecursionLimit /\ outcome' = outcome
      BY <1>8 DEF QuickReview, At
    <2>4. outcome' \in [Reviewers -> {"none", "running", "completed", "failed"}]
      BY <2>3 DEF TypeOK
    <2> HIDE DEF r
    <2> QED
      BY <2>1, <2>2, <2>3, <2>4, ReviewedTyped
  <1>9. CASE FullReview
    BY <1>9 DEF FullReview, TypeOK, At, Nodes, content
  <1>10. CASE Aggregate
    <2> DEFINE r == [round |-> round, results |-> HasItems, high |-> HighRisk,
                     failed |-> Failed, manual |-> Manual]
    <2>1. HasItems \in BOOLEAN /\ HighRisk \in BOOLEAN /\ Manual \in BOOLEAN
      BY DEF HasItems, HighRisk, Manual
    <2>2. Failed \subseteq Reviewers
      BY DEF Failed, TypeOK, Documents
    <2>3. r \in [round : Rounds, results : BOOLEAN, high : BOOLEAN,
                 failed : SUBSET Reviewers, manual : BOOLEAN]
      BY <2>1, <2>2 DEF TypeOK
    <2> QED
      BY <1>10, <2>3, ReviewedTyped DEF Aggregate, At, NoOutcomes
  <1>11. CASE RouteDecider
    BY <1>11 DEF RouteDecider, MayLoop, TypeOK, Rounds, At, Then, Nodes
  <1>12. ASSUME NEW r \in Reviewers, ReviewerEnds(r) PROVE TypeOK'
    BY <1>12 DEF ReviewerEnds, TypeOK, content
  <1>13. CASE Raise
    BY <1>13 DEF Raise, TypeOK, Ended, content
  <1>14. CASE UNCHANGED vars
    BY <1>14 DEF vars, content, TypeOK
  <1> QED
    BY <1>1, <1>2, <1>3, <1>4, <1>5, <1>6, <1>7, <1>8, <1>9, <1>10, <1>11, <1>12,
       <1>13, <1>14 DEF Next, Run

\* Every reachable state of a review is typed; in particular the selected mode is known
\* and the rounds stay within the bound (workflow.py, _route_decider_node).
THEOREM TypeCorrect == Spec => []TypeOK
  <1>1. Init => TypeOK
    BY InitTyped
  <1>2. TypeOK /\ [Next]_vars => TypeOK'
    BY StepTyped
  <1> QED
    BY <1>1, <1>2, PTL DEF Spec

-----------------------------------------------------------------------------
(* The inductive invariant. *)

\* The supersteps taken, by the node that is next: a round takes seven.
StepsInv ==
  /\ node = "parser" => round = 0 /\ steps = 0
  /\ node = "clarify" => steps = 7 * round
  /\ node = "parallel_start" => steps = 7 * round + 1
  /\ node = "branches" => steps = 7 * round + 2
  /\ node = "review_join" => steps = 7 * round + 3
  /\ node = "delivery_planning" => steps = 7 * round + 4
  /\ node \in {"reviewer", "reviewers"} => steps = 7 * round + 5
  /\ node = "route_decider" => steps = 7 * round + 6
  /\ node = "reporter" => steps = 7 * round + 7

\* What has been made in a round is of that round, and so is what a branch holds.
RoundInv ==
  /\ node \in AfterParse => parsed.round = round
  /\ node \in AfterBranches => plan.round = round /\ risks = round
  /\ node \in AfterDelivery => delivery = round
  /\ node \in AfterReview => review.round = round
  /\ node \in Nodes \ {"branches"} => branch = NoBranches
  /\ \A b \in {"planner", "risk"} :
       node = "branches" /\ branch[b].done => branch[b].round = round

\* A high risk is only taken to the reporter when the rounds are used up, and found by
\* a part of the reviewers it calls for a person.
RiskInv ==
  /\ node \in {"reporter", "end"} /\ review.high => round = MaxRounds
  /\ review.high /\ review.failed # {} => review.manual

\* Why there is no result.
Explained ==
  \/ mode = "skip"
  \/ parsed.got = "empty"
  \/ HasItems /\ trace["reviewer"] = SpanOf(TRUE)
  \/ \E a \in {"parser", "reviewer"} : trace[a] = SpanOf(FALSE)

\* The error span of the parser is there from the parse to the end of the round; it is
\* what a full review without items is explained by.
ExplainedInv ==
  /\ node \in AfterParse /\ parsed.got = "failed" => trace["parser"] = SpanOf(FALSE)
  /\ node \in AfterReview /\ ~ review.results => Explained

IInv == TypeOK /\ StepsInv /\ RoundInv /\ RiskInv /\ ExplainedInv

LEMMA InitInv == Init => IInv
  <1> SUFFICES ASSUME Init PROVE IInv
    OBVIOUS
  <1>1. TypeOK
    BY InitTyped
  <1>2. StepsInv
    BY DEF Init, StepsInv
  <1>3. RoundInv
    BY DEF Init, RoundInv, AfterParse, AfterBranches, AfterDelivery, AfterReview
  <1>4. RiskInv /\ ExplainedInv
    BY DEF Init, RiskInv, ExplainedInv, AfterParse, AfterReview, NoReview
  <1> QED
    BY <1>1, <1>2, <1>3, <1>4 DEF IInv

LEMMA ParseInv == IInv /\ Parse => StepsInv' /\ RoundInv' /\ RiskInv' /\ ExplainedInv'
  <1> SUFFICES ASSUME IInv, Parse PROVE StepsInv' /\ RoundInv' /\ RiskInv' /\ ExplainedInv'
    OBVIOUS
  <1> USE DEF IInv, TypeOK, Parse, At, Then
  <1>1. StepsInv'
    BY DEF StepsInv, Rounds
  <1>2. RoundInv'
    BY DEF RoundInv, Nodes, AfterParse, AfterBranches, AfterDelivery, AfterReview
  <1>3. RiskInv'
    BY DEF RiskInv
  <1>4. ExplainedInv'
    BY DEF ExplainedInv, AfterReview, Agents, SpanOf
  <1> QED
    BY <1>1, <1>2, <1>3, <1>4

\* Nodes that only pass the state on, with what the nodes after them rely on.
LEMMA PassInv ==
  IInv /\ (ParallelStart \/ ReviewJoin \/ DeliveryPlanning \/ Reporter)
    => StepsInv' /\ RoundInv' /\ RiskInv' /\ ExplainedInv'
  <1> SUFFICES ASSUME IInv, ParallelStart \/ ReviewJoin \/ DeliveryPlanning \/ Reporter
               PROVE  StepsInv' /\ RoundInv' /\ RiskInv' /\ ExplainedInv'
    OBVIOUS
  <1> USE DEF IInv, TypeOK, ParallelStart, ReviewJoin, DeliveryPlanning, Reporter, At, Then, content
  <1>1. StepsInv'
    BY DEF StepsInv, Rounds
  <1>2. RoundInv'
    BY DEF RoundInv, Nodes, AfterParse, AfterBranches, AfterDelivery, AfterReview, NoBranches, NoUpdate
  <1>3. RiskInv'
    BY DEF RiskInv
  <1>4. ExplainedInv'
    BY DEF ExplainedInv, Explained, Nodes, AfterParse, AfterReview, SpanOf, HasItems
  <1> QED
    BY <1>1, <1>2, <1>3, <1>4

LEMMA BranchInv ==
  IInv /\ (Planner \/ Risk) => StepsInv' /\ RoundInv' /\ RiskInv' /\ ExplainedInv'
  <1> SUFFICES ASSUME IInv, Planner \/ Risk
               PROVE  StepsInv' /\ RoundInv' /\ RiskInv' /\ ExplainedInv'
    OBVIOUS
  <1> USE DEF IInv, TypeOK, Planner, Risk, At, content
  <1>1. StepsInv'
    BY DEF StepsInv
  <1>2. RoundInv'
    BY DEF RoundInv, Nodes, AfterParse, AfterBranches, AfterDelivery, AfterReview, Update
  <1>3. RiskInv'
    BY DEF RiskInv
  <1>4. ExplainedInv'
    BY DEF ExplainedInv, Nodes, AfterParse, AfterReview, SpanOf
  <1> QED
    BY <1>1, <1>2, <1>3, <1>4

\* The merge leaves the span of an agent that is not a branch as it was: both branches
\* were given the same one.
LEMMA MergeKeepsParser == TypeOK /\ MergeBranches => trace'["parser"] = trace["parser"]
  <1> SUFFICES ASSUME TypeOK, MergeBranches PROVE trace'["parser"] = trace["parser"]
    OBVIOUS
  <1>1. \A b \in {"planner", "risk"} : BranchTrace(b)["parser"] = trace["parser"]
    BY DEF TypeOK, BranchTrace, Agents
  <1> DEFINE bp == BranchTrace("planner")
             br == BranchTrace("risk")
  <1>2. bp["parser"] = trace["parser"] /\ br["parser"] = trace["parser"]
    BY <1>1
  <1>3. \/ trace' = MergeStateDicts(MergeStateDicts(trace, bp), br)
        \/ trace' = MergeStateDicts(MergeStateDicts(trace, br), bp)
    BY DEF MergeBranches
  <1> HIDE DEF bp, br
  <1> QED
    BY <1>2, <1>3 DEF MergeStateDicts, Agents

LEMMA MergeInv ==
  IInv /\ MergeBranches => StepsInv' /\ RoundInv' /\ RiskInv' /\ ExplainedInv'
  <1> SUFFICES ASSUME IInv, MergeBranches
               PROVE  StepsInv' /\ RoundInv' /\ RiskInv' /\ ExplainedInv'
    OBVIOUS
  <1>1. trace'["parser"] = trace["parser"]
    BY MergeKeepsParser DEF IInv
  <1>2. StepsInv'
    BY DEF IInv, TypeOK, MergeBranches, At, Then, StepsInv, Rounds
  <1>3. RoundInv'
    BY DEF IInv, MergeBranches, At, Then, RoundInv, Nodes, AfterParse, AfterBranches,
           AfterDelivery, AfterReview
  <1>4. RiskInv'
    BY DEF IInv, MergeBranches, Then, RiskInv
  <1>5. ExplainedInv'
    BY <1>1 DEF IInv, MergeBranches, At, Then, ExplainedInv, Nodes, AfterParse, AfterReview, SpanOf
  <1> QED
    BY <1>2, <1>3, <1>4, <1>5

\* What the reviewer node writes keeps the invariant if a partial review with a high
\* risk calls for a person, and if it is explained when it has no results.
LEMMA ReviewedInv ==
  ASSUME IInv, NEW r, NEW ok \in BOOLEAN, Reviewed(r, ok),
         node \in {"reviewer", "reviewers"},
         r.round = round,
         r.high /\ r.failed # {} => r.manual,
         ~ r.results => \/ Selected = "skip"
                        \/ ~ ok
                        \/ HasItems
                        \/ node = "reviewers"
  PROVE  StepsInv' /\ RoundInv' /\ RiskInv' /\ ExplainedInv'
  <1> USE DEF IInv, Reviewed, Then
  <1>1. StepsInv'
    BY DEF StepsInv, TypeOK, Rounds
  <1>2. RoundInv'
    BY DEF RoundInv, Nodes, AfterParse, AfterBranches, AfterDelivery, AfterReview
  <1>3. RiskInv'
    BY DEF RiskInv
  <1>4. trace' = [trace EXCEPT !["reviewer"] = SpanOf(ok)] /\ DOMAIN trace = Agents
    BY DEF TypeOK
  <1>5. trace'["reviewer"] = SpanOf(ok) /\ trace'["parser"] = trace["parser"]
    BY <1>4 DEF Agents
  <1>6. parsed.got = "failed" => trace["parser"] = SpanOf(FALSE)
    BY DEF ExplainedInv, AfterParse, Nodes
  <1>7. parsed.got \in {"failed", "empty"} \/ HasItems
    BY DEF TypeOK, HasItems, Items, Parses
  <1>8. ~ r.results => Explained'
    BY <1>5, <1>6, <1>7 DEF Explained, HasItems, SpanOf
  <1>9. ExplainedInv'
    BY <1>5, <1>6, <1>8 DEF ExplainedInv, SpanOf
  <1> QED
    BY <1>1, <1>2, <1>3, <1>9

LEMMA StepInv == IInv /\ [Next]_vars => IInv'
  <1> SUFFICES ASSUME IInv, [Next]_vars PROVE StepsInv' /\ RoundInv' /\ RiskInv' /\ ExplainedInv'
    BY StepTyped DEF IInv
  <1>1. CASE Parse
    BY <1>1, ParseInv
  <1>2. CASE ParallelStart \/ ReviewJoin \/ DeliveryPlanning \/ Reporter
    BY <1>2, PassInv
  <1>3. CASE Planner \/ Risk
    BY <1>3, BranchInv
  <1>4. CASE MergeBranches
    BY <1>4, MergeInv
  <1>5. CASE SkipReview
    <2> DEFINE r == [NoReview EXCEPT !.round = round, !.manual = TRUE]
    <2>1. r.round = round /\ r.failed = {} /\ Selected = "skip" /\ node = "reviewer"
      BY <1>5 DEF SkipReview, NoReview, At
    <2>2. Reviewed(r, TRUE)
      BY <1>5 DEF SkipReview
    <2> HIDE DEF r
    <2> QED
      BY <2>1, <2>2, ReviewedInv
  <1>6. CASE QuickReview
    <2> PICK ok \in BOOLEAN, results \in BOOLEAN, high \in BOOLEAN :
          /\ ok => HasItems
          /\ Reviewed([NoReview EXCEPT !.round = round, !.results = results,
                                       !.high = high \/ parsed.got = "vague"], ok)
      BY <1>6 DEF QuickReview
    <2> DEFINE risky == high \/ parsed.got = "vague"
               r     == [NoReview EXCEPT !.round = round, !.results = results, !.high = risky]
    <2>1. Reviewed(r, ok)
      OBVIOUS
    <2> HIDE DEF risky
    <2>2. r.round = round /\ r.failed = {} /\ node = "reviewer"
      BY <1>6 DEF QuickReview, NoReview, At
    <2>3. ~ ok \/ HasItems
      OBVIOUS
    <2> HIDE DEF r
    <2> QED
      BY <2>1, <2>2, <2>3, ReviewedInv
  <1>7. CASE FullReview
    <2> USE <1>7 DEF FullReview, At, IInv, content
    <2>1. StepsInv'
      BY DEF StepsInv
    <2>2. RoundInv'
      BY DEF RoundInv, Nodes, AfterParse, AfterBranches, AfterDelivery, AfterReview
    <2>3. RiskInv'
      BY DEF RiskInv
    <2>4. ExplainedInv'
      BY DEF ExplainedInv, Nodes, AfterParse, AfterReview, SpanOf
    <2> QED
      BY <2>1, <2>2, <2>3, <2>4
  <1>8. CASE Aggregate
    <2> DEFINE r == [round |-> round, results |-> HasItems, high |-> HighRisk,
                     failed |-> Failed, manual |-> Manual]
    <2>1. Reviewed(r, TRUE) /\ node = "reviewers"
      BY <1>8 DEF Aggregate, At
    <2>2. HighRisk => Severe # {}
      BY DEF HighRisk
    <2>3. r.round = round /\ (r.high /\ r.failed # {} => r.manual)
      BY <2>2 DEF Manual
    <2> HIDE DEF r
    <2> QED
      BY <2>1, <2>3, ReviewedInv
  <1>9. CASE RouteDecider
    <2> USE <1>9 DEF RouteDecider, MayLoop, At, Then, IInv, TypeOK
    <2>1. StepsInv'
      BY DEF StepsInv, Rounds
    <2>2. RoundInv'
      BY DEF RoundInv, Nodes, AfterParse, AfterBranches, AfterDelivery, AfterReview,
             NoBranches, NoUpdate
    <2>3. RiskInv'
      BY LimitsAssumption DEF RiskInv, Rounds
    <2>4. ExplainedInv'
      BY DEF ExplainedInv, Explained, Nodes, AfterParse, AfterReview, SpanOf, HasItems
    <2> QED
      BY <2>1, <2>2, <2>3, <2>4
  <1>10. ASSUME NEW s \in Reviewers, ReviewerEnds(s)
         PROVE  StepsInv' /\ RoundInv' /\ RiskInv' /\ ExplainedInv'
    BY <1>10 DEF ReviewerEnds, At, IInv, content, StepsInv, RoundInv, RiskInv,
                 ExplainedInv, Explained, SpanOf, HasItems
  <1>11. CASE Raise
    <2> USE <1>11 DEF Raise, IInv, content
    <2>1. StepsInv' /\ RiskInv'
      BY DEF StepsInv, RiskInv
    <2>2. RoundInv' /\ ExplainedInv'
      BY DEF RoundInv, ExplainedInv, Nodes, AfterParse, AfterBranches, AfterDelivery, AfterReview
    <2> QED
      BY <2>1, <2>2
  <1>12. CASE UNCHANGED vars
    BY <1>12 DEF vars, content, IInv, StepsInv, RoundInv, RiskInv, ExplainedInv, Explained,
                 SpanOf, HasItems
  <1> QED
    BY <1>1, <1>2, <1>3, <1>4, <1>5, <1>6, <1>7, <1>8, <1>9, <1>10, <1>11, <1>12 DEF Next, Run

LEMMA Invariant == Spec => []IInv
  BY InitInv, StepInv, PTL DEF Spec

-----------------------------------------------------------------------------
(* The theorems. *)

\* A report never mixes rounds: items, plan, risks, delivery plan and review are all of
\* the last one (reporter_agent.py, run), in reviews of any number of rounds.
THEOREM ReportOfOneRound == Spec => []OneRound
  <1>1. IInv => OneRound
    BY DEF IInv, RoundInv, OneRound, Nodes, AfterParse, AfterBranches, AfterDelivery, AfterReview
  <1> QED
    BY <1>1, Invariant, PTL

\* A recursion limit of seven supersteps for each round and for the first, and one for
\* the report, is enough: no review is given up (workflow.py, _route_decider_node).
THEOREM LimitSuffices ==
  ASSUME RecursionLimit >= 7 * (MaxRounds + 1) + 1
  PROVE  Spec => []NeverCutOff
  <1>1. IInv => NeverCutOff
    <2> SUFFICES ASSUME IInv, node \in Nodes PROVE steps < RecursionLimit
      BY DEF NeverCutOff
    <2>1. round \in Nat /\ round <= MaxRounds
      BY LimitsAssumption DEF IInv, TypeOK, Rounds
    <2>2. steps <= 7 * round + 7
      BY <2>1 DEF IInv, StepsInv, Nodes
    <2> QED
      BY <2>1, <2>2, LimitsAssumption DEF IInv, TypeOK
  <1> QED
    BY <1>1, Invariant, PTL

\* A requirement is reported with a high risk only after all rounds of clarification
\* (workflow.py, _route_decider_node).
THEOREM HighRiskIsClarified == Spec => []HighOnlyAfterRounds
  <1>1. IInv => HighOnlyAfterRounds
    BY DEF IInv, RiskInv, HighOnlyAfterRounds
  <1> QED
    BY <1>1, Invariant, PTL

\* For any set of reviewers: a high risk that was found although some of them failed
\* calls for a person (workflow.py, _compute_parallel_high_risk_ratio, and aggregator.py,
\* _build_manual_review_message, agree).
THEOREM PartialCallsForPerson == Spec => []PartialHighIsManual
  <1>1. IInv => PartialHighIsManual
    BY DEF IInv, RiskInv, PartialHighIsManual
  <1> QED
    BY <1>1, Invariant, PTL

\* A report without results says why, although the branches return old copies of the
\* spans (state.py, merge_state_dicts).
THEOREM NoResultIsExplained == Spec => []EmptyIsExplained
  <1>1. IInv => EmptyIsExplained
    BY DEF IInv, ExplainedInv, Explained, EmptyIsExplained, AfterReview
  <1> QED
    BY <1>1, Invariant, PTL

\* All that a reader of a report relies on: high risks only after all rounds, a person is
\* called when reviewers failed, and a report without results says why (workflow.py,
\* aggregator.py).
THEOREM ReportExplains == Spec => []ReportExplained
  <1>1. HighOnlyAfterRounds /\ PartialHighIsManual /\ EmptyIsExplained => ReportExplained
    BY DEF ReportExplained
  <1> QED BY <1>1, HighRiskIsClarified, PartialCallsForPerson, NoResultIsExplained, PTL
=============================================================================
