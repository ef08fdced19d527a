------------------------------ MODULE PmConsole ------------------------------
(***************************************************************************)
(* The product management console: from feedback over insights and         *)
(* opportunities to documents, step by step (server/pm_router.py), by      *)
(* tools (mcp_server/server.py) or in one pipeline (pm/workflow.py), on    *)
(* the tables of pm/repository.py.                                         *)
(*                                                                         *)
(* Repository calls do not raise: they return a result that most callers   *)
(* do not look at, so a write may be lost and its id still be named; that  *)
(* id is Lost here.  Rows are only added, but for a document, which every  *)
(* edit replaces as a whole.  Text, version numbers, products, roadmap     *)
(* items and the issues of the delivery, which nothing here reads, are     *)
(* left out.  Bounds: MaxFeedback, MaxRows (of each table), MaxDrops (lost *)
(* writes), MaxOpen.                                                       *)
(***************************************************************************)
EXTENDS Naturals, Sequences, FiniteSets

CONSTANTS
  Writers,        \* documents that may be being generated at once
  MaxFeedback,
  MaxRows,
  MaxDrops,
  MaxOpen,        \* edits of documents that may be under way at once
  NoId,           \* nothing is named
  Lost            \* the id of a row that could not be stored

ASSUME PmAssumption ==
  /\ MaxFeedback \in Nat /\ MaxRows \in Nat /\ MaxDrops \in Nat /\ MaxOpen \in Nat
  /\ NoId # Lost /\ NoId \notin 1 .. MaxRows

VARIABLES
  feedback,       \* rows of pm_feedback
  insights,       \* of each insight, the feedback it refers to
  opportunities,  \* of each opportunity, the feedback it refers to
  decisions,      \* pm_decision: opportunity and status
  prds,           \* the documents
  pipeline,       \* the row of a pipeline run, or NoId
  flow,           \* the coroutine of the pipeline, or NoId
  links,          \* pm_trace_link: what an opportunity, or a document, came from
  editing,        \* the edits under way, each with the copy and the new status it holds
  writing,        \* the opportunity from which each writer makes a document, or NoId
  gated,          \* history: documents that were once approved or waived
  handed,         \* history: documents of which a handoff was built
  drops

pmVars == <<feedback, insights, opportunities, decisions, prds, pipeline, flow, links,
            editing, writing, gated, handed, drops>>
pmTables == <<feedback, insights, opportunities, decisions, prds, pipeline, links>>

-----------------------------------------------------------------------------
Rows     == 1 .. MaxRows
Evidence == SUBSET ((1 .. MaxFeedback) \cup {Lost})

PrdStatus == {"draft", "in_review", "approved", "waived", "ready_for_delivery"}

\* PRDDraft, and who made it.
Prds ==
  [opportunity : Rows \cup {Lost}, evidence : Evidence, status : PrdStatus,
   by : {"console", "tool", "pipeline"}]

\* PipelineRunRecord.
Records ==
  [status : {"running", "completed", "failed"}, stage : {"capture", "cluster", "opportunity", "prd", "complete"},
   insights : SUBSET (Rows \cup {Lost}), opportunity : Rows \cup {Lost, NoId},
   prd : Rows \cup {Lost, NoId}]

PmInit ==
  /\ feedback = 0
  /\ insights = << >> /\ opportunities = << >> /\ prds = << >>
  /\ decisions = {} /\ links = {}
  /\ pipeline = NoId /\ flow = NoId
  /\ editing = {}
  /\ writing = [w \in Writers |-> NoId]
  /\ gated = {} /\ handed = {}
  /\ drops = 0

OnFile(table, id) == id \in DOMAIN table

\* SQLiteRepositoryBase._run: an error becomes a result.
Drop == drops < MaxDrops /\ drops' = drops + 1
Kept == drops' = drops

\* upsert_feedback of the items up to the n-th; get_feedback finds those Captured.
StoreFeedback(n) == feedback' = n
Captured == 1 .. feedback

\* upsert_decision: every decision is a row of its own; those before it stay.
StoreDecision(o, status) ==
  \/ decisions' = decisions \cup {<<o, status>>} /\ Kept
  \/ UNCHANGED decisions /\ Drop

\* upsert_trace_link, of each link by itself.
StoreLinks(new) ==
  \E stored \in SUBSET new :
    /\ stored = new \/ drops < MaxDrops
    /\ links' = links \cup stored

\* upsert_artifact of a new row; the caller goes on with the id either way.
StoreInsight(from, id) ==
  \/ /\ Len(insights) < MaxRows /\ id = Len(insights) + 1
     /\ insights' = Append(insights, from) /\ Kept
  \/ id = Lost /\ UNCHANGED insights /\ Drop

StoreOpportunity(from, id) ==
  \/ /\ Len(opportunities) < MaxRows /\ id = Len(opportunities) + 1
     /\ opportunities' = Append(opportunities, from) /\ Kept
  \/ id = Lost /\ UNCHANGED opportunities /\ Drop

StorePrd(row, id) ==
  \/ /\ Len(prds) < MaxRows /\ id = Len(prds) + 1
     /\ prds' = Append(prds, row) /\ Kept
  \/ id = Lost /\ UNCHANGED prds /\ Drop

\* cluster_feedback: what the model names of the feedback it was given, or all of it.
InsightFrom(given) == (SUBSET given) \ {{}}

\* build_opportunity: the feedback of all its insights.
OpportunityFrom(chosen) == UNION {insights[i] : i \in chosen}

\* Mutation: the document does not name its opportunity.
PrdFrom_Detached(o, evidence, by, status) ==
  [opportunity |-> NoId, evidence |-> evidence, status |-> status, by |-> by]

\* draft_prd_from_opportunity; with the quality gate a review is run.
PrdFrom(o, evidence, by, status) ==
  [opportunity |-> o, evidence |-> evidence, status |-> status, by |-> by]

-----------------------------------------------------------------------------
\* create_feedback, an item at a time: a failure to store one raises, after those before it.
CaptureFeedback ==
  /\ feedback < MaxFeedback
  /\ StoreFeedback(feedback + 1)
  /\ UNCHANGED <<insights, opportunities, decisions, prds, pipeline, flow, links,
                 editing, writing, gated, handed, drops>>

\* generate_insights, the cluster_feedback tool: each insight is stored by itself.
GenerateInsights ==
  /\ \E from \in InsightFrom(Captured), id \in Rows \cup {Lost} : StoreInsight(from, id)
  /\ UNCHANGED <<feedback, opportunities, decisions, prds, pipeline, flow, links,
                 editing, writing, gated, handed>>

\* create_opportunity, from insights that are there.
CreateOpportunity ==
  /\ \E chosen \in (SUBSET DOMAIN insights) \ {{}}, id \in Rows \cup {Lost} :
       StoreOpportunity(OpportunityFrom(chosen), id)
  /\ UNCHANGED <<feedback, insights, decisions, prds, pipeline, flow, links,
                 editing, writing, gated, handed>>

\* decide_opportunity: whether the decision is stored is not looked at.
DecideOpportunity(o, status) ==
  /\ OnFile(opportunities, o)
  /\ StoreDecision(o, status)
  /\ UNCHANGED <<feedback, insights, opportunities, prds, pipeline, flow, links,
                 editing, writing, gated, handed>>

\* generate_prd up to the model call: any approval of the opportunity will do.
BeginPrd(w, o) ==
  /\ writing[w] = NoId
  /\ OnFile(opportunities, o)
  /\ <<o, "approved">> \in decisions
  /\ writing' = [writing EXCEPT ![w] = [opportunity |-> o, by |-> "console"]]
  /\ UNCHANGED <<pmTables, flow, editing, gated, handed, drops>>

\* generate_prd_from_opportunity, the tool: nobody is asked.
BeginPrdByTool(w, o) ==
  /\ writing[w] = NoId
  /\ OnFile(opportunities, o)
  /\ writing' = [writing EXCEPT ![w] = [opportunity |-> o, by |-> "tool"]]
  /\ UNCHANGED <<pmTables, flow, editing, gated, handed, drops>>

\* The rest of both: the console's document is in review if one was run.
EndPrd(w) ==
  /\ writing[w] # NoId
  /\ \E id \in Rows \cup {Lost}, status \in {"draft", "in_review"} :
       /\ writing[w].by = "tool" => status = "draft"
       /\ StorePrd(PrdFrom(writing[w].opportunity, opportunities[writing[w].opportunity],
                           writing[w].by, status), id)
  /\ writing' = [writing EXCEPT ![w] = NoId]
  /\ UNCHANGED <<feedback, insights, opportunities, decisions, pipeline, flow, links,
                 editing, gated, handed>>

-----------------------------------------------------------------------------
\* Mutation: a document in review may be delivered.
MayBecome_Reviewed(from, to) ==
  to = "ready_for_delivery" => from \in {"approved", "waived", "in_review"}

\* update_prd_lifecycle: every other status may follow every status.
MayBecome(from, to) == to = "ready_for_delivery" => from \in {"approved", "waived"}

\* update_prd_lifecycle, the read and the checks.
ReadPrd(p, to) ==
  /\ Cardinality(editing) < MaxOpen
  /\ OnFile(prds, p)
  /\ MayBecome(prds[p].status, to)
  /\ editing' = editing \cup {[prd |-> p, row |-> [prds[p] EXCEPT !.status = to]]}
  /\ UNCHANGED <<pmTables, flow, writing, gated, handed, drops>>

\* update_prd_lifecycle, upsert_artifact: the copy read before, with the new status.
WritePrd(edit) ==
  /\ \/ /\ prds' = [prds EXCEPT ![edit.prd] = edit.row]
        /\ gated' = gated \cup (IF edit.row.status \in {"approved", "waived"} THEN {edit.prd} ELSE {})
        /\ Kept
     \/ UNCHANGED <<prds, gated>> /\ Drop
  /\ editing' = editing \ {edit}
  /\ UNCHANGED <<feedback, insights, opportunities, decisions, pipeline, flow, links,
                 writing, handed>>

\* create_launch_review: what is to follow becomes feedback, some of it when the storing
\* fails; whether the review itself, which nothing reads, is stored is not looked at.
LaunchReview ==
  /\ \E n \in (feedback + 1) .. MaxFeedback : StoreFeedback(n)
  /\ UNCHANGED <<insights, opportunities, decisions, prds, pipeline, flow, links,
                 editing, writing, gated, handed, drops>>

\* create_prd_handoff: a bundle is answered, not stored.
BuildHandoff(p) ==
  /\ OnFile(prds, p)
  /\ prds[p].status = "ready_for_delivery"
  /\ handed' = handed \cup {p}
  /\ UNCHANGED <<pmTables, flow, editing, writing, gated, drops>>

-----------------------------------------------------------------------------
\* upsert_pipeline_run: lost, or not.
SaveRecord(record) ==
  \/ pipeline' = record
  \/ UNCHANGED pipeline /\ drops < MaxDrops

\* run_pm_pipeline up to its first stage; a pipeline run has a new row.
StartPipeline ==
  /\ pipeline = NoId /\ flow = NoId
  /\ LET record == [status |-> "running", stage |-> "capture", insights |-> {},
                    opportunity |-> NoId, prd |-> NoId]
     IN  /\ SaveRecord(record)
         /\ flow' = [record |-> record, saved |-> TRUE, given |-> {}, evidence |-> {}]
  /\ UNCHANGED <<feedback, insights, opportunities, decisions, prds, links,
                 editing, writing, gated, handed, drops>>

At(stage) == flow # NoId /\ flow.record.stage = stage /\ flow.saved

\* capture_feedback of the texts given.
PipelineCapture ==
  /\ At("capture")
  /\ \E n \in (feedback + 1) .. MaxFeedback :
       /\ StoreFeedback(n)
       /\ flow' = [flow EXCEPT !.record.stage = "cluster", !.saved = FALSE,
                               !.given = (feedback + 1) .. n]
  /\ UNCHANGED <<insights, opportunities, decisions, prds, pipeline, links,
                 editing, writing, gated, handed, drops>>

\* One of the insights; the record follows after the last.
PipelineInsight ==
  /\ At("cluster")
  /\ \E from \in InsightFrom(flow.given), id \in Rows \cup {Lost} :
       /\ StoreInsight(from, id)
       /\ flow' = [flow EXCEPT !.evidence = @ \cup from, !.record.insights = @ \cup {id}]
  /\ UNCHANGED <<feedback, opportunities, decisions, prds, pipeline, links,
                 editing, writing, gated, handed>>

PipelineClustered ==
  /\ At("cluster") /\ flow.record.insights # {}
  /\ flow' = [flow EXCEPT !.record.stage = "opportunity", !.saved = FALSE]
  /\ UNCHANGED <<pmTables, editing, writing, gated, handed, drops>>

PipelineOpportunity ==
  /\ At("opportunity")
  /\ \E id \in Rows \cup {Lost} :
       /\ StoreOpportunity(flow.evidence, id)
       /\ flow' = [flow EXCEPT !.record.stage = "prd", !.record.opportunity = id, !.saved = FALSE]
  /\ UNCHANGED <<feedback, insights, decisions, prds, pipeline, links,
                 editing, writing, gated, handed>>

PipelinePrd ==
  /\ At("prd")
  /\ \E id \in Rows \cup {Lost} :
       /\ StorePrd(PrdFrom(flow.record.opportunity, flow.evidence, "pipeline", "draft"), id)
       /\ flow' = [flow EXCEPT !.record.stage = "complete", !.record.status = "completed",
                               !.record.prd = id, !.saved = FALSE]
  /\ UNCHANGED <<feedback, insights, opportunities, decisions, pipeline, links,
                 editing, writing, gated, handed>>

\* build_pipeline_trace_links: between what the record names.
LinksOf(record) ==
  {<<i, record.opportunity>> : i \in record.insights}
    \cup (IF record.prd = NoId THEN {} ELSE {<<record.opportunity, record.prd>>})

\* The record of the stage; after the last one the links, by what the coroutine knows.
SavePipeline ==
  /\ flow # NoId /\ ~ flow.saved
  /\ SaveRecord(flow.record)
  /\ IF flow.record.stage = "complete"
     THEN flow' = NoId /\ StoreLinks(LinksOf(flow.record))
     ELSE flow' = [flow EXCEPT !.saved = TRUE] /\ UNCHANGED links
  /\ UNCHANGED <<feedback, insights, opportunities, decisions, prds,
                 editing, writing, gated, handed, drops>>

\* A stage raises, before it has stored anything but some of the feedback.
PipelineFails ==
  /\ flow # NoId /\ flow.saved
  /\ At("cluster") => flow.record.insights = {}
  /\ SaveRecord([flow.record EXCEPT !.status = "failed"])
  /\ feedback' \in IF At("capture") THEN feedback .. MaxFeedback ELSE {feedback}
  /\ flow' = NoId
  /\ UNCHANGED <<insights, opportunities, decisions, prds, links,
                 editing, writing, gated, handed, drops>>

\* get_pipeline_run.
OnRecord == pipeline # NoId

\* get_pm_traceability of a pipeline: what is on record, whatever its status, is linked.
TracePipeline ==
  /\ OnRecord
  /\ StoreLinks(IF pipeline.opportunity = NoId THEN {} ELSE LinksOf(pipeline))
  /\ UNCHANGED <<feedback, insights, opportunities, decisions, prds, pipeline, flow,
                 editing, writing, gated, handed, drops>>

\* The process dies: a pipeline that was running stays so.
PmCrash ==
  /\ flow' = NoId
  /\ editing' = {} /\ writing' = [w \in Writers |-> NoId]
  /\ UNCHANGED <<pmTables, gated, handed, drops>>

PmNext ==
  \/ CaptureFeedback \/ GenerateInsights \/ CreateOpportunity
  \/ \E o \in DOMAIN opportunities :
       \/ \E status \in {"approved", "rejected"} : DecideOpportunity(o, status)
       \/ \E w \in Writers : BeginPrd(w, o) \/ BeginPrdByTool(w, o)
  \/ \E w \in Writers : EndPrd(w)
  \/ \E p \in DOMAIN prds, to \in PrdStatus : ReadPrd(p, to)
  \/ \E edit \in editing : WritePrd(edit)
  \/ \E p \in DOMAIN prds : BuildHandoff(p)
  \/ LaunchReview
  \/ StartPipeline \/ PipelineCapture \/ PipelineInsight \/ PipelineClustered
  \/ PipelineOpportunity \/ PipelinePrd \/ SavePipeline \/ PipelineFails \/ TracePipeline
  \/ PmCrash

PmSpec == PmInit /\ [][PmNext]_pmVars

-----------------------------------------------------------------------------
\* The values the variables range over.
PmTypeOK ==
  /\ feedback \in 0 .. MaxFeedback
  /\ insights \in Seq(Evidence) /\ opportunities \in Seq(Evidence)
  /\ prds \in Seq(Prds)
  /\ decisions \subseteq Rows \X {"approved", "rejected"}
  /\ pipeline \in Records \cup {NoId}
  /\ flow \in [record : Records, saved : BOOLEAN, given : Evidence, evidence : Evidence] \cup {NoId}
  /\ editing \subseteq [prd : Rows, row : Prds]
  /\ writing \in [Writers -> [opportunity : Rows, by : {"console", "tool"}] \cup {NoId}]
  /\ gated \subseteq Rows /\ handed \subseteq Rows
  /\ drops \in 0 .. MaxDrops

\* Whatever writes are lost, whatever edits overwrite each other and wherever the process
\* dies: every document refers to feedback that is stored, even when the insight and the
\* opportunity between them were lost; the console made it from an approved opportunity;
\* it was approved or waived before it was made ready or handed off; and a pipeline that
\* is called completed names a document, which is stored unless a write was lost.
EvidenceToDelivery ==
  /\ \A p \in DOMAIN prds :
       /\ prds[p].evidence # {} /\ prds[p].evidence \subseteq 1 .. feedback
       /\ prds[p].by = "console" => <<prds[p].opportunity, "approved">> \in decisions
       /\ prds[p].status = "ready_for_delivery" => p \in gated
  /\ handed \subseteq gated
  /\ pipeline # NoId /\ pipeline.status = "completed" =>
       /\ pipeline.prd # NoId
       /\ drops = 0 => OnFile(opportunities, pipeline.opportunity) /\ OnFile(prds, pipeline.prd)
=============================================================================
