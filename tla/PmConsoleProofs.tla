---------------------------- MODULE PmConsoleProofs ----------------------------
(***************************************************************************)
(* Theorems of PmConsole, for any number of writers, rows, lost writes and *)
(* edits under way.                                                        *)
(***************************************************************************)
EXTENDS PmConsole, TLAPS

-----------------------------------------------------------------------------
(* The inductive invariant. *)

Grounded(evidence) == evidence # {} /\ evidence \subseteq Captured

\* What a document rests on.
Founded(row) ==
  /\ Grounded(row.evidence)
  /\ row.by = "console" => <<row.opportunity, "approved">> \in decisions

\* The tables: what refers to feedback refers to some that is stored, and a document is in
\* a status that only a gate leads to after the gate.
TablesInv ==
  /\ Len(insights) <= MaxRows /\ Len(opportunities) <= MaxRows /\ Len(prds) <= MaxRows
  /\ \A i \in DOMAIN insights : Grounded(insights[i])
  /\ \A o \in DOMAIN opportunities : Grounded(opportunities[o])
  /\ \A p \in DOMAIN prds :
       /\ Founded(prds[p])
       /\ prds[p].status \in {"approved", "waived", "ready_for_delivery"} => p \in gated

\* The copy an edit holds is as well founded as the document, and goes to delivery only if
\* the document has passed the gate.
EditsInv ==
  \A e \in editing :
    /\ e.prd \in DOMAIN prds
    /\ Founded(e.row)
    /\ e.row.status = "ready_for_delivery" => e.prd \in gated

WritingInv ==
  \A w \in Writers : writing[w] # NoId =>
    /\ writing[w].opportunity \in DOMAIN opportunities
    /\ writing[w].by = "console" => <<writing[w].opportunity, "approved">> \in decisions

\* What the record of a pipeline names at its stage is on file unless a write was lost.
Named(record) ==
  /\ record.status = "completed" => record.stage = "complete"
  /\ record.stage \in {"prd", "complete"} => record.opportunity # NoId
  /\ record.stage \in {"prd", "complete"} /\ drops = 0 => OnFile(opportunities, record.opportunity)
  /\ record.stage = "complete" =>
       /\ record.prd # NoId
       /\ drops = 0 => OnFile(prds, record.prd)

FlowInv ==
  flow # NoId =>
    /\ flow.given \subseteq Captured /\ flow.evidence \subseteq Captured
    /\ flow.record.insights # {} => flow.evidence # {}
    /\ flow.record.stage \in {"opportunity", "prd", "complete"} => flow.record.insights # {}
    /\ Named(flow.record)

RecordInv == pipeline # NoId => Named(pipeline)

IInv ==
  /\ PmTypeOK /\ TablesInv /\ EditsInv /\ WritingInv /\ FlowInv /\ RecordInv
  /\ handed \subseteq gated

-----------------------------------------------------------------------------
(* The writes. *)

LEMMA GroundedEvidence ==
  ASSUME PmTypeOK, NEW e, Grounded(e)
  PROVE  e \in Evidence
<1>1. Captured \subseteq 1 .. MaxFeedback
  BY PmAssumption DEF PmTypeOK, Captured
<1> QED BY <1>1 DEF Grounded, Evidence

LEMMA DropType ==
  ASSUME PmTypeOK, Drop \/ Kept
  PROVE  /\ drops' \in 0 .. MaxDrops /\ drops' >= drops
         /\ Drop => drops' # 0
BY PmAssumption DEF PmTypeOK, Drop, Kept

LEMMA AppendRow ==
  ASSUME NEW S, NEW s \in Seq(S), NEW e \in S, NEW t, t = Append(s, e)
  PROVE  /\ t \in Seq(S) /\ Len(t) = Len(s) + 1
         /\ DOMAIN s \subseteq DOMAIN t /\ Len(s) + 1 \in DOMAIN t
         /\ \A i \in DOMAIN t : t[i] = e \/ (i \in DOMAIN s /\ t[i] = s[i])
OBVIOUS

LEMMA StoreInsightKeeps ==
  ASSUME IInv, NEW from, Grounded(from), NEW id, StoreInsight(from, id)
  PROVE  /\ insights' \in Seq(Evidence) /\ Len(insights') <= MaxRows
         /\ \A i \in DOMAIN insights' : insights'[i] = from \/ (i \in DOMAIN insights /\ insights'[i] = insights[i])
         /\ drops' \in 0 .. MaxDrops /\ drops' >= drops
<1>1. from \in Evidence BY GroundedEvidence DEF IInv
<1>2. drops' \in 0 .. MaxDrops /\ drops' >= drops BY DropType DEF IInv, StoreInsight
<1>3. insights \in Seq(Evidence) /\ Len(insights) <= MaxRows BY DEF IInv, PmTypeOK, TablesInv
<1>4. CASE Len(insights) < MaxRows /\ id = Len(insights) + 1 /\ insights' = Append(insights, from)
  BY <1>1, <1>2, <1>3, <1>4, AppendRow, PmAssumption
<1>5. CASE UNCHANGED insights /\ Drop
  BY <1>2, <1>3, <1>5
<1> QED BY <1>4, <1>5 DEF StoreInsight

LEMMA StoreOpportunityKeeps ==
  ASSUME IInv, NEW from, Grounded(from), NEW id, StoreOpportunity(from, id)
  PROVE  /\ opportunities' \in Seq(Evidence) /\ Len(opportunities') <= MaxRows
         /\ DOMAIN opportunities \subseteq DOMAIN opportunities'
         /\ \A i \in DOMAIN opportunities' :
              opportunities'[i] = from \/ (i \in DOMAIN opportunities /\ opportunities'[i] = opportunities[i])
         /\ drops' \in 0 .. MaxDrops /\ drops' >= drops
         /\ drops' = 0 => id \in DOMAIN opportunities'
<1>1. from \in Evidence BY GroundedEvidence DEF IInv
<1>2. /\ drops' \in 0 .. MaxDrops /\ drops' >= drops
      /\ Drop => drops' # 0
  BY DropType DEF IInv, StoreOpportunity
<1>3. opportunities \in Seq(Evidence) /\ Len(opportunities) <= MaxRows BY DEF IInv, PmTypeOK, TablesInv
<1>4. CASE Len(opportunities) < MaxRows /\ id = Len(opportunities) + 1 /\ opportunities' = Append(opportunities, from)
  BY <1>1, <1>2, <1>3, <1>4, AppendRow, PmAssumption
<1>5. CASE UNCHANGED opportunities /\ Drop
  BY <1>2, <1>3, <1>5
<1> QED BY <1>4, <1>5 DEF StoreOpportunity

LEMMA StorePrdKeeps ==
  ASSUME IInv, NEW row \in Prds, NEW id, StorePrd(row, id)
  PROVE  /\ prds' \in Seq(Prds) /\ Len(prds') <= MaxRows
         /\ DOMAIN prds \subseteq DOMAIN prds'
         /\ \A i \in DOMAIN prds' : prds'[i] = row \/ (i \in DOMAIN prds /\ prds'[i] = prds[i])
         /\ drops' \in 0 .. MaxDrops /\ drops' >= drops
         /\ drops' = 0 => id \in DOMAIN prds'
<1>2. /\ drops' \in 0 .. MaxDrops /\ drops' >= drops
      /\ Drop => drops' # 0
  BY DropType DEF IInv, StorePrd
<1>3. prds \in Seq(Prds) /\ Len(prds) <= MaxRows BY DEF IInv, PmTypeOK, TablesInv
<1>4. CASE Len(prds) < MaxRows /\ id = Len(prds) + 1 /\ prds' = Append(prds, row)
  BY <1>2, <1>3, <1>4, AppendRow, PmAssumption
<1>5. CASE UNCHANGED prds /\ Drop
  BY <1>2, <1>3, <1>5
<1> QED BY <1>4, <1>5 DEF StorePrd

\* What every step does: what is captured, decided, gated and on file stays so.
Grows ==
  /\ Captured \subseteq Captured' /\ decisions \subseteq decisions' /\ gated \subseteq gated'
  /\ DOMAIN opportunities \subseteq DOMAIN opportunities' /\ DOMAIN prds \subseteq DOMAIN prds'
  /\ drops' \in Nat /\ drops' >= drops

LEMMA EditsKept ==
  ASSUME IInv, Grows, editing' \subseteq editing
  PROVE  EditsInv'
BY DEF IInv, EditsInv, Grows, Founded, Grounded

LEMMA WritingKept ==
  ASSUME IInv, Grows, \A w \in Writers : writing'[w] \in {writing[w], NoId}
  PROVE  WritingInv'
BY DEF IInv, WritingInv, Grows

LEMMA DropsGrow ==
  ASSUME IInv, Grows
  PROVE  drops' = 0 => drops = 0
BY PmAssumption DEF IInv, PmTypeOK, Grows

LEMMA FlowKept ==
  ASSUME IInv, Grows, flow' \in {flow, NoId}
  PROVE  FlowInv'
BY DropsGrow DEF IInv, FlowInv, Grows, Named, OnFile

LEMMA RecordKept ==
  ASSUME IInv, Grows, pipeline' = pipeline
  PROVE  RecordInv'
BY DropsGrow DEF IInv, RecordInv, Grows, Named, OnFile

LEMMA TablesKept ==
  ASSUME IInv, Grows, UNCHANGED <<insights, opportunities, prds>>
  PROVE  TablesInv'
BY DEF IInv, TablesInv, Grows, Founded, Grounded

LEMMA Same ==
  ASSUME IInv, UNCHANGED <<feedback, decisions, opportunities, prds, gated, drops>>
  PROVE  Grows
BY PmAssumption DEF IInv, PmTypeOK, Grows, Captured

-----------------------------------------------------------------------------
(* The console. *)

LEMMA FeedbackStep ==
  ASSUME IInv, NEW n \in feedback .. MaxFeedback, StoreFeedback(n),
         UNCHANGED <<insights, opportunities, decisions, prds, pipeline, flow, links,
                     editing, writing, gated, handed, drops>>
  PROVE  IInv'
<1>1. feedback' \in 0 .. MaxFeedback /\ Captured \subseteq Captured'
  BY PmAssumption DEF IInv, PmTypeOK, StoreFeedback, Captured
<1>2. Grows BY <1>1, PmAssumption DEF Grows, IInv, PmTypeOK
<1>3. PmTypeOK' BY <1>1 DEF IInv, PmTypeOK
<1> QED BY <1>2, <1>3, EditsKept, WritingKept, FlowKept, RecordKept, TablesKept DEF IInv

LEMMA CaptureStep ==
  ASSUME IInv, CaptureFeedback \/ LaunchReview
  PROVE  IInv'
<1>1. CASE CaptureFeedback
  <2>1. feedback + 1 \in feedback .. MaxFeedback
    BY <1>1, PmAssumption DEF IInv, PmTypeOK, CaptureFeedback
  <2> QED BY <1>1, <2>1, FeedbackStep DEF CaptureFeedback
<1>2. CASE LaunchReview
  <2>1. PICK n \in (feedback + 1) .. MaxFeedback : StoreFeedback(n)
    BY <1>2 DEF LaunchReview
  <2>2. n \in feedback .. MaxFeedback
    BY PmAssumption DEF IInv, PmTypeOK
  <2> QED BY <1>2, <2>1, <2>2, FeedbackStep DEF LaunchReview
<1> QED BY <1>1, <1>2

\* An insight that is stored, or not, by the console or by a pipeline.
LEMMA NewInsight ==
  ASSUME IInv, NEW from, Grounded(from), NEW id, StoreInsight(from, id),
         UNCHANGED <<feedback, opportunities, decisions, prds, gated>>
  PROVE  /\ Grows /\ TablesInv'
         /\ insights' \in Seq(Evidence) /\ drops' \in 0 .. MaxDrops
<1>1. /\ insights' \in Seq(Evidence) /\ Len(insights') <= MaxRows
      /\ \A i \in DOMAIN insights' : insights'[i] = from \/ (i \in DOMAIN insights /\ insights'[i] = insights[i])
      /\ drops' \in 0 .. MaxDrops /\ drops' >= drops
  BY StoreInsightKeeps
<1>2. Grows BY <1>1, PmAssumption DEF Grows, Captured
<1>3. TablesInv'
  BY <1>1 DEF IInv, TablesInv, Founded, Grounded, Captured
<1> QED BY <1>1, <1>2, <1>3

LEMMA NewOpportunity ==
  ASSUME IInv, NEW from, Grounded(from), NEW id, StoreOpportunity(from, id),
         UNCHANGED <<feedback, insights, decisions, prds, gated>>
  PROVE  /\ Grows /\ TablesInv'
         /\ opportunities' \in Seq(Evidence) /\ drops' \in 0 .. MaxDrops
         /\ drops' = 0 => id \in DOMAIN opportunities'
<1>1. /\ opportunities' \in Seq(Evidence) /\ Len(opportunities') <= MaxRows
      /\ DOMAIN opportunities \subseteq DOMAIN opportunities'
      /\ \A i \in DOMAIN opportunities' :
           opportunities'[i] = from \/ (i \in DOMAIN opportunities /\ opportunities'[i] = opportunities[i])
      /\ drops' \in 0 .. MaxDrops /\ drops' >= drops
      /\ drops' = 0 => id \in DOMAIN opportunities'
  BY StoreOpportunityKeeps
<1>2. Grows BY <1>1, PmAssumption DEF Grows, Captured
<1>3. TablesInv'
  BY <1>1 DEF IInv, TablesInv, Founded, Grounded, Captured
<1> QED BY <1>1, <1>2, <1>3

LEMMA NewPrd ==
  ASSUME IInv, NEW row \in Prds, Founded(row), row.status \in {"draft", "in_review"},
         NEW id, StorePrd(row, id),
         UNCHANGED <<feedback, insights, opportunities, decisions, gated>>
  PROVE  /\ Grows /\ TablesInv'
         /\ prds' \in Seq(Prds) /\ drops' \in 0 .. MaxDrops
         /\ drops' = 0 => id \in DOMAIN prds'
<1>1. /\ prds' \in Seq(Prds) /\ Len(prds') <= MaxRows
      /\ DOMAIN prds \subseteq DOMAIN prds'
      /\ \A i \in DOMAIN prds' : prds'[i] = row \/ (i \in DOMAIN prds /\ prds'[i] = prds[i])
      /\ drops' \in 0 .. MaxDrops /\ drops' >= drops
      /\ drops' = 0 => id \in DOMAIN prds'
  BY StorePrdKeeps
<1>2. Grows BY <1>1, PmAssumption DEF Grows, Captured
<1>3. /\ \A i \in DOMAIN insights : Grounded(insights[i])'
      /\ \A o \in DOMAIN opportunities : Grounded(opportunities[o])'
  BY DEF IInv, TablesInv, Grounded, Captured
<1>4. ASSUME NEW p \in DOMAIN prds'
      PROVE  /\ prds'[p].evidence # {} /\ prds'[p].evidence \subseteq Captured
             /\ prds'[p].by = "console" => <<prds'[p].opportunity, "approved">> \in decisions
             /\ prds'[p].status \in {"approved", "waived", "ready_for_delivery"} => p \in gated
  <2>1. CASE prds'[p] = row
    BY <2>1 DEF Founded, Grounded
  <2>2. CASE p \in DOMAIN prds /\ prds'[p] = prds[p]
    BY <2>2 DEF IInv, TablesInv, Founded, Grounded
  <2> QED BY <1>1, <2>1, <2>2
<1>5. TablesInv'
  <2>1. Captured' = Captured /\ decisions' = decisions /\ gated' = gated
    BY DEF Captured
  <2>2. Len(insights') <= MaxRows /\ Len(opportunities') <= MaxRows
    BY DEF IInv, TablesInv
  <2> QED BY <1>1, <1>3, <1>4, <2>1, <2>2 DEF TablesInv, Founded, Grounded
<1> QED BY <1>1, <1>2, <1>5

LEMMA GenerateInsightsStep ==
  ASSUME IInv, GenerateInsights
  PROVE  IInv'
<1>1. PICK from \in InsightFrom(Captured), id \in Rows \cup {Lost} : StoreInsight(from, id)
  BY DEF GenerateInsights
<1>2. Grounded(from) BY DEF InsightFrom, Grounded
<1>3. /\ Grows /\ TablesInv'
      /\ insights' \in Seq(Evidence) /\ drops' \in 0 .. MaxDrops
  BY <1>1, <1>2, NewInsight DEF GenerateInsights
<1>4. PmTypeOK' BY <1>3 DEF IInv, PmTypeOK, GenerateInsights
<1> QED BY <1>3, <1>4, EditsKept, WritingKept, FlowKept, RecordKept DEF IInv, GenerateInsights

LEMMA CreateOpportunityStep ==
  ASSUME IInv, CreateOpportunity
  PROVE  IInv'
<1>1. PICK chosen \in (SUBSET DOMAIN insights) \ {{}}, id \in Rows \cup {Lost} :
        StoreOpportunity(OpportunityFrom(chosen), id)
  BY DEF CreateOpportunity
<1>2. Grounded(OpportunityFrom(chosen))
  BY DEF OpportunityFrom, Grounded, IInv, TablesInv
<1>3. /\ Grows /\ TablesInv'
      /\ opportunities' \in Seq(Evidence) /\ drops' \in 0 .. MaxDrops
  BY <1>1, <1>2, NewOpportunity DEF CreateOpportunity
<1>4. PmTypeOK' BY <1>3 DEF IInv, PmTypeOK, CreateOpportunity
<1> QED BY <1>3, <1>4, EditsKept, WritingKept, FlowKept, RecordKept DEF IInv, CreateOpportunity

LEMMA DecideStep ==
  ASSUME IInv, NEW o \in DOMAIN opportunities, NEW status \in {"approved", "rejected"},
         DecideOpportunity(o, status)
  PROVE  IInv'
<1>1. o \in Rows
  BY PmAssumption DEF IInv, PmTypeOK, TablesInv, Rows
<1>2. drops' \in 0 .. MaxDrops /\ drops' >= drops
  BY DropType DEF IInv, DecideOpportunity, StoreDecision
<1>3. decisions \subseteq decisions' /\ decisions' \subseteq Rows \X {"approved", "rejected"}
  BY <1>1 DEF IInv, PmTypeOK, DecideOpportunity, StoreDecision
<1>4. Grows BY <1>2, <1>3, PmAssumption DEF Grows, Captured, DecideOpportunity
<1>5. PmTypeOK' BY <1>2, <1>3 DEF IInv, PmTypeOK, DecideOpportunity
<1> QED BY <1>4, <1>5, EditsKept, WritingKept, FlowKept, RecordKept, TablesKept
        DEF IInv, DecideOpportunity

LEMMA BeginStep ==
  ASSUME IInv, NEW w \in Writers, NEW o \in DOMAIN opportunities, BeginPrd(w, o) \/ BeginPrdByTool(w, o)
  PROVE  IInv'
<1>1. o \in Rows
  BY PmAssumption DEF IInv, PmTypeOK, TablesInv, Rows
<1>2. PICK by \in {"console", "tool"} :
        /\ writing' = [writing EXCEPT ![w] = [opportunity |-> o, by |-> by]]
        /\ by = "console" => <<o, "approved">> \in decisions
  BY DEF BeginPrd, BeginPrdByTool
<1>3. UNCHANGED <<pmTables, flow, editing, gated, handed, drops>>
  BY DEF BeginPrd, BeginPrdByTool
<1>4. Grows BY <1>3, Same DEF pmTables
<1>5. PmTypeOK' BY <1>1, <1>2, <1>3 DEF IInv, PmTypeOK, pmTables
<1>6. WritingInv' BY <1>2, <1>3 DEF IInv, PmTypeOK, WritingInv, pmTables
<1> QED BY <1>3, <1>4, <1>5, <1>6, EditsKept, FlowKept, RecordKept, TablesKept DEF IInv, pmTables

LEMMA EndStep ==
  ASSUME IInv, NEW w \in Writers, EndPrd(w)
  PROVE  IInv'
<1> DEFINE o == writing[w].opportunity
<1>1. PICK id \in Rows \cup {Lost}, status \in {"draft", "in_review"} :
        StorePrd(PrdFrom(o, opportunities[o], writing[w].by, status), id)
  BY DEF EndPrd
<1> DEFINE row == PrdFrom(o, opportunities[o], writing[w].by, status)
<1>2. /\ o \in DOMAIN opportunities /\ writing[w].by \in {"console", "tool"}
      /\ writing[w].by = "console" => <<o, "approved">> \in decisions
  BY DEF EndPrd, IInv, PmTypeOK, WritingInv
<1>3. o \in Rows
  BY <1>2, PmAssumption DEF IInv, PmTypeOK, TablesInv, Rows
<1>4. Grounded(opportunities[o]) /\ opportunities[o] \in Evidence
  BY <1>2 DEF IInv, PmTypeOK, TablesInv
<1>5. row \in Prds /\ Founded(row) /\ row.status \in {"draft", "in_review"}
  BY <1>2, <1>3, <1>4 DEF PrdFrom, Prds, PrdStatus, Founded
<1>6. /\ Grows /\ TablesInv'
      /\ prds' \in Seq(Prds) /\ drops' \in 0 .. MaxDrops
  BY <1>1, <1>5, NewPrd DEF EndPrd
<1>7. writing' \in [Writers -> [opportunity : Rows, by : {"console", "tool"}] \cup {NoId}]
  BY DEF EndPrd, IInv, PmTypeOK
<1>8. \A v \in Writers : writing'[v] \in {writing[v], NoId}
  BY DEF EndPrd, IInv, PmTypeOK
<1>9. PmTypeOK' BY <1>6, <1>7 DEF IInv, PmTypeOK, EndPrd
<1> QED BY <1>6, <1>8, <1>9, EditsKept, WritingKept, FlowKept, RecordKept DEF IInv, EndPrd

LEMMA ReadPrdStep ==
  ASSUME IInv, NEW p \in DOMAIN prds, NEW to \in PrdStatus, ReadPrd(p, to)
  PROVE  IInv'
<1> DEFINE edit == [prd |-> p, row |-> [prds[p] EXCEPT !.status = to]]
<1>1. editing' = editing \cup {edit}
  BY DEF ReadPrd
<1>2. UNCHANGED <<pmTables, flow, writing, gated, handed, drops>>
  BY DEF ReadPrd
<1>3. p \in Rows /\ prds[p] \in Prds
  BY PmAssumption DEF IInv, PmTypeOK, TablesInv, Rows
<1>4. Founded(prds[p]) /\ (to = "ready_for_delivery" => p \in gated)
  BY DEF IInv, TablesInv, ReadPrd, MayBecome
<1>5. edit \in [prd : Rows, row : Prds]
  BY <1>3 DEF Prds
<1>6. /\ edit.prd = p /\ edit.row.status = to
      /\ edit.row.evidence = prds[p].evidence /\ edit.row.by = prds[p].by
      /\ edit.row.opportunity = prds[p].opportunity
  BY <1>3 DEF Prds
<1>7. Grows BY <1>2, Same DEF pmTables
<1>8. EditsInv'
  <2>1. Captured' = Captured BY <1>2 DEF pmTables, Captured
  <2> QED BY <1>1, <1>2, <1>4, <1>6, <2>1 DEF IInv, EditsInv, Founded, Grounded, pmTables
<1>9. PmTypeOK' BY <1>1, <1>2, <1>5 DEF IInv, PmTypeOK, pmTables
<1> QED BY <1>2, <1>7, <1>8, <1>9, WritingKept, FlowKept, RecordKept, TablesKept DEF IInv, pmTables

LEMMA WritePrdStep ==
  ASSUME IInv, NEW edit \in editing, WritePrd(edit)
  PROVE  IInv'
<1>1. /\ edit.prd \in DOMAIN prds /\ edit.row \in Prds /\ edit.prd \in Rows
      /\ Founded(edit.row)
      /\ edit.row.status = "ready_for_delivery" => edit.prd \in gated
  BY DEF IInv, PmTypeOK, EditsInv
<1>2. editing' \subseteq editing BY DEF WritePrd
<1>3. drops' \in 0 .. MaxDrops /\ drops' >= drops
  BY DropType DEF IInv, WritePrd
<1>4. /\ prds' \in Seq(Prds) /\ DOMAIN prds' = DOMAIN prds /\ Len(prds') <= MaxRows
      /\ gated \subseteq gated' /\ gated' \subseteq Rows
      /\ \A p \in DOMAIN prds : prds'[p] = prds[p] \/ (p = edit.prd /\ prds'[p] = edit.row)
      /\ prds' # prds /\ edit.row.status \in {"approved", "waived"} => edit.prd \in gated'
  BY <1>1 DEF WritePrd, IInv, PmTypeOK, TablesInv
<1>5. Grows BY <1>3, <1>4, PmAssumption DEF Grows, WritePrd, Captured
<1>6. TablesInv'
  <2>1. Captured' = Captured /\ decisions' = decisions BY DEF Captured, WritePrd
  <2>2. ASSUME NEW p \in DOMAIN prds
        PROVE  /\ prds'[p].evidence # {} /\ prds'[p].evidence \subseteq Captured
               /\ prds'[p].by = "console" => <<prds'[p].opportunity, "approved">> \in decisions
               /\ prds'[p].status \in {"approved", "waived", "ready_for_delivery"} => p \in gated'
    <3>1. CASE prds'[p] = prds[p]
      BY <1>4, <3>1 DEF IInv, TablesInv, Founded, Grounded
    <3>2. CASE prds'[p] # prds[p]
      <4>1. p = edit.prd /\ prds'[p] = edit.row /\ prds' # prds BY <1>4, <3>2
      <4> QED BY <1>1, <1>4, <4>1 DEF Founded, Grounded
    <3> QED BY <3>1, <3>2
  <2>3. /\ \A i \in DOMAIN insights : Grounded(insights[i])'
        /\ \A o \in DOMAIN opportunities : Grounded(opportunities[o])'
        /\ Len(insights') <= MaxRows /\ Len(opportunities') <= MaxRows
    BY <2>1 DEF IInv, TablesInv, Grounded, WritePrd
  <2> QED BY <1>4, <2>1, <2>2, <2>3 DEF TablesInv, Founded, Grounded, WritePrd
<1>7. PmTypeOK' BY <1>2, <1>3, <1>4 DEF IInv, PmTypeOK, WritePrd
<1> QED BY <1>2, <1>4, <1>5, <1>6, <1>7, EditsKept, WritingKept, FlowKept, RecordKept DEF IInv, WritePrd

LEMMA BuildHandoffStep ==
  ASSUME IInv, NEW p \in DOMAIN prds, BuildHandoff(p)
  PROVE  IInv'
<1>1. UNCHANGED <<pmTables, flow, editing, writing, gated, drops>> BY DEF BuildHandoff
<1>2. Grows BY <1>1, Same DEF pmTables
<1>3. p \in gated BY DEF IInv, TablesInv, BuildHandoff
<1>4. handed' \subseteq gated' /\ handed' \subseteq Rows
  BY <1>1, <1>3 DEF IInv, PmTypeOK, BuildHandoff
<1>5. PmTypeOK' BY <1>1, <1>4 DEF IInv, PmTypeOK, pmTables
<1> QED BY <1>1, <1>2, <1>4, <1>5, EditsKept, WritingKept, FlowKept, RecordKept, TablesKept
        DEF IInv, pmTables

-----------------------------------------------------------------------------
(* The pipeline. *)

\* Named, of what is on file after the step.
NamedNext(record) ==
  /\ record.status = "completed" => record.stage = "complete"
  /\ record.stage \in {"prd", "complete"} => record.opportunity # NoId
  /\ record.stage \in {"prd", "complete"} /\ drops' = 0 => record.opportunity \in DOMAIN opportunities'
  /\ record.stage = "complete" =>
       /\ record.prd # NoId
       /\ drops' = 0 => record.prd \in DOMAIN prds'

Flows == [record : Records, saved : BOOLEAN, given : Evidence, evidence : Evidence]

LEMMA NamedStays ==
  ASSUME IInv, Grows, NEW record, Named(record)
  PROVE  NamedNext(record)
BY DropsGrow DEF Named, NamedNext, OnFile, Grows

LEMMA SaveKeeps ==
  ASSUME IInv, Grows, NEW record \in Records, NamedNext(record), SaveRecord(record)
  PROVE  RecordInv' /\ pipeline' \in Records \cup {NoId}
<1>1. CASE pipeline' = record
  BY <1>1 DEF RecordInv, Named, NamedNext, OnFile
<1>2. CASE pipeline' = pipeline
  BY <1>2, RecordKept DEF IInv, PmTypeOK
<1> QED BY <1>1, <1>2 DEF SaveRecord

\* The coroutine after a step of it.
LEMMA FlowMoves ==
  ASSUME flow' \in Flows,
         flow'.given \subseteq Captured', flow'.evidence \subseteq Captured',
         flow'.record.insights # {} => flow'.evidence # {},
         flow'.record.stage \in {"opportunity", "prd", "complete"} => flow'.record.insights # {},
         NamedNext(flow'.record)
  PROVE  FlowInv'
BY DEF FlowInv, Named, NamedNext, OnFile

LEMMA StartPipelineStep ==
  ASSUME IInv, StartPipeline
  PROVE  IInv'
<1> DEFINE record == [status |-> "running", stage |-> "capture", insights |-> {},
                      opportunity |-> NoId, prd |-> NoId]
<1>1. /\ SaveRecord(record)
      /\ flow' = [record |-> record, saved |-> TRUE, given |-> {}, evidence |-> {}]
  BY DEF StartPipeline
<1>2. record \in Records BY DEF Records
<1>3. Grows BY Same DEF StartPipeline
<1>4. NamedNext(record) BY DEF NamedNext
<1>5. RecordInv' /\ pipeline' \in Records \cup {NoId}
  BY <1>1, <1>2, <1>3, <1>4, SaveKeeps
<1>6. flow' \in Flows BY <1>1, <1>2 DEF Flows, Evidence
<1>7. FlowInv' BY <1>1, <1>4, <1>6, FlowMoves
<1>8. PmTypeOK' BY <1>5, <1>6 DEF IInv, PmTypeOK, StartPipeline, Flows
<1> QED BY <1>3, <1>5, <1>7, <1>8, EditsKept, WritingKept, TablesKept DEF IInv, StartPipeline

\* A coroutine between two stages.
LEMMA FlowAt ==
  ASSUME IInv, flow # NoId
  PROVE  /\ flow \in Flows /\ flow.record \in Records
         /\ flow.given \subseteq Captured /\ flow.evidence \subseteq Captured
         /\ flow.record.insights # {} => flow.evidence # {}
         /\ flow.record.stage \in {"opportunity", "prd", "complete"} => flow.record.insights # {}
         /\ Named(flow.record)
BY DEF IInv, PmTypeOK, FlowInv, Flows

LEMMA PipelineCaptureStep ==
  ASSUME IInv, PipelineCapture
  PROVE  IInv'
<1>1. PICK n \in (feedback + 1) .. MaxFeedback :
        /\ StoreFeedback(n)
        /\ flow' = [flow EXCEPT !.record.stage = "cluster", !.saved = FALSE,
                                !.given = (feedback + 1) .. n]
  BY DEF PipelineCapture
<1>2. flow \in Flows /\ flow.record \in Records
      /\ flow.evidence \subseteq Captured /\ (flow.record.insights # {} => flow.evidence # {})
      /\ flow.record.stage = "capture" /\ Named(flow.record)
  BY FlowAt DEF PipelineCapture, At
<1>3. feedback' \in 0 .. MaxFeedback /\ Captured \subseteq Captured' /\ (feedback + 1) .. n \subseteq Captured'
  BY <1>1, PmAssumption DEF IInv, PmTypeOK, StoreFeedback, Captured
<1>4. Grows BY <1>3, PmAssumption DEF Grows, IInv, PmTypeOK, PipelineCapture
<1>5. (feedback + 1) .. n \in Evidence
  BY <1>1, PmAssumption DEF IInv, PmTypeOK, Evidence
<1>6. /\ flow'.record = [flow.record EXCEPT !.stage = "cluster"]
      /\ flow'.given = (feedback + 1) .. n /\ flow'.evidence = flow.evidence
      /\ flow' \in Flows
  BY <1>1, <1>2, <1>5 DEF Flows, Records
<1>7. /\ flow'.record.status = flow.record.status /\ flow'.record.stage = "cluster"
      /\ flow'.record.insights = flow.record.insights
  BY <1>2, <1>6 DEF Records
<1>8. NamedNext(flow'.record) BY <1>2, <1>7 DEF NamedNext, Named
<1>9. FlowInv' BY <1>2, <1>3, <1>6, <1>7, <1>8, FlowMoves
<1>10. PmTypeOK' BY <1>3, <1>6 DEF IInv, PmTypeOK, PipelineCapture, Flows
<1> QED BY <1>4, <1>9, <1>10, EditsKept, WritingKept, RecordKept, TablesKept DEF IInv, PipelineCapture

LEMMA PipelineInsightStep ==
  ASSUME IInv, PipelineInsight
  PROVE  IInv'
<1>1. PICK from \in InsightFrom(flow.given), id \in Rows \cup {Lost} :
        /\ StoreInsight(from, id)
        /\ flow' = [flow EXCEPT !.evidence = @ \cup from, !.record.insights = @ \cup {id}]
  BY DEF PipelineInsight
<1>2. /\ flow \in Flows /\ flow.record \in Records
      /\ flow.given \subseteq Captured /\ flow.evidence \subseteq Captured
      /\ flow.record.stage = "cluster" /\ Named(flow.record)
  BY FlowAt DEF PipelineInsight, At
<1>3. Grounded(from) /\ from \in Evidence
  BY <1>2, GroundedEvidence DEF InsightFrom, Grounded, IInv
<1>4. /\ Grows /\ TablesInv'
      /\ insights' \in Seq(Evidence) /\ drops' \in 0 .. MaxDrops
  BY <1>1, <1>3, NewInsight DEF PipelineInsight
<1>5. /\ flow'.record = [flow.record EXCEPT !.insights = @ \cup {id}]
      /\ flow'.given = flow.given /\ flow'.evidence = flow.evidence \cup from
      /\ flow' \in Flows
  BY <1>1, <1>2, <1>3 DEF Flows, Records, Evidence
<1>6. /\ flow'.record.status = flow.record.status /\ flow'.record.stage = "cluster"
      /\ flow'.record.insights # {}
  BY <1>2, <1>5 DEF Records
<1>7. NamedNext(flow'.record) BY <1>2, <1>6 DEF NamedNext, Named
<1>8. Captured' = Captured BY DEF Captured, PipelineInsight
<1>9. FlowInv' BY <1>2, <1>3, <1>5, <1>6, <1>7, <1>8, FlowMoves DEF Grounded
<1>10. PmTypeOK' BY <1>4, <1>5 DEF IInv, PmTypeOK, PipelineInsight, Flows
<1> QED BY <1>4, <1>9, <1>10, EditsKept, WritingKept, RecordKept DEF IInv, PipelineInsight

LEMMA PipelineClusteredStep ==
  ASSUME IInv, PipelineClustered
  PROVE  IInv'
<1>1. flow' = [flow EXCEPT !.record.stage = "opportunity", !.saved = FALSE]
  BY DEF PipelineClustered
<1>2. /\ flow \in Flows /\ flow.record \in Records
      /\ flow.given \subseteq Captured /\ flow.evidence \subseteq Captured
      /\ flow.record.insights # {} /\ flow.evidence # {}
      /\ flow.record.stage = "cluster" /\ Named(flow.record)
  BY FlowAt DEF PipelineClustered, At
<1>3. UNCHANGED <<pmTables, editing, writing, gated, handed, drops>> BY DEF PipelineClustered
<1>4. Grows BY <1>3, Same DEF pmTables
<1>5. /\ flow'.record = [flow.record EXCEPT !.stage = "opportunity"]
      /\ flow'.given = flow.given /\ flow'.evidence = flow.evidence
      /\ flow' \in Flows
  BY <1>1, <1>2 DEF Flows, Records
<1>6. /\ flow'.record.status = flow.record.status /\ flow'.record.stage = "opportunity"
      /\ flow'.record.insights = flow.record.insights
  BY <1>2, <1>5 DEF Records
<1>7. NamedNext(flow'.record) BY <1>2, <1>6 DEF NamedNext, Named
<1>8. Captured' = Captured BY <1>3 DEF Captured, pmTables
<1>9. FlowInv' BY <1>2, <1>5, <1>6, <1>7, <1>8, FlowMoves
<1>10. PmTypeOK' BY <1>3, <1>5 DEF IInv, PmTypeOK, pmTables, Flows
<1> QED BY <1>3, <1>4, <1>9, <1>10, EditsKept, WritingKept, RecordKept, TablesKept DEF IInv, pmTables

LEMMA PipelineOpportunityStep ==
  ASSUME IInv, PipelineOpportunity
  PROVE  IInv'
<1>1. PICK id \in Rows \cup {Lost} :
        /\ StoreOpportunity(flow.evidence, id)
        /\ flow' = [flow EXCEPT !.record.stage = "prd", !.record.opportunity = id, !.saved = FALSE]
  BY DEF PipelineOpportunity
<1>2. /\ flow \in Flows /\ flow.record \in Records
      /\ flow.given \subseteq Captured /\ flow.evidence \subseteq Captured
      /\ flow.record.insights # {} /\ flow.evidence # {}
      /\ flow.record.stage = "opportunity" /\ Named(flow.record)
  BY FlowAt DEF PipelineOpportunity, At
<1>3. Grounded(flow.evidence) BY <1>2 DEF Grounded
<1>4. /\ Grows /\ TablesInv'
      /\ opportunities' \in Seq(Evidence) /\ drops' \in 0 .. MaxDrops
      /\ drops' = 0 => id \in DOMAIN opportunities'
  BY <1>1, <1>3, NewOpportunity DEF PipelineOpportunity
<1>5. /\ flow'.record = [flow.record EXCEPT !.stage = "prd", !.opportunity = id]
      /\ flow'.given = flow.given /\ flow'.evidence = flow.evidence
      /\ flow' \in Flows
  BY <1>1, <1>2 DEF Flows, Records
<1>6. /\ flow'.record.status = flow.record.status /\ flow'.record.stage = "prd"
      /\ flow'.record.insights = flow.record.insights /\ flow'.record.opportunity = id
  BY <1>2, <1>5 DEF Records
<1>7. NamedNext(flow'.record) BY <1>2, <1>4, <1>6, PmAssumption DEF NamedNext, Named, Rows
<1>8. Captured' = Captured BY DEF Captured, PipelineOpportunity
<1>9. FlowInv' BY <1>2, <1>5, <1>6, <1>7, <1>8, FlowMoves
<1>10. PmTypeOK' BY <1>4, <1>5 DEF IInv, PmTypeOK, PipelineOpportunity, Flows
<1> QED BY <1>4, <1>9, <1>10, EditsKept, WritingKept, RecordKept DEF IInv, PipelineOpportunity

LEMMA PipelinePrdStep ==
  ASSUME IInv, PipelinePrd
  PROVE  IInv'
<1> DEFINE row == PrdFrom(flow.record.opportunity, flow.evidence, "pipeline", "draft")
<1>1. PICK id \in Rows \cup {Lost} :
        /\ StorePrd(row, id)
        /\ flow' = [flow EXCEPT !.record.stage = "complete", !.record.status = "completed",
                                !.record.prd = id, !.saved = FALSE]
  BY DEF PipelinePrd
<1>2. /\ flow \in Flows /\ flow.record \in Records
      /\ flow.given \subseteq Captured /\ flow.evidence \subseteq Captured
      /\ flow.record.insights # {} /\ flow.evidence # {}
      /\ flow.record.stage = "prd" /\ Named(flow.record)
  BY FlowAt DEF PipelinePrd, At
<1>3. flow.record.opportunity \in Rows \cup {Lost} /\ flow.evidence \in Evidence
  BY <1>2 DEF Named, Records, Flows
<1>4. row \in Prds /\ Founded(row) /\ row.status \in {"draft", "in_review"}
  BY <1>2, <1>3 DEF PrdFrom, Prds, PrdStatus, Founded, Grounded
<1>5. /\ Grows /\ TablesInv'
      /\ prds' \in Seq(Prds) /\ drops' \in 0 .. MaxDrops
      /\ drops' = 0 => id \in DOMAIN prds'
  BY <1>1, <1>4, NewPrd DEF PipelinePrd
<1>6. /\ flow'.record = [flow.record EXCEPT !.stage = "complete", !.status = "completed", !.prd = id]
      /\ flow'.given = flow.given /\ flow'.evidence = flow.evidence
      /\ flow' \in Flows
  BY <1>1, <1>2 DEF Flows, Records
<1>7. /\ flow'.record.stage = "complete" /\ flow'.record.prd = id
      /\ flow'.record.insights = flow.record.insights
      /\ flow'.record.opportunity = flow.record.opportunity
  BY <1>2, <1>6 DEF Records
<1>8. NamedNext(flow.record) BY <1>2, <1>5, NamedStays
<1>9. NamedNext(flow'.record) BY <1>2, <1>5, <1>7, <1>8, PmAssumption DEF NamedNext, Rows
<1>10. Captured' = Captured BY DEF Captured, PipelinePrd
<1>11. FlowInv' BY <1>2, <1>6, <1>7, <1>9, <1>10, FlowMoves
<1>12. PmTypeOK' BY <1>5, <1>6 DEF IInv, PmTypeOK, PipelinePrd, Flows
<1> QED BY <1>5, <1>11, <1>12, EditsKept, WritingKept, RecordKept DEF IInv, PipelinePrd

LEMMA SavePipelineStep ==
  ASSUME IInv, SavePipeline
  PROVE  IInv'
<1>1. /\ flow \in Flows /\ flow.record \in Records
      /\ flow.given \subseteq Captured /\ flow.evidence \subseteq Captured
      /\ flow.record.insights # {} => flow.evidence # {}
      /\ flow.record.stage \in {"opportunity", "prd", "complete"} => flow.record.insights # {}
      /\ Named(flow.record)
  BY FlowAt DEF SavePipeline
<1>2. UNCHANGED <<feedback, insights, opportunities, decisions, prds, editing, writing, gated, handed, drops>>
  BY DEF SavePipeline
<1>3. Grows BY <1>2, Same
<1>4. NamedNext(flow.record) BY <1>1, <1>3, NamedStays
<1>5. RecordInv' /\ pipeline' \in Records \cup {NoId}
  BY <1>1, <1>3, <1>4, SaveKeeps DEF SavePipeline
<1>6. flow' = NoId \/ (flow' = [flow EXCEPT !.saved = TRUE])
  BY DEF SavePipeline
<1>7. FlowInv' /\ flow' \in Flows \cup {NoId}
  <2>1. CASE flow' = NoId BY <2>1 DEF FlowInv
  <2>2. CASE flow' = [flow EXCEPT !.saved = TRUE]
    <3>1. /\ flow' \in Flows /\ flow'.record = flow.record
          /\ flow'.given = flow.given /\ flow'.evidence = flow.evidence
      BY <1>1, <2>2 DEF Flows
    <3>2. Captured' = Captured BY <1>2 DEF Captured
    <3> QED BY <1>1, <1>4, <3>1, <3>2, FlowMoves
  <2> QED BY <1>6, <2>1, <2>2
<1>8. PmTypeOK' BY <1>2, <1>5, <1>7 DEF IInv, PmTypeOK, Flows
<1> QED BY <1>2, <1>3, <1>5, <1>7, <1>8, EditsKept, WritingKept, TablesKept DEF IInv

LEMMA PipelineFailsStep ==
  ASSUME IInv, PipelineFails
  PROVE  IInv'
<1> DEFINE record == [flow.record EXCEPT !.status = "failed"]
<1>1. flow.record \in Records /\ Named(flow.record)
  BY FlowAt DEF PipelineFails
<1>2. feedback' \in feedback .. MaxFeedback
  BY PmAssumption DEF IInv, PmTypeOK, PipelineFails
<1>3. feedback' \in 0 .. MaxFeedback /\ Captured \subseteq Captured'
  BY <1>2, PmAssumption DEF IInv, PmTypeOK, Captured
<1>4. Grows BY <1>3, PmAssumption DEF Grows, IInv, PmTypeOK, PipelineFails
<1>5. NamedNext(flow.record) BY <1>1, <1>4, NamedStays
<1>6. /\ record \in Records /\ record.status = "failed" /\ record.stage = flow.record.stage
      /\ record.opportunity = flow.record.opportunity /\ record.prd = flow.record.prd
  BY <1>1 DEF Records
<1>7. NamedNext(record) BY <1>5, <1>6 DEF NamedNext
<1>8. SaveRecord(record) /\ flow' = NoId BY DEF PipelineFails
<1>9. RecordInv' /\ pipeline' \in Records \cup {NoId}
  BY <1>4, <1>6, <1>7, <1>8, SaveKeeps
<1>10. PmTypeOK' BY <1>3, <1>8, <1>9 DEF IInv, PmTypeOK, PipelineFails
<1> QED BY <1>4, <1>8, <1>9, <1>10, EditsKept, WritingKept, FlowKept, TablesKept DEF IInv, PipelineFails

LEMMA TraceStep ==
  ASSUME IInv, TracePipeline
  PROVE  IInv'
<1>1. Grows BY Same DEF TracePipeline
<1>2. PmTypeOK' BY DEF IInv, PmTypeOK, TracePipeline
<1> QED BY <1>1, <1>2, EditsKept, WritingKept, FlowKept, RecordKept, TablesKept DEF IInv, TracePipeline

LEMMA CrashStep ==
  ASSUME IInv, PmCrash
  PROVE  IInv'
<1>1. /\ flow' = NoId /\ editing' = {} /\ writing' = [w \in Writers |-> NoId]
      /\ UNCHANGED <<pmTables, gated, handed, drops>>
  BY DEF PmCrash
<1>2. Grows BY <1>1, Same DEF pmTables
<1>3. PmTypeOK' BY <1>1 DEF IInv, PmTypeOK, pmTables
<1> QED BY <1>1, <1>2, <1>3, EditsKept, WritingKept, FlowKept, RecordKept, TablesKept DEF IInv, pmTables

LEMMA StutterStep ==
  ASSUME IInv, UNCHANGED pmVars
  PROVE  IInv'
<1>1. Grows BY Same DEF pmVars
<1>2. PmTypeOK' BY DEF IInv, PmTypeOK, pmVars
<1> QED BY <1>1, <1>2, EditsKept, WritingKept, FlowKept, RecordKept, TablesKept DEF IInv, pmVars

-----------------------------------------------------------------------------
LEMMA InitHolds == PmInit => IInv
<1> SUFFICES ASSUME PmInit PROVE IInv
  OBVIOUS
<1>1. PmTypeOK BY PmAssumption DEF PmInit, PmTypeOK
<1>2. TablesInv BY PmAssumption DEF PmInit, TablesInv
<1> QED BY <1>1, <1>2 DEF PmInit, IInv, EditsInv, WritingInv, FlowInv, RecordInv

LEMMA StepKeeps == IInv /\ [PmNext]_pmVars => IInv'
<1> SUFFICES ASSUME IInv, [PmNext]_pmVars PROVE IInv'
  OBVIOUS
<1>1. CASE CaptureFeedback \/ LaunchReview BY <1>1, CaptureStep
<1>2. CASE GenerateInsights BY <1>2, GenerateInsightsStep
<1>3. CASE CreateOpportunity BY <1>3, CreateOpportunityStep
<1>4. CASE \E o \in DOMAIN opportunities :
             \/ \E status \in {"approved", "rejected"} : DecideOpportunity(o, status)
             \/ \E w \in Writers : BeginPrd(w, o) \/ BeginPrdByTool(w, o)
  BY <1>4, DecideStep, BeginStep
<1>5. CASE \E w \in Writers : EndPrd(w) BY <1>5, EndStep
<1>6. CASE \E p \in DOMAIN prds, to \in PrdStatus : ReadPrd(p, to) BY <1>6, ReadPrdStep
<1>7. CASE \E edit \in editing : WritePrd(edit) BY <1>7, WritePrdStep
<1>8. CASE \E p \in DOMAIN prds : BuildHandoff(p) BY <1>8, BuildHandoffStep
<1>9. CASE StartPipeline BY <1>9, StartPipelineStep
<1>10. CASE PipelineCapture BY <1>10, PipelineCaptureStep
<1>11. CASE PipelineInsight BY <1>11, PipelineInsightStep
<1>12. CASE PipelineClustered BY <1>12, PipelineClusteredStep
<1>13. CASE PipelineOpportunity BY <1>13, PipelineOpportunityStep
<1>14. CASE PipelinePrd BY <1>14, PipelinePrdStep
<1>15. CASE SavePipeline BY <1>15, SavePipelineStep
<1>16. CASE PipelineFails BY <1>16, PipelineFailsStep
<1>17. CASE TracePipeline BY <1>17, TraceStep
<1>18. CASE PmCrash BY <1>18, CrashStep
<1>19. CASE UNCHANGED pmVars BY <1>19, StutterStep
<1> QED BY <1>1, <1>2, <1>3, <1>4, <1>5, <1>6, <1>7, <1>8, <1>9, <1>10, <1>11, <1>12, <1>13,
           <1>14, <1>15, <1>16, <1>17, <1>18, <1>19 DEF PmNext

LEMMA InvHolds == PmSpec => []IInv
BY InitHolds, StepKeeps, PTL DEF PmSpec

-----------------------------------------------------------------------------
\* The variables keep their types: among others, a document is made from an opportunity
\* that is named, and a record names what its columns hold (pm/repository.py, pm/schemas.py).
THEOREM PmTypes == PmSpec => []PmTypeOK
<1>1. IInv => PmTypeOK BY DEF IInv
<1> QED BY <1>1, InvHolds, PTL

\* Whatever writes are lost, whatever edits overwrite each other and wherever the process
\* dies: documents rest on stored feedback, the console's on an approved opportunity, no
\* document is ready or handed off before its gate, and a completed pipeline names its
\* document (pm_router.py, pm/workflow.py).
THEOREM EvidenceReachesDelivery == PmSpec => []EvidenceToDelivery
<1>1. IInv => EvidenceToDelivery
  <2> SUFFICES ASSUME IInv PROVE EvidenceToDelivery
    OBVIOUS
  <2>1. ASSUME NEW p \in DOMAIN prds
        PROVE  /\ prds[p].evidence # {} /\ prds[p].evidence \subseteq 1 .. feedback
               /\ prds[p].by = "console" => <<prds[p].opportunity, "approved">> \in decisions
               /\ prds[p].status = "ready_for_delivery" => p \in gated
    BY <2>1 DEF IInv, TablesInv, Founded, Grounded, Captured
  <2>2. pipeline # NoId /\ pipeline.status = "completed" =>
          /\ pipeline.prd # NoId
          /\ drops = 0 => OnFile(opportunities, pipeline.opportunity) /\ OnFile(prds, pipeline.prd)
    BY DEF IInv, RecordInv, Named
  <2> QED BY <2>1, <2>2 DEF IInv, EvidenceToDelivery
<1> QED BY <1>1, InvHolds, PTL
================================================================================
