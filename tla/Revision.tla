------------------------------- MODULE Revision -------------------------------
(***************************************************************************)
(* What follows a finished review in its run directory: the clarification  *)
(* questions and their answers, the revision of the document and its       *)
(* confirmation, and the roadmap (service/review_service.py,               *)
(* revision_service.py, roadmap_service.py, review/clarification_gate.py). *)
(*                                                                         *)
(* Every operation reads files, changes what it read and writes the whole  *)
(* file back.  Two of them await in between, and others run meanwhile: an  *)
(* answer that carries a patch, and the generation of a draft.  A draft is *)
(* the number of the generation that wrote it.                             *)
(*                                                                         *)
(* Bounds: Patchers, Generators, MaxDrafts (generations begun).            *)
(***************************************************************************)
EXTENDS Naturals, FiniteSets

CONSTANTS
  Questions,      \* questions the reviewers may ask
  Patchers,       \* answers with a patch that may be in flight at once
  Generators,     \* generations that may be under way at once
  MaxDrafts,
  Nothing         \* no record: not in flight, or no stage file

ASSUME RevisionAssumption == MaxDrafts \in Nat

VARIABLES
  report,         \* report.json
  stage,          \* revision_stage.json, or Nothing
  requested,      \* revision_request.json is there
  draft,          \* revised_prd.md; 0: none
  confirmed,      \* confirmed_prd.md; 0: none
  patching,       \* the report that each patched answer in flight holds, or Nothing
  generation,     \* what each generation under way holds, or Nothing
  begun           \* generations begun so far

revisionVars ==
  <<report, stage, requested, draft, confirmed, patching, generation, begun>>

-----------------------------------------------------------------------------
RoadmapSources == {"none", "not_recommended", "confirmed_revision", "original_prd_with_review"}

Statuses == {"prompted", "collecting_inputs", "inputs_recorded", "running", "completed",
             "failed", "confirmed", "skipped", "skipped_unconfirmed"}

Stages == [status : Statuses, entered : BOOLEAN, confirmed : BOOLEAN]

Generations == [stage : Stages, text : 1 .. MaxDrafts]

Reports ==
  [completed : BOOLEAN, asked : SUBSET Questions,
   gate : {"not_needed", "pending", "answered"},
   answered : SUBSET Questions, softened : SUBSET Questions,
   revised : BOOLEAN, roadmap : RoadmapSources]

\* identify_clarification_questions stops at three.
MaxQuestions == 3
Askable == {asked \in SUBSET Questions : Cardinality(asked) <= MaxQuestions}

\* build_clarification_payload: "answered" stays, whatever is still open.
Gate(r) ==
  IF r.gate = "answered" THEN "answered"
  ELSE IF r.asked = {} THEN "not_needed"
  ELSE IF r.asked \subseteq r.answered THEN "answered" ELSE "pending"

\* _resolved_severity: an answer of some length makes its findings medium, a short
\* one gives them their severity back.
Softened(r, given, long) == (r.softened \ given) \cup (long \cap r.asked)

\* Mutation: an answer replaces the answers given before.
Apply_Replace(r, given, long) ==
  IF given = {} THEN [r EXCEPT !.gate = Gate(r)]
  ELSE [r EXCEPT !.answered = given \cap r.asked, !.softened = Softened(r, given, long),
                 !.gate = "answered"]

\* apply_clarification_answers.  Any answer ends the gate, even to a question that was
\* not asked.
Apply(r, given, long) ==
  IF given = {} THEN [r EXCEPT !.gate = Gate(r)]
  ELSE [r EXCEPT !.answered = @ \cup (given \cap r.asked),
                 !.softened = Softened(r, given, long), !.gate = "answered"]

\* _is_review_stable_for_revision.
Stable(r) == r.completed /\ r.gate # "pending"

\* _load_revision_stage_payload over _default_revision_stage_payload; a confirmation
\* counts while the confirmed file is there.
LoadedStage ==
  IF stage = Nothing
  THEN [status |-> "prompted", entered |-> FALSE, confirmed |-> FALSE]
  ELSE [stage EXCEPT !.confirmed = @ /\ confirmed # 0]

\* _select_roadmap_source: the confirmed file is taken even when the stage no longer
\* calls it confirmed.
RoadmapSource ==
  IF confirmed # 0 THEN "confirmed_revision" ELSE "original_prd_with_review"

RevisionInit ==
  /\ \E asked \in Askable, completed \in BOOLEAN :
       report = [completed |-> completed, asked |-> asked,
                 gate |-> IF asked = {} THEN "not_needed" ELSE "pending",
                 answered |-> {}, softened |-> {}, revised |-> FALSE, roadmap |-> "none"]
  /\ stage = Nothing
  /\ requested = FALSE
  /\ draft = 0 /\ confirmed = 0
  /\ patching = [a \in Patchers |-> Nothing]
  /\ generation = [g \in Generators |-> Nothing]
  /\ begun = 0

-----------------------------------------------------------------------------
\* answer_review_clarification.
Answer(given, long) ==
  /\ report.asked # {}
  /\ report' = Apply(report, given, long)
  /\ UNCHANGED <<stage, requested, draft, confirmed, generation, begun>>

\* answer_review_clarification_async: with a patch context the report, read again, is
\* then kept over the awaits of the patch.
AnswerWithPatch(a, given, long) ==
  /\ patching[a] = Nothing
  /\ Answer(given, long)
  /\ patching' = [patching EXCEPT ![a] = report']

\* _write_clarification_patch_payload: the kept report is written as a whole; or the
\* patch raised, and nothing is.
EndPatch(a) ==
  /\ patching[a] # Nothing
  /\ \/ report' = patching[a]
     \/ UNCHANGED report
  /\ patching' = [patching EXCEPT ![a] = Nothing]
  /\ UNCHANGED <<stage, requested, draft, confirmed, generation, begun>>

\* record_revision_stage_decision.
Decide(enter) ==
  /\ Stable(report)
  /\ stage' = [status |-> IF enter THEN "collecting_inputs" ELSE "skipped",
               entered |-> enter, confirmed |-> FALSE]
  /\ UNCHANGED <<report, requested, draft, confirmed, patching, generation, begun>>

\* record_revision_input.
RecordInput ==
  /\ Stable(report)
  /\ LoadedStage.entered
  /\ requested' = TRUE
  /\ stage' = [LoadedStage EXCEPT !.status = "inputs_recorded", !.confirmed = FALSE]
  /\ UNCHANGED <<report, draft, confirmed, patching, generation, begun>>

-----------------------------------------------------------------------------
\* generate_revision_for_run_async up to its LLM call: s is the stage it read.
BeginGeneration(g, s) ==
  /\ generation[g] = Nothing
  /\ begun < MaxDrafts
  /\ begun' = begun + 1
  /\ generation' = [generation EXCEPT ![g] = [stage |-> s, text |-> begun']]
  /\ stage' = [s EXCEPT !.status = "running"]

\* _project_generate_revision.
Generate(g) ==
  /\ Stable(report)
  /\ LoadedStage.entered
  /\ requested
  /\ BeginGeneration(g, LoadedStage)
  /\ UNCHANGED <<report, requested, draft, confirmed, patching>>

\* _update_report_artifacts reads the report again.
UpdateReportArtifacts == report' = [report EXCEPT !.revised = TRUE]

\* The rest of generate_revision_for_run_async: the stage read at its beginning is
\* written back, over whatever was decided meanwhile.
EndGeneration(g) ==
  /\ generation[g] # Nothing
  /\ \/ /\ draft' = generation[g].text
        /\ stage' = [generation[g].stage EXCEPT !.status = "completed"]
        /\ UpdateReportArtifacts
     \/ /\ stage' = [generation[g].stage EXCEPT !.status = "failed"]
        /\ UNCHANGED <<draft, report>>
  /\ generation' = [generation EXCEPT ![g] = Nothing]
  /\ UNCHANGED <<requested, confirmed, patching, begun>>

\* confirm_revision_action, confirm_revision: neither the gate nor the stage is asked.
Confirm ==
  /\ draft # 0
  /\ confirmed' = draft
  /\ stage' = [LoadedStage EXCEPT !.status = "confirmed", !.confirmed = TRUE]
  /\ UNCHANGED <<report, requested, draft, patching, generation, begun>>

\* confirm_revision_action, continue_without_revision: the confirmed file stays.
ContinueWithout ==
  /\ stage' = [status |-> "skipped_unconfirmed", entered |-> FALSE, confirmed |-> FALSE]
  /\ UNCHANGED <<report, requested, draft, confirmed, patching, generation, begun>>

\* _project_confirm_revision, regenerate_revision: the request is written, then the
\* generation begins if the review is stable.
Regenerate(g) ==
  LET next == [LoadedStage EXCEPT !.status = "inputs_recorded", !.entered = TRUE,
                                  !.confirmed = FALSE]
  IN  /\ requested' = TRUE
      /\ \/ Stable(report) /\ BeginGeneration(g, next)
         \/ ~ Stable(report) /\ stage' = next /\ UNCHANGED <<generation, begun>>
      /\ UNCHANGED <<report, draft, confirmed, patching>>

\* generate_roadmap_for_run; whether a roadmap is recommended depends on the tasks.
MakeRoadmap ==
  /\ \E source \in {"not_recommended", RoadmapSource} :
       report' = [report EXCEPT !.roadmap = source]
  /\ UNCHANGED <<stage, requested, draft, confirmed, patching, generation, begun>>

\* The process dies: what is under way is lost, and a stage stays "running".
RevisionCrash ==
  /\ patching' = [a \in Patchers |-> Nothing]
  /\ generation' = [g \in Generators |-> Nothing]
  /\ UNCHANGED <<report, stage, requested, draft, confirmed, begun>>

\* The endpoints of a run that change its directory.
RevisionNext ==
  \/ \E given \in SUBSET Questions : \E long \in SUBSET given :
       \/ Answer(given, long) /\ UNCHANGED patching
       \/ \E a \in Patchers : AnswerWithPatch(a, given, long)
  \/ \E a \in Patchers : EndPatch(a)
  \/ \E enter \in BOOLEAN : Decide(enter)
  \/ RecordInput \/ Confirm \/ ContinueWithout \/ MakeRoadmap \/ RevisionCrash
  \/ \E g \in Generators : Generate(g) \/ EndGeneration(g) \/ Regenerate(g)

RevisionSpec == RevisionInit /\ [][RevisionNext]_revisionVars

-----------------------------------------------------------------------------
\* The values the variables range over.
RevisionTypeOK ==
  /\ report \in Reports
  /\ stage \in Stages \cup {Nothing}
  /\ requested \in BOOLEAN
  /\ draft \in 0 .. MaxDrafts /\ confirmed \in 0 .. MaxDrafts
  /\ patching \in [Patchers -> Reports \cup {Nothing}]
  /\ generation \in [Generators -> Generations \cup {Nothing}]
  /\ begun \in 0 .. MaxDrafts

\* With no patched answer in flight no operation takes anything out of the report that
\* another one put there: neither answers, nor the end of the gate, nor the artifacts
\* of a revision, nor a roadmap.
NothingLost ==
  (\A a \in Patchers : patching[a] = Nothing) =>
    /\ report.answered \subseteq report'.answered
    /\ report.gate = "answered" => report'.gate = "answered"
    /\ report.revised => report'.revised
    /\ report.roadmap # "none" => report'.roadmap # "none"

\* A run becomes confirmed by hand, with the text of the draft of that moment, or by the
\* end of a generation that began while it was confirmed.
ConfirmedByHand ==
  /\ confirmed' # confirmed => confirmed' = draft /\ draft' = draft
  /\ (stage' # Nothing /\ stage'.confirmed /\ (stage = Nothing \/ ~ stage.confirmed)) =>
       \/ confirmed' = draft /\ draft # 0
       \/ \E g \in Generators : generation[g] # Nothing /\ generation[g].stage.confirmed

\* Files that are read, changed and written back by several operations keep what each of
\* them wrote, and a confirmation is somebody's.
RevisionKept == [][NothingLost /\ ConfirmedByHand]_revisionVars
=============================================================================
