--------------------------- MODULE MCEvidenceSync ---------------------------
(***************************************************************************)
(* Small instances of EvidenceSync for TLC: the scheduler's loop and one   *)
(* other caller.  A behaviour either has all the faults there are or all   *)
(* the edits there are, so that neither bound multiplies the other.        *)
(***************************************************************************)
EXTENDS EvidenceSync

CONSTANTS
  loop, caller1,
  Foci            \* of "faults", "edits" and "document"

VARIABLE focus

mcVars == <<vars, focus>>

MCInit ==
  /\ Init
  /\ focus \in Foci
  /\ focus = "edits" => kind = "bitable"

\* Without edits, every page stays in its first version.
Within ==
  /\ UNCHANGED focus
  /\ faults' <= IF focus = "edits" THEN 1 ELSE MaxFaults
  /\ focus = "faults" => \A p \in Pages : remote'[p] = 1

MCNext == Next /\ Within

MCFairness ==
  /\ WF_mcVars(ScheduledSync /\ Within)
  /\ WF_mcVars(NewDay /\ Within)
  /\ WF_mcVars(Restart /\ Within)
  /\ \A w \in Workers : WF_mcVars(Step(w) /\ Within)

MCSpec == MCInit /\ [][MCNext]_mcVars /\ MCFairness
=============================================================================
