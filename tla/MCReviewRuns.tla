---------------------------- MODULE MCReviewRuns ----------------------------
\* TLC: a review run with its clients, or with a page that shows it, one crash and one
\* failed write.
EXTENDS RunPage

CONSTANTS s1, s2

VARIABLE focus

all == <<watched, focus>>

MCInit == Init /\ PageInit /\ focus \in {"run", "page"}

MCNext ==
  /\ UNCHANGED focus
  /\ \/ focus = "run" /\ Next /\ UNCHANGED pageVars
     \/ /\ focus = "page" /\ PageNext
        /\ crashes' <= 1 /\ errors' <= 1
        /\ \A s \in Streams \ {Watch} : stream'[s] = "closed"

MCSpec == MCInit /\ [][MCNext]_all /\ PageFairness
=============================================================================
