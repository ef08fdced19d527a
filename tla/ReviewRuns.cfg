\* Two streams, one of them a page's; crashes, failed writes and broken connections.
CONSTANTS
  s1 = s1
  s2 = s2
  Streams = {s1, s2}
  MaxCrashes = 2
  MaxErrors = 2
  Watch = s1
  Threshold = 2
  MaxAsks = 2
  MaxCuts = 1
SPECIFICATION MCSpec
INVARIANTS NoZombie CompletedStands
PROPERTIES EveryStreamEnds OutcomeReached OutcomeShown
