\* A document that is edited; no faults.
CONSTANTS
  loop = loop
  caller1 = caller1
  Foci = {"document"}
  Workers = {loop, caller1}
  Loop = loop
  Kinds = {"document"}
  PageCount = 2
  DayCount = 2
  Confirmable = {1}
  MaxAttempts = 2
  MaxVersion = 2
  MaxFaults = 0
SPECIFICATION MCSpec
PROPERTIES DocumentCatchesUp
