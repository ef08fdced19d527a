\* The scheduler and one caller, two pages, two days, two attempts: two faults without
\* edits, or one fault while both pages of a bitable are edited.
CONSTANTS
  loop = loop
  caller1 = caller1
  Foci = {"faults", "edits"}
  Workers = {loop, caller1}
  Loop = loop
  Kinds = {"bitable", "document"}
  PageCount = 2
  DayCount = 2
  Confirmable = {1}
  MaxAttempts = 2
  MaxVersion = 2
  MaxFaults = 2
SPECIFICATION MCSpec
INVARIANTS OneRunPerJob ImportedBeforeCursor
PROPERTIES OverForTheDay ConfirmedKept BitableCatchesUp
