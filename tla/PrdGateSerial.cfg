\* One handler at a time, two versions, one failure or crash.
CONSTANTS
  s1 = s1
  s2 = s2
  owner = owner
  anonymous = anonymous
  project = project
  Slots = {s1}
  Actors = {owner, anonymous}
  Owners = {owner}
  Anonymous = anonymous
  Targets = {project}
  HasFallback = {project}
  Asked <- AskedAll
  MaxVersion = 2
  MaxCopies = 2
  MaxFaults = 1
SPECIFICATION Spec
INVARIANTS PassOrWaived AtMostOneCopy
PROPERTIES VersionsOnlyAdvance GateSpec
