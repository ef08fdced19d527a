\* Two handlers at a time: a stale decision goes out.
CONSTANTS
  s1 = s1
  s2 = s2
  owner = owner
  anonymous = anonymous
  project = project
  Slots = {s1, s2}
  Actors = {owner, anonymous}
  Owners = {owner}
  Anonymous = anonymous
  Targets = {project}
  HasFallback = {project}
  Asked <- AskedAll
  MaxVersion = 1
  MaxCopies = 2
  MaxFaults = 0
SPECIFICATION Spec
INVARIANTS PassOrWaived
SYMMETRY SlotSymmetry
