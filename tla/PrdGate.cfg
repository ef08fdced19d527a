\* Two handlers at a time on one version, one failure or crash.
CONSTANTS
  s1 = s1
  s2 = s2
  owner = owner
  anonymous = anonymous
  project = project
  Slots = {s1, s2}
  Actors = {owner, anonymous}
  Owners = {owner}
  Anonymous = anonymous
  Targets = {project}
  HasFallback = {}
  Asked <- AskedAll
  MaxVersion = 1
  MaxCopies = 2
  MaxFaults = 1
SPECIFICATION Spec
INVARIANTS GateEvidence HumanBeforeDelivery AuditTrail
SYMMETRY SlotSymmetry
