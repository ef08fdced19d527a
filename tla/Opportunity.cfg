\* Two handlers at a time, all operations, three records of which two are listed.
CONSTANTS
  s1 = s1
  s2 = s2
  owner = owner
  anonymous = anonymous
  Slots = {s1, s2}
  Anonymous = anonymous
  Actors = {owner, anonymous}
  Owners = {owner}
  Asked <- AllOps
  Window = 2
  MaxEvidence = 3
  MaxRequests = 4
  MaxFaults = 1
SPECIFICATION Spec
INVARIANTS OwnerApproved Grounded
PROPERTIES DecisionsStand EvidenceKept
SYMMETRY SlotSymmetry
CHECK_DEADLOCK FALSE
