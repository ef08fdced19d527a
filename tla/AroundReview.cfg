SPECIFICATION Spec
CONSTANTS
  q1 = q1  q2 = q2  g1 = g1  a1 = a1  e1 = e1  e2 = e2
  b1 = b1  b2 = b2  b3 = b3  t1 = t1  t2 = t2  p1 = p1
  k1 = k1  k2 = k2  feishu = feishu  wecom = wecom  web = web  mcp = mcp
  Nothing = Nothing  NoRow = NoRow  NoPatch = NoPatch  NoFile = NoFile  Idle = Idle
  NoId = NoId  Lost = Lost  w1 = w1
  Questions = {q1, q2}
  Patchers = {a1}
  Generators = {g1}
  MaxDrafts = 2
  Editors = {e1, e2}
  MaxVersions = 3
  Blocks = {b1, b2, b3}
  Texts = {t1, t2}
  MaxPatchOps = 3
  Packs = {p1}
  MaxDecisions = 4
  MaxBuilds = 2
  MaxDeaths = 1
  Notes = {k1, k2}
  Types = {"execution_completed"}
  TypeOf <- SameType
  Channels <- Sends
  DryRun = {wecom}
  Dispatchers = {web, mcp}
  MaxRecords = 3
  MaxRetries = 1
  MaxCuts = 1
  Writers = {w1}
  MaxFeedback = 1
  MaxRows = 1
  MaxDrops = 1
  MaxOpen = 2
  x1 = x1  x2 = x2  m1 = m1  m2 = m2  None = None
  Runs = {1, 2}
  Processes = {web, mcp}
  Topics = {1, 2}
  Findings <- Found
  Asked <- RunsAsked
  MaxKept = 3
  Plannings = {1, 2}
  Demands = {1}
  Answers = {1, 2}
  PlanSkills = {"implementation.plan"}
  PromptSkills = {"codex.prompt.generate"}
  Catalogs = {1}
  TTL = 1
  MaxClock = 2
  MaxRestarts = 1
CHECK_DEADLOCK FALSE
INVARIANTS
  TypeOK
  Lineage
  OneOfEach
  ApprovedWork
  RecordsTellDelivery
  EvidenceToDelivery
  Remembered
  OwnWork
PROPERTIES
  RevisionKept
