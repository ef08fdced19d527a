SPECIFICATION Spec
CONSTANTS
  t1 = t1  t2 = t2  x1 = x1  x2 = x2  p1 = p1  p2 = p2
  j1 = j1  j2 = j2  d1 = d1  s1 = s1  s2 = s2  k1 = k1  k2 = k2
  NoChecksum = NoChecksum  NoUrl = NoUrl  Url = Url  Nobody = Nobody  NoCommand = NoCommand
  NoTask = NoTask  Webhook = Webhook  Manual = Manual
  Unset = Unset  NoKey = NoKey  NoRow = NoRow
  Foci = {"connections"}
  AgentSources = 1
  Titles = {t1, t2}
  Texts = {x1, x2}
  MaxSources = 2
  MaxReviews = 1
  Commands = {1, 2}
  MaxTries = 2
  Pages = {p1, p2}
  MaxEdits = 2
  MaxTasks = 2
  MaxRuns = 2
  DefaultAttempts = 2
  Providers = {"github", "notion"}
  Projects = {j1, j2}
  Docs = {d1}
  Secrets = {s1, s2}
  Environment <- SharedSecrets
  MasterKeys = {k1, k2}
  Checked = TRUE
  MaxPuts = 2
  MaxEvents = 1
SYMMETRY Symmetry
INVARIANT ProjectSecretCounts
