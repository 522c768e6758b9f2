\* Every part, one at a time.
SPECIFICATION PartsSpec
CONSTANTS
  Scenes = {"merge", "watch", "upkeep", "config", "replicas", "wire"}
  a = a  b = b  ac = ac  bc = bc  k1 = k1  k2 = k2  k3 = k3
  NoFile = NoFile
  Paths <- MCPaths
  Chunks = {k1, k2, k3}
  Order <- MCOrder
  ConflictPath <- MCConflictPath
  OurSides <- Fresh
  TheirSides <- Fresh
  WatchedFiles = {f1, ft}
  Temporary = {ft}
  Debounce = 2
  MaxSaves = 2
  MaxEvents = 2
  NoLog = NoLog
  Interval = 2
  Poll = 1
  KeepNewest = 1
  MaxClock = 4
  MaxMade = 2
  MaxResets = 1
  Clients = {cl1, cl2}
  Passphrases = {w1, w2}
  n1 = n1
  Nodes = {n1}
  Replicas = {2, 3}
  i1 = i1
  Invites = {i1}
  Terms <- MCTerms
  DefaultReplicas = 2
  NoFileYet = NoFileYet
  Truncated = Truncated
  Mixture = Mixture
  NoId = NoId
  FirstId = FirstId
  NoSignature = NoSignature
  MaxCommands = 3
  p1 = p1  p2 = p2
  wk1 = wk1  wk2 = wk2
  Workers = {wk1, wk2}
  NameOrder <- MCNameOrder
  Self = self
  Preferred = {p2}
  MinReplicas = 2
  MaxHeadAge = 3600
  Unit = 36000
  Torn = Torn
  NoDraft = NoDraft
  Never = Never
  MaxCommits = 2
  MaxHeard = 1
  MaxNow = 1
  MaxDamage = 1
  Said = {h1}
  PathNames = {1, 2, 3}
  BadPaths = {3}
  Numbers = {0, 23, 24, 255, 256, 65535, 65536}
  NoText = NoText
  Unsigned = Unsigned
  Rejected = Rejected
  MaxEntries = 2
  MaxParents = 1
  MaxEdits = 1
INVARIANTS
  PartsTypeOK
  KeepsOurs KeepsTheirs CountsConflicts Remerging
  Tracked
  RegistryIsNewest RetentionHolds GapBounded
  KeyKept Openable PlainKeyGone MinAgrees SignatureCovers
  NotedStays PreferredFirst LossIsCritical
  OneWirePerObject
PROPERTIES Debounced Converges SnapshotsApart
CHECK_DEADLOCK FALSE
