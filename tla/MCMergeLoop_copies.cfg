\* Our folder holds the conflict copies of an earlier merge.
SPECIFICATION Spec
CONSTANTS
  a = a  b = b  ac = ac  bc = bc  k1 = k1  k2 = k2  k3 = k3
  NoFile = NoFile
  Paths <- MCPaths
  Chunks = {k1, k2}
  Order <- MCOrder
  ConflictPath <- MCConflictPath
  OurSides <- Tree
  TheirSides <- Fresh
INVARIANT KeepsOurs
CHECK_DEADLOCK FALSE
