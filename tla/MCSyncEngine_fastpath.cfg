\* A second run after an interrupted one.
CONSTANTS
  c1 = c1  c2 = c2  c3 = c3  c4 = c4  t1 = t1  t2 = t2  k1 = k1  k2 = k2
  p1 = p1  p2 = p2  None = None
  Commits = {c1, c2, c3, c4}
  Trees = {t1, t2}
  Chunks = {k1, k2}
  Parents <- MCParents
  TreeOf <- MCTreeOf
  ChunksIn <- MCChunksIn
  Targets = {c3, c4}
  LocalHeads = {None, c1}
  Peers = {p1, p2}
  Holds <- MCHolds
  CheckpointEvery = 2
  MaxJobCommits = 3
  MaxFaults = 1
SPECIFICATION Spec
INVARIANT OkMeansHistory
