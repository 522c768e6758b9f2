\* Overlapping commands: adds and snapshots with kills, and a mix with gc.
SPECIFICATION OverlapSpec
CONSTANTS
  a = a  ac = ac  b = b  k1 = k1  k2 = k2  p1 = p1  p2 = p2
  NoFile = NoFile  None = None  Torn = Torn
  Paths <- MCPaths
  Chunks = {k1, k2}
  Inputs <- MCInputsB
  PeerTrees <- MCPeerTrees
  MergeTrees <- MCMergeTrees
  Commands = {"add", "snapshot", "merge", "mergeany", "sync", "gc"}
  Retain = 1
  Mixes <- MCMixes
  MaxCommits = 3
  Concurrent = TRUE
  Crashes = "between writes"
  Procs = {p1, p2}
INVARIANTS RootsWithoutGc AckedWithoutGc QuietDiskIntact
SYMMETRY Symmetry
CHECK_DEADLOCK FALSE
