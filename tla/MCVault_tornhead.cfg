\* A kill inside the write of HEAD, then a gc.
SPECIFICATION Spec
CONSTANTS
  a = a  ac = ac  b = b  k1 = k1  k2 = k2  p1 = p1  p2 = p2
  NoFile = NoFile  None = None  Torn = Torn
  Paths <- MCPaths
  Chunks = {k1, k2}
  Inputs <- MCInputs
  PeerTrees <- MCPeerTrees
  MergeTrees <- MCMergeTrees
  Commands = {"add", "snapshot", "gc"}
  Retain = 0
  MaxCommits = 3
  Concurrent = FALSE
  Crashes = "anywhere"
  Procs = {p1}
PROPERTY GcKeepsRoots
