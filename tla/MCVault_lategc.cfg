\* A gc that has marked, next to an add that publishes.
SPECIFICATION Spec
CONSTANTS
  a = a  ac = ac  b = b  k1 = k1  k2 = k2  p1 = p1  p2 = p2
  NoFile = NoFile  None = None  Torn = Torn
  Paths <- MCPaths
  Chunks = {k1, k2}
  Inputs <- MCInputs
  PeerTrees <- MCPeerTrees
  MergeTrees <- MCMergeTrees
  Commands = {"add", "gc"}
  Retain = 0
  MaxCommits = 3
  Concurrent = TRUE
  Crashes = "never"
  Procs = {p1, p2}
PROPERTY GcKeepsRoots
