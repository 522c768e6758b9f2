\* Commits from peers, merged into HEAD or adopted as HEAD.
SPECIFICATION Spec
CONSTANTS
  a = a  ac = ac  b = b  k1 = k1  k2 = k2  p1 = p1  p2 = p2
  NoFile = NoFile  None = None  Torn = Torn
  Paths <- MCPaths
  Chunks = {k1, k2}
  Inputs <- MCOneInput
  PeerTrees <- MCPeerTrees
  MergeTrees <- MCMergeTrees
  Commands = {"add", "snapshot", "merge", "sync", "gc"}
  Retain = 1
  MaxCommits = 3
  Concurrent = FALSE
  Crashes = "between writes"
  Procs = {p1}
INVARIANTS TypeOK RootsRestorable
PROPERTIES GcKeepsRoots ImplementsFolder
