\* Two adds: the tree is built on one HEAD and parented to another.
SPECIFICATION Spec
CONSTANTS
  a = a  ac = ac  b = b  k1 = k1  k2 = k2  p1 = p1  p2 = p2
  NoFile = NoFile  None = None  Torn = Torn
  Paths <- MCPaths
  Chunks = {k1, k2}
  Inputs <- MCInputsB
  PeerTrees <- MCPeerTrees
  MergeTrees <- MCMergeTrees
  Commands = {"add"}
  Retain = 0
  MaxCommits = 3
  Concurrent = TRUE
  Crashes = "never"
  Procs = {p1, p2}
INVARIANT AddKeepsParentFiles
