\* One command at a time, killed anywhere but inside a file write.
SPECIFICATION Spec
CONSTANTS
  a = a  ac = ac  b = b  k1 = k1  k2 = k2  p1 = p1  p2 = p2
  NoFile = NoFile  None = None  Torn = Torn
  Paths <- MCPaths
  Chunks = {k1, k2}
  Inputs <- MCInputs
  PeerTrees <- MCPeerTrees
  MergeTrees <- MCMergeTrees
  Commands = {"add", "snapshot", "gc"}
  Retain = 1
  MaxCommits = 4
  Concurrent = FALSE
  Crashes = "between writes"
  Procs = {p1}
INVARIANTS AddKeepsParentFiles AckedKept
PROPERTY AddParentedToHead
