\* Two tasks announce through one network at once.
CONSTANTS
  s1 = s1  s2 = s2  r1 = r1  r2 = r2  r3 = r3
  v1 = v1  v2 = v2  h1 = h1  h2 = h2  q1 = q1
  None = None  Torn = Torn  Mixed = Mixed  NodeFile = NodeFile
  Base = 10
  Senders = {s1, s2}
  Listeners = {r2}
  VaultOf <- MCVaultOf
  Vaults = {v2}
  Heads = {h1, h2}
  Peers = {}
  MaxSaid = 2
  MaxKeys = 1
  MaxHeard = 1
SPECIFICATION Spec
INVARIANT NumbersUnique
CHECK_DEADLOCK FALSE
