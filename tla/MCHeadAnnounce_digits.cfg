\* Two tasks that listen for a vault store numbers of different length at once.
CONSTANTS
  s1 = s1  s2 = s2  r1 = r1  r2 = r2  r3 = r3
  v1 = v1  v2 = v2  h1 = h1  h2 = h2  q1 = q1
  None = None  Torn = Torn  Mixed = Mixed  NodeFile = NodeFile
  Base = 3
  Senders = {s1}
  Listeners = {r2, r3}
  VaultOf <- MCVaultOf
  Vaults = {v2}
  Heads = {h1}
  Peers = {}
  MaxSaid = 3
  MaxKeys = 1
  MaxHeard = 1
SPECIFICATION Spec
INVARIANT StoredWasSaid
CHECK_DEADLOCK FALSE
