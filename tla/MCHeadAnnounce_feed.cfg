\* Commands of the announcing home one after the other; lossy gossip; kills.
CONSTANTS
  s1 = s1  s2 = s2  r1 = r1  r2 = r2  r3 = r3
  v1 = v1  v2 = v2  h1 = h1  h2 = h2  q1 = q1
  None = None  Torn = Torn  Mixed = Mixed  NodeFile = NodeFile
  Base = 2
  Senders = {s1}
  Listeners = {r1, r2, r3}
  VaultOf <- MCVaultOf
  Vaults = {v1, v2}
  Heads = {h1, h2}
  Peers = {q1}
  MaxSaid = 2
  MaxKeys = 2
  MaxHeard = 3
SPECIFICATION Spec
INVARIANTS TypeOK NumbersUnique NextIsFresh
PROPERTIES ImplementsFeed KeyStays
SYMMETRY Symmetry
CHECK_DEADLOCK FALSE
