\* Two blocks with the same name for their stacks; two instances each; two
\* failures and one update.
SPECIFICATION FairSpec
CONSTANTS
  c1 = c1
  c2 = c2
  k1 = k1
  k2 = k2
  n1 = n1
  Clusters = {c1, c2}
  Names = {n1}
  Nodes = {k1, k2}
  None = None
  MaxFaults = 2
  MaxUpdates = 1
INVARIANTS
  DoneLeavesNothing
  WorkspaceOutlivesInstances
PROPERTIES
  OwnKeyPairOnly
  KeepsPromise
  CallsEnd
