\* Two jobs that install or upgrade, or two that send or sync, on clusters of
\* two masters; one failure or interruption.
SPECIFICATION Spec
CONSTANTS
  j1 = j1
  j2 = j2
  c1 = c1
  c2 = c2
  Jobs = {j1, j2}
  Clusters = {c1, c2}
  Masters = 2
  Agents = 0
  PublicAgents = 0
  Users = {root, centos}
  Root = root
  Nobody = Nobody
  Garbled = Garbled
  Before = Before
  Given <- Mixes
  ExtraFiles = TRUE
  MaxFaults = 1
SYMMETRY Symmetric
INVARIANTS
  OwnConfig
  OwnerIsBack
  NeverHalfInstalled
  SyncIsExact
