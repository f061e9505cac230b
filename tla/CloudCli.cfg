\* Three commands, two IDs, a master and an agent.
SPECIFICATION Spec
CONSTANTS
  p1 = p1
  p2 = p2
  p3 = p3
  c1 = c1
  c2 = c2
  Commands = {p1, p2, p3}
  Ids = {c1, c2}
  Masters = 1
  Agents = 1
  PublicAgents = 0
  Given <- Mixes
  MaxFaults = 1
  MaxReboots = 1
SYMMETRY Symmetric
INVARIANTS
  OneClusterPerId
  
  MadeIsListed
  CleanRemovesAborted
PROPERTIES
  
  CleanSparesRunning
