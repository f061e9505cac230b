\* Three calls under one ID or two: one creates a cluster of a master and a
\* public agent and two install, destroy or clean; or two provision and one
\* does; or one creates a sidecar and two create, destroy or clean sidecars.
\* One failure or exit.
SPECIFICATION Spec
CONSTANTS
  p1 = p1
  p2 = p2
  p3 = p3
  id1 = id1
  id2 = id2
  Calls = {p1, p2, p3}
  Ids = {id1, id2}
  Masters = 1
  Agents = 0
  PublicAgents = 1
  NoCall = NoCall
  Given <- ThreeCalls
  MaxFaults = 1
SYMMETRY Symmetry
INVARIANTS
  CreatedIsWhole
  UniqueUnlessConcurrent
  
  CleanLeavesNoContainer
  DeviceIsReleased
