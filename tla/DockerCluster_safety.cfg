\* Two blocks of one master and one public agent, with an address for every
\* node, one failure and one container that stops on its own.
SPECIFICATION Spec
CONSTANTS
  c1 = c1
  c2 = c2
  a1 = a1
  a2 = a2
  a3 = a3
  a4 = a4
  Clusters = {c1, c2}
  Masters = 1
  Agents = 0
  PublicAgents = 1
  Addresses = {a1, a2, a3, a4}
  NoAddress = NoAddress
  SshTries = 2
  MaxFaults = 1
  MaxExits = 1
SYMMETRY SymmetricHost
INVARIANTS
  OwnContainersOnly
  KeyOutlivesNodes
  DoneLeavesNothingRunning
