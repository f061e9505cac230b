\* A container that stops on its own gives its address to another cluster
\* while destroy still holds it.
SPECIFICATION Spec
CONSTANTS
  c1 = c1
  c2 = c2
  a1 = a1
  a2 = a2
  a3 = a3
  a4 = a4
  Clusters = {c1, c2}
  Masters = 1
  Agents = 0
  PublicAgents = 1
  Addresses = {a1, a2, a3, a4}
  NoAddress = NoAddress
  SshTries = 2
  MaxFaults = 0
  MaxExits = 1
SYMMETRY SymmetricHost
INVARIANT DestroysInTheClusterOnly
