\* The same blocks when containers run until they are stopped: the abstract
\* life of a cluster, and the end of every constructor.  Three addresses are
\* one too few for two clusters of a master and an agent.
SPECIFICATION FairSpec
CONSTANTS
  c1 = c1
  c2 = c2
  a1 = a1
  a2 = a2
  a3 = a3
  a4 = a4
  Clusters = {c1, c2}
  Masters = 1
  Agents = 1
  PublicAgents = 0
  Addresses = {a1, a2, a3}
  NoAddress = NoAddress
  SshTries = 2
  MaxFaults = 1
  MaxExits = 0
PROPERTIES
  KeepsPromise
  ConstructorEnds
