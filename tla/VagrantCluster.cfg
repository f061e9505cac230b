\* Two masters, an agent and a public agent; two failures; one VM may stop on
\* its own.
SPECIFICATION Spec
CONSTANTS
  k1 = k1
  k2 = k2
  k3 = k3
  k4 = k4
  Vms = {k1, k2, k3, k4}
  Role <- TwoMasters
  None = None
  MaxFaults = 2
  MaxHalts = 1
INVARIANTS
  RunningIsKnown
PROPERTIES
  NodeIsGone
  KeepsPromise
