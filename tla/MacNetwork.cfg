\* Three calls of any command; one of them fails or is killed.
SPECIFICATION FairSpec
CONSTANTS
  c1 = c1
  c2 = c2
  c3 = c3
  None = None
  Calls = {c1, c2, c3}
  MaxFaults = 1
INVARIANTS
  ForceResolvesConflicts
PROPERTIES
  DoneIsWhole
  CallsEnd
