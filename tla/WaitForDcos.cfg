\* Two waits; a component of each kind may not be up; one goes down.
SPECIFICATION FairSpec
CONSTANTS
  w1 = w1
  w2 = w2
  Waits = {w1, w2}
  Unsteady = {"variant", "login", "services"}
  MaxDowns = 1
INVARIANTS
  RunAgainWorks
PROPERTIES
  SuccessIsWhole
  WaitEnds
