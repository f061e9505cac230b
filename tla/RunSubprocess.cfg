\* Up to three bytes on each pipe, one read that raises.
SPECIFICATION FairSubprocessSpec
CONSTANTS
  MaxBytes = 3
  MaxRaised = 1
INVARIANTS
  SubprocessTypeOK
  NothingLost
PROPERTIES
  CallEnds
