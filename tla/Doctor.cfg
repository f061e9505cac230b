\* Every host with up to three problems, and one call that fails.
SPECIFICATION DoctorSpec
CONSTANTS
  MaxProblems = 3
  MaxFaults = 1
INVARIANTS
  DoctorTypeOK
  TellsWhatIsWrong
  LeavesNothingRunning
