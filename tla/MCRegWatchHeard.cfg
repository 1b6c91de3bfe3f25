\* A key that is created anew is not heard of.
CONSTANTS
  Targets <- MCTargets
  Noisy <- MCNoisy
  Files = {"hosts"}
  RecheckEvery = 2
  MaxEdits = 3
  MaxFailures = 0
SPECIFICATION FairSpec
PROPERTY
  CreatedKeyIsHeard
