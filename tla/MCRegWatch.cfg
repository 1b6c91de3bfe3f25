\* Three keys, one of them changing without end, and a file.
CONSTANTS
  Targets <- MCTargets
  Noisy <- MCNoisy
  Files = {"hosts"}
  RecheckEvery = 2
  MaxEdits = 3
  MaxFailures = 1
SPECIFICATION FairSpec
INVARIANT NeverDeaf
PROPERTIES
  CreatedKeyIsAdded
  EveryChangeIsLogged
