\* Three attempts; the model stops when the executable is gone.
CONSTANTS
  i1 = i1
  i2 = i2
  i3 = i3
  Images = {i1, i2, i3}
  Absent = Absent
  Cut = Cut
  MaxAttempts = 3
SPECIFICATION FairSpec
INVARIANTS
  FailureLeavesInstalled
  ProgramAtHand
PROPERTIES
  ImplementsInstallation
  HelperEnds
CHECK_DEADLOCK FALSE
