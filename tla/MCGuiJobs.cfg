\* Four jobs of either kind; the model stops when the window is closed.
CONSTANTS
  j1 = j1
  j2 = j2
  j3 = j3
  j4 = j4
  Jobs = {j1, j2, j3, j4}
  NoJob = NoJob
SPECIFICATION FairSpec
INVARIANTS
  AtMostOneJob
  NothingStranded
PROPERTIES
  OverwrittenOnlyBeforeDispatch
  JobsComeToAnEnd
CHECK_DEADLOCK FALSE
