\* Three windows of two copies; lists of two entries; three files, pipes of one line.
CONSTANTS
  Windows <- MCWindows
  Path <- MCPath
  Legible <- MCLegible
  OldPath = "moved"
  Cap <- MCCap
  Machines <- MCMachines
  MaxHarms = 1
  MaxFiles = 3
  Limit = 2
  PipeSize = 1
  Timeout = 2
SPECIFICATION WinSpec
INVARIANTS
  ComparisonIsTrue
  SnapshotKept
  VerdictIsFinal
PROPERTIES
  ToldIsTrue
  ScanReturns
