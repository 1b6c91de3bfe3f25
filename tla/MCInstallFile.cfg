\* Replacing a file, with two kills.
CONSTANTS
  d1 = d1
  d2 = d2
  d3 = d3
  Data = {d1, d2, d3}
  Absent = Absent
  Partial = Partial
  MaxKills = 2
SPECIFICATION Spec
SYMMETRY Symmetry
INVARIANTS
  SuccessInstalls
  GoodContentSafe
PROPERTIES
  FirstHarmKeepsGood
  ImplementsInstallation
