\* One process; two public feeds, a day is longer than the period of the keyed ones.
CONSTANTS
  p1 = p1
  Procs = {p1}
  PublicOrder <- MCTwoPublic
  Interval <- MCLongInterval
  MaxClock = 2
SPECIFICATION Spec
INVARIANT KeyedRetriedIndependently
