\* Two processes; one directory at a time, the public one with one feed.
CONSTANTS
  p1 = p1
  p2 = p2
  Procs = {p1, p2}
  PublicOrder <- MCPublic
  Interval <- MCInterval
  MaxClock = 1
SPECIFICATION FairSpec
INVARIANTS
  AtMostOneUpdate
  StampHonest
  FailedIsRetried
PROPERTY LostIndexReturns
