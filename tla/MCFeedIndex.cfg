\* Two feeds with up to four records, hosts of two and three labels.
CONSTANTS
  Feeds <- MCFeeds
  Hosts <- MCHosts
  Domains <- MCDomains
  Hash <- MCHash
  Lists <- MCLists
  MaxRecords = 4
SPECIFICATION Spec
INVARIANTS
  MissIsAbsence
  HitsAreExact
PROPERTY SearchHalves
