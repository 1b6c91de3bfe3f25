\* The watcher's life cycle: three processes and two clients.
CONSTANTS
  w1 = w1
  w2 = w2
  w3 = w3
  c1 = c1
  c2 = c2
  Watchers = {w1, w2, w3}
  Clients = {c1, c2}
  NoWatcher = NoWatcher
SPECIFICATION FairSpec
INVARIANTS
  AtMostOneWatcher
  AnswersAreHonest
  StateFileClearedAtEnd
PROPERTIES
  StaleStopOnlyFromClient
  StopIsObeyed
  ImplementsSingleInstance
