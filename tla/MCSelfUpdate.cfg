\* One update, two watcher processes and a window that probes; the model stops when the update is over.
CONSTANTS
  w1 = w1
  w2 = w2
  u = u
  Watchers = {w1, w2}
  c = c
  Clients = {u, c}
  Updater = u
  NoWatcher = NoWatcher
  MaxPolls = 2
SPECIFICATION FairSelfSpec
INVARIANT WatcherStoppedFirst
PROPERTIES
  StopNotCarriedOver
  RestartedIfSeenToEnd
CHECK_DEADLOCK FALSE
