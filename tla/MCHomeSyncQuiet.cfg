SPECIFICATION FairSpec
CONSTANTS
  p = p  q = q  x = x  a = a  b = b
  Path = {p, q}
  Excluded = {}
  Nested = {p, q}
  Content = {a, b}
  None = None
  Watching = {"on", "none"}
  QuietSync = TRUE
  PromptEvents = TRUE
  FaultKinds = {"postsync", "watcher"}
  Stops = TRUE
  BatchRows = 2
  MaxEdits = 2
  MaxCommands = 1
  MaxFaults = 1
INVARIANTS TypeOK NoEditDiscarded CleanMeansSaved FlushedAtExit
PROPERTIES EditsAreSaved QueueDrains
CHECK_DEADLOCK FALSE
