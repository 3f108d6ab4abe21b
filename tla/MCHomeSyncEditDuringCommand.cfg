SPECIFICATION Spec
CONSTANTS
  p = p  q = q  x = x  a = a  b = b
  Path = {p, q}
  Excluded = {}
  Nested = {p, q}
  Content = {a, b}
  None = None
  Watching = {"on", "none"}
  QuietSync = FALSE
  PromptEvents = TRUE
  FaultKinds = {}
  Stops = FALSE
  BatchRows = 1
  MaxEdits = 1
  MaxCommands = 1
  MaxFaults = 0
INVARIANT NoEditDiscarded
CHECK_DEADLOCK FALSE
