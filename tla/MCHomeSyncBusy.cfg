SPECIFICATION Spec
CONSTANTS
  p = p  q = q  x = x  a = a  b = b
  Path = {p, q, x}
  Excluded = {x}
  Nested = {x}
  Content = {a, b}
  None = None
  Watching = {"on", "none"}
  QuietSync = FALSE
  PromptEvents = FALSE
  FaultKinds = {"presync", "unreadable"}
  Stops = TRUE
  BatchRows = 1
  MaxEdits = 2
  MaxCommands = 1
  MaxFaults = 1
INVARIANT NoCommandReverted
PROPERTIES PruneOnlyMissing ExcludedStayLocal
SYMMETRY Symmetry
CHECK_DEADLOCK FALSE
