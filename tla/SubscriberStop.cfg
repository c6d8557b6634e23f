\* stop called twice, as a signal handler and a defer backstop do, with a new subscription in between.
SPECIFICATION Spec
CONSTANTS
  Writers = {w1}
  Handles = {h1, h2}
  StopCalls = {c1, c2}
  None = None
  Limit = 1
  MaxItems = 1
  MaxWipes = 0
  MaxFailures = 0
VIEW View
INVARIANTS OnlyOwnStopCloses
CHECK_DEADLOCK FALSE
