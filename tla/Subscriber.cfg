\* Two bridges, one after the other and while the first one's command still runs; appends and a wipe that race them; a command that fails.
SPECIFICATION FairSpec
CONSTANTS
  Writers = {w1, w2}
  Handles = {h1, h2}
  StopCalls = {c1}
  None = None
  Limit = 1
  MaxItems = 2
  MaxWipes = 1
  MaxFailures = 1
VIEW View
INVARIANTS ChannelsOpen NothingLeftBehind WakeupsKept DeletesOnlyPersisted
PROPERTIES StopReturns ItemsDrained
CHECK_DEADLOCK FALSE
