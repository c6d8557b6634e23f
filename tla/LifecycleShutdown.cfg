\* A signal while a request is served.
SPECIFICATION FairSpec
CONSTANTS
  MaxInstances = 1
  MaxProcesses = 1
  Clients = {c1}
  MaxPosts = 0
  MaxEvents = 1
INVARIANT InFlightDrained
CHECK_DEADLOCK FALSE
