\* Two processes with an init script, bridges, clients, signals and crashes; or three Provisions of the Caddy module.
SPECIFICATION FairSpec
CONSTANTS
  MaxInstances = 3
  MaxProcesses = 2
  Clients = {c1}
  MaxPosts = 2
  MaxEvents = 1
VIEW View
INVARIANTS NoOrphanCommand CallersReachTheServer
PROPERTIES AttachToEmpty SignalEndsProcess
CHECK_DEADLOCK FALSE
