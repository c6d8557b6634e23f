\* Three goroutines, each of which takes one shard, some, or all of them.
SPECIFICATION FairSpec
CONSTANTS
  Procs = {p1, p2, p3}
  NoProc = NoProc
  NumShards = 2
  EventsShard = 2
  Kinds = {"emit", "wipe", "scopelist"}
VIEW View
INVARIANTS NoDeadlock
PROPERTIES TakenAtOnce EveryoneReturns
