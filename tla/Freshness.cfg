\* Three goroutines on a reserved and a user scope.
SPECIFICATION Spec
CONSTANTS
  Procs = {p1, p2, p3}
  NoProc = NoProc
  Scopes = {ev, s1}
  Reserved = {ev}
  MaxTime = 2
  MaxMade = 2
SYMMETRY Symmetry
INVARIANTS VisibleIsTicked NoGhostTick QuiesceFresh
CHECK_DEADLOCK FALSE
