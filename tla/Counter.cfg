\* Three goroutines: two can keep b.mu read-locked for ever by turns.
SPECIFICATION FairSpec
CONSTANTS
  Procs = {p1, p2, p3}
  NoProc = NoProc
  Detacher = Detacher
  Cells = {c1, c2}
  NoCell = NoCell
  MaxCounterValue = 2
  Requests <- MCRequests
  Times = {1, 2, 3}
VIEW View
INVARIANTS NeverOutOfRange StampsAreKept
PROPERTIES TsNeverRewinds Linearizable CallsReturn
