\* Two goroutines writing to two scopes in every mode, a drainer and a /wipe.
SPECIFICATION Spec
CONSTANTS
  Procs = {p1, p2}
  Scopes = {s1, s2}
  EventsScope = EventsScope
  NoScope = NoScope
  Ids = {x}
  NoId = NoId
  Values = {1}
  NoValue = NoValue
  MaxWrites = 3
  MaxWipes = 1
SYMMETRY Symmetry
INVARIANTS EventsAccounted LogRespectsRealTime ReplayReconstructs RefetchConverges
CHECK_DEADLOCK FALSE
