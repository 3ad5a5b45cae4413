SPECIFICATION SpecQuiet
CONSTANTS
  Clients = {c1}
  Graphs = {g1}
  MaxOp = 4
  BlockSize = 1
  ErrLimit = 2
  Server = Server
  Free = Free
  NoGraph = NoGraph
INVARIANTS
  StopStops
