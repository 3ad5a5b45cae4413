SPECIFICATION Spec
CONSTANTS
  Clients = {c1, c2}
  Graphs = {g1, g2}
  MaxOp = 4
  BlockSize = 1
  ErrLimit = 2
  Server = Server
  Free = Free
  NoGraph = NoGraph
SYMMETRY Symmetry
INVARIANTS
  TypeOK
  LockExclusion
  WaitersOwnSlots
  GraphIdsUnique
  PopReturnsAdded
  RunningMeansNormal
  ErrorsPaired
