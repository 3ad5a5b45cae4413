SPECIFICATION FairSpec
CONSTANTS
  Clients = {c1}
  Graphs = {g1}
  MaxOp = 3
  BlockSize = 1
  ErrLimit = 2
  Server = Server
  Free = Free
  NoGraph = NoGraph
PROPERTIES
  RunningPolls
