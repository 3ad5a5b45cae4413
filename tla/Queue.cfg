SPECIFICATION FairSpec
CONSTANTS
  Queues = {q1, q2}
  Senders = {q1}
  Packets = {p1, p2, p3, p4}
  Arrays = 4
  Reuse = FALSE
  Size = 2
  Width = 8
  NoQueue = NoQueue
  NoPacket = NoPacket
INVARIANTS
  TypeOK
  FriendsMutual
  SizeBound
  RefsMatch
PROPERTY
  StoredLeaves
