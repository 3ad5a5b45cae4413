SPECIFICATION Spec
CONSTANTS
  Queues = {q1, q2}
  Senders = {q1}
  Packets = {p1, p2, p3}
  Arrays = 1
  Reuse = TRUE
  Size = 2
  Width = 8
  NoQueue = NoQueue
  NoPacket = NoPacket
INVARIANT PolledIntact
