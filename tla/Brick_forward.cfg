SPECIFICATION Spec
CONSTANTS
  m1 = m1
  m2 = m2
  d1 = d1
  q1 = q1
  Bricks = {m1, m2, d1, q1}
  Kind <- MCKind
  Max <- MCMax
  MaxEdges = 2
  NoBrick = NoBrick
INVARIANTS
  ForwardReachesAll
