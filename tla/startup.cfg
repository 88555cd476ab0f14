\* Two bricks, on one node or two, of one path or two; two files.
CONSTANTS
  Node = {n1, n2}
  Brick = {b1, b2}
  Gfid = {g1, g2}
  Layout = {l1}
  Empty = Empty
  None = None
  MaxBrick = 2
  MaxShard = 2
  MaxStored = 3
  MaxPiece = 4
SPECIFICATION Spec
SYMMETRY Symmetry
INVARIANTS TypeOK Complete StartsAsTrace
CHECK_DEADLOCK FALSE
