SPECIFICATION Spec
CONSTANTS
  Conns = {c1, c2}
  Rooms = {r1, r2}
  Slow = {}
  NoConn = NoConn
  MaxLines = 3
SYMMETRY Interchangeable
INVARIANTS RoomsInUse FirstComerInOrder ReplayInOrder
CHECK_DEADLOCK FALSE
