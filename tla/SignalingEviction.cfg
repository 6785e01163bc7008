SPECIFICATION Spec
CONSTANTS
  Conns = {c1, c2}
  Rooms = {r1}
  Slow = {}
  NoConn = NoConn
  MaxLines = 1
PROPERTIES OthersStayRegistered
CHECK_DEADLOCK FALSE
