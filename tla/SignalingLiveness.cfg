SPECIFICATION DrainingSpec
CONSTANTS
  Conns = {c1, c2}
  Rooms = {r1}
  Slow = {c1, c2}
  NoConn = NoConn
  MaxLines = 1
PROPERTIES DisconnectReleasesRole StoredIsDelivered
CHECK_DEADLOCK FALSE
