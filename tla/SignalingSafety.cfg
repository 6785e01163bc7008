SPECIFICATION Spec
CONSTANTS
  Conns = {c1, c2, c3}
  Rooms = {r1}
  Slow = {}
  NoConn = NoConn
  MaxLines = 1
SYMMETRY Interchangeable
INVARIANTS TypeOK SlotOwnership PairIsAnnounced NothingMissed
PROPERTIES ImplementsRendezvous
CHECK_DEADLOCK FALSE
