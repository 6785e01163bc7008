-------------------------------- MODULE Guests --------------------------------
(***************************************************************************)
(* The roles of a room and the connections that compete for them, shared by *)
(* the signaling server and by the promise it keeps.                        *)
(***************************************************************************)
CONSTANTS
  Conns,   \* the TCP connections accepted during the server's life
  Rooms,   \* the room names clients may ask for
  NoConn   \* an empty slot

ASSUME GuestsAssumption == NoConn \notin Conns

Roles == {"sender", "receiver"}
Opposite(role) == IF role = "sender" THEN "receiver" ELSE "sender"
=============================================================================
