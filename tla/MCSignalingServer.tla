-------------------------- MODULE MCSignalingServer --------------------------
(***************************************************************************)
(* Small instances of SignalingServer for TLC.                              *)
(***************************************************************************)
EXTENDS SignalingServer, TLC

\* Connections, and rooms, are interchangeable in the safety runs.
Interchangeable == Permutations(Conns) \cup Permutations(Rooms)
=============================================================================
