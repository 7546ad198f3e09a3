----------------------------- MODULE MCPeerFsm ------------------------------
(* PeerFsm for TLC: four connections are enough for the one of the loop,   *)
(* the ones of two managers, and one accepted or delivered beside them.    *)
EXTENDS PeerFsm

=============================================================================
