--------------------------- MODULE MCPeerStreams ---------------------------
(***************************************************************************)
(* Instances of Sender and PeerStreams for TLC.                            *)
(***************************************************************************)
EXTENDS PeerStreams

CONSTANTS p1, p2, f1, f2, f3
=============================================================================
