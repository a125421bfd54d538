--------------------------- MODULE MCPeerExchange ---------------------------
(* Instances of PeerExchange small enough for TLC. *)
EXTENDS PeerExchange, TLC
=============================================================================
