--------------------------- MODULE MCGossipSync ---------------------------
(* Instances of GossipSync small enough for TLC. *)
EXTENDS GossipSync, TLC
=============================================================================
