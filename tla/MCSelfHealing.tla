--------------------------- MODULE MCSelfHealing ---------------------------
(* Instances of SelfHealing small enough for TLC. *)
EXTENDS SelfHealing, TLC
=============================================================================
