---------------------------- MODULE MCTaskSwarm ----------------------------
(* Instances of TaskSwarm small enough for TLC. *)
EXTENDS TaskSwarm, TLC

CONSTANTS r1, r2, s1, s2

\* A request for two sensors and one for the first of them.
Overlapping == (r1 :> {s1, s2}) @@ (r2 :> {s1})
=============================================================================
