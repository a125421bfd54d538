----------------------------- MODULE MCKBucket -----------------------------
(* Instances of KBucket small enough for TLC. *)
EXTENDS KBucket, TLC

\* A bucket only compares ids for equality.
IdSymmetry == Permutations(Id)
=============================================================================
