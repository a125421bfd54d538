-------------------------- MODULE ReadingReplicas --------------------------
(***************************************************************************)
(* What the gossip layer promises about one table, sensor_readings: every  *)
(* reading is produced once, on one node, and from then on the set of      *)
(* nodes that hold it only grows.  README.md:216 adds that it grows to the *)
(* whole swarm (Convergence).                                              *)
(***************************************************************************)
EXTENDS Naturals

CONSTANTS Node, Reading

VARIABLE holders          \* holders[r]: the nodes whose table has a row for r

TypeOK == holders \in [Reading -> SUBSET Node]

Init == holders = [r \in Reading |-> {}]

Produce(r, n) ==
  /\ holders[r] = {}
  /\ holders' = [holders EXCEPT ![r] = {n}]

Replicate(r, n) ==
  /\ holders[r] # {}
  /\ n \notin holders[r]
  /\ holders' = [holders EXCEPT ![r] = @ \union {n}]

Next == \E r \in Reading, n \in Node : Produce(r, n) \/ Replicate(r, n)

Spec == Init /\ [][Next]_holders

(***************************************************************************)
(* README.md:216, "eventually, every node holds a complete copy of all     *)
(* sensor readings from all other nodes in the swarm".                     *)
(***************************************************************************)
Convergence == \A r \in Reading : (holders[r] # {}) ~> (holders[r] = Node)
=============================================================================
