---------------------------- MODULE MCSwarmSafety ----------------------------
(***************************************************************************)
(* Safety of three parts of the swarm layer that share no state, checked   *)
(* in one run: one k-bucket under its two threads, a small DHT that loses  *)
(* datagrams, and the health monitor with its workers.  A behaviour is one *)
(* of one part, chosen in the initial state.                               *)
(***************************************************************************)
EXTENDS SelfHealing, KBucket, Kademlia, TLC

CONSTANT LookingUp                                            \* in the other part of the DHT

ASSUME DhtAssumption ==
  /\ Seed \in DhtNode /\ LookingUp \subseteq DhtNode /\ Refreshing \subseteq DhtNode
  /\ StaleRounds \in Nat /\ StaleRounds >= 3 /\ DhtFaults \in Nat \ {0}

VARIABLE part                                                 \* the one that runs

\* The DHT with lookups and one fault less
LookupDht == INSTANCE Kademlia WITH Lookups <- LookingUp, DhtFaults <- DhtFaults - 1

allVars == <<part, vars, bucketVars, dhtVars>>

SwarmInit == part \in {"bucket", "dht", "lookups", "health"} /\ Init /\ BucketInit /\ DhtInit

SwarmNext ==
  /\ UNCHANGED part
  /\ \/ part = "bucket" /\ BucketNext /\ UNCHANGED <<vars, dhtVars>>
     \/ part = "dht" /\ DhtNext /\ UNCHANGED <<vars, bucketVars>>
     \/ part = "lookups" /\ LookupDht!DhtNext /\ UNCHANGED <<vars, bucketVars>>
     \/ part = "health" /\ Next /\ UNCHANGED <<bucketVars, dhtVars>>

SwarmSpec == SwarmInit /\ [][SwarmNext]_allVars

\* A bucket only compares ids for equality; workers differ only in what happens to them.
Alike == Permutations(Id) \union Permutations(Node)

=============================================================================
