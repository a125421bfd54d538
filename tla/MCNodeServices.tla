--------------------------- MODULE MCNodeServices ---------------------------
(***************************************************************************)
(* Five services of a node that share no state, checked in one run: the    *)
(* Bluetooth mesh, the join of the Kademlia DHT, the health monitor, the   *)
(* event bus with its recorder, and the store-level synchronisation.  A    *)
(* behaviour is one of one service, chosen in the initial state; fairness  *)
(* is that service's.                                                      *)
(***************************************************************************)
EXTENDS BluetoothMesh, EventRecorder, StoreSync, TLC

CONSTANTS
  a, b, c, d,
  Worker, Task, MaxRetries, SlowRounds, TimeoutRounds, FlapThreshold, FlapWindow, Verdicts,
  MaxHealthFaults,
  DhtNode, Seed, StaleRounds, Lookups, Refreshing

VARIABLES
  service,                                                    \* the one that runs
  dhtStatus, age, knownPeers, storage, phase, dhtNet, missed, dhtFaults,
  up, listed, health, fails, stale, rejoin, changes, awake, toPing, moving, candidates,
  condemned, active, completed, assignments, results, healthFaults

Dht == INSTANCE Kademlia WITH DhtFaults <- 0, net <- dhtNet
Monitor == INSTANCE SelfHealing WITH
  Node <- Worker, MaxFaults <- MaxHealthFaults, known <- listed, status <- health,
  faults <- healthFaults

Both(S) == S \union {<<p[2], p[1]>> : p \in S}
Kite == Both({<<a, b>>, <<b, c>>, <<a, c>>, <<c, d>>})

dhtVars == <<dhtStatus, age, knownPeers, storage, phase, dhtNet, missed, dhtFaults>>
monitorVars == <<up, listed, health, fails, stale, rejoin, changes, awake, toPing, moving,
                 candidates, condemned, active, completed, assignments, results, healthFaults>>
allVars == <<service, vars, dhtVars, monitorVars, recorderVars, storeVars>>

ServicesInit ==
  /\ service \in {"mesh", "dht", "monitor", "recorder", "sync"}
  /\ Init /\ Dht!DhtInit /\ Monitor!Init /\ RecorderInit /\ StoreInit

ServicesNext ==
  /\ UNCHANGED service
  /\ \/ /\ service = "mesh" /\ Next
        /\ UNCHANGED <<dhtVars, monitorVars, recorderVars, storeVars>>
     \/ /\ service = "dht" /\ Dht!DhtNext
        /\ UNCHANGED <<vars, monitorVars, recorderVars, storeVars>>
     \/ /\ service = "monitor" /\ Monitor!Next
        /\ UNCHANGED <<vars, dhtVars, recorderVars, storeVars>>
     \/ /\ service = "recorder" /\ RecorderNext
        /\ UNCHANGED <<vars, dhtVars, monitorVars, storeVars>>
     \/ /\ service = "sync" /\ StoreNext
        /\ UNCHANGED <<vars, dhtVars, monitorVars, recorderVars>>

\* The fairness of each service, once it is the one that runs.
ServicesFairness ==
  /\ WF_vars(service = "mesh" /\ \E copy \in net : Skip(copy) \/ Drop(copy) \/ Check(copy))
  /\ WF_vars(service = "mesh" /\ \E copy \in threads : Accept(copy))
  /\ \A n \in DhtNode : WF_dhtVars(service = "dht" /\ Dht!Refresh(n))
  /\ \A n \in DhtNode : WF_dhtVars(service = "dht" /\ Dht!EvictStale(n))
  /\ \A kind \in Dht!Kind, n, p \in DhtNode :
       WF_dhtVars(service = "dht" /\ Dht!Arrives(kind, n, p))
  /\ WF_monitorVars(service = "monitor" /\ Monitor!Round)
  /\ WF_monitorVars(service = "monitor" /\ \E m \in assignments : Monitor!FinishTask(m))
  /\ WF_monitorVars(service = "monitor" /\ \E t \in Task : Monitor!CompleteTask(t))

ServicesSpec == ServicesInit /\ [][ServicesNext]_allVars /\ ServicesFairness

-----------------------------------------------------------------------------
\* The type invariants
ServicesTypeOK == TypeOK /\ Dht!DhtTypeOK /\ Monitor!TypeOK /\ RecorderTypeOK /\ StoreTypeOK

\* The monitor ends up with what a peer is: one that stays down is found dead, and one that
\* is back and validated becomes alive (health_monitor.py:150-339).
PeersTracked == Monitor!CrashDetected /\ Monitor!ValidatedRecovers
Acquainted == Dht!Acquainted
=============================================================================
