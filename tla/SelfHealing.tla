---------------------------- MODULE SelfHealing ----------------------------
(***************************************************************************)
(* The brain's HealthMonitor (src/swarm/health_monitor.py) and stateful    *)
(* TaskDistributor (src/swarm/task_distributor.py), with the workers that  *)
(* run TASK_ASSIGN messages (src/examples/run_node.py).                    *)
(*                                                                         *)
(* Time is counted in rounds of the health loop (one per PING_INTERVAL):   *)
(* stale[n] is the number of rounds since last_seen was set, and the       *)
(* entries of state_changes keep their age in rounds.  A round lasts       *)
(* longer when pings time out, so DEAD_THRESHOLD may strike after          *)
(* SlowRounds rounds already and does strike after TimeoutRounds.          *)
(***************************************************************************)
EXTENDS Naturals, FiniteSets

CONSTANTS
  Node,            \* the workers
  Task,            \* tasks the brain distributes
  NoNode,          \* "no entry" in _active_tasks
  MaxRetries,      \* MAX_RETRIES
  SlowRounds, TimeoutRounds,       \* DEAD_THRESHOLD, in rounds
  FlapThreshold, FlapWindow,       \* FLAPPING_THRESHOLD, and its 60 s in rounds
  Verdicts,        \* what _validate_handshake may answer
  MaxFaults        \* bound on crashes, failed tasks and lost peer-table entries

ASSUME NodeAssumption == NoNode \notin Node
ASSUME RetryAssumption == MaxRetries \in Nat /\ MaxRetries > 1
ASSUME TimeAssumption ==
  /\ SlowRounds \in Nat \ {0} /\ TimeoutRounds \in Nat /\ SlowRounds <= TimeoutRounds
  /\ FlapThreshold \in Nat \ {0} /\ FlapWindow \in Nat
  /\ MaxFaults \in Nat
ASSUME VerdictAssumption == Verdicts \subseteq BOOLEAN /\ Verdicts # {}

VARIABLES
  up,              \* up[n]: the worker process runs
  known,           \* the peer table get_peers() copies
  (* HealthMonitor *)
  status,          \* node_health[n]["status"], "unknown" without an entry
  fails,           \* fail_count, counted up to MaxRetries
  stale,           \* rounds since last_seen, counted up to TimeoutRounds
  rejoin,          \* rejoin_pending
  changes,         \* ages of the entries of state_changes still in the window
  awake,           \* the health loop is in a round, not in its sleep
  toPing,          \* peers of this round's snapshot not pinged yet
  moving,          \* _on_node_dead: tasks still to be reassigned
  candidates,      \* _on_node_dead: alive_peers
  condemned,       \* history: declared dead and not validated since
  (* TaskDistributor and workers *)
  active,          \* _active_tasks[t]["node_id"]
  completed,       \* tasks complete_task was called for
  assignments,     \* TASK_ASSIGN messages being worked on
  results,         \* TASK_RESULT messages the brain has received
  faults

monitorVars == <<status, fails, stale, rejoin, changes, condemned>>
loopVars == <<awake, toPing, moving, candidates>>
taskVars == <<active, completed, assignments, results>>
vars == <<up, known, monitorVars, loopVars, taskVars, faults>>

Status == {"unknown", "alive", "degraded", "dead", "reconnecting", "flapping"}
Assignment == [task : Task, node : Node, brain : BOOLEAN]

TypeOK ==
  /\ up \in [Node -> BOOLEAN]
  /\ known \subseteq Node
  /\ status \in [Node -> Status]
  /\ fails \in [Node -> 0..MaxRetries]
  /\ stale \in [Node -> 0..TimeoutRounds]
  /\ rejoin \in [Node -> BOOLEAN]
  /\ changes \in [Node -> SUBSET Nat]
  /\ awake \in BOOLEAN
  /\ toPing \subseteq Node
  /\ moving \subseteq Task
  /\ candidates \subseteq Node
  /\ condemned \in [Node -> BOOLEAN]
  /\ active \in [Task -> Node \union {NoNode}]
  /\ completed \subseteq Task
  /\ assignments \subseteq Assignment
  /\ results \subseteq Task
  /\ faults \in Nat

Init ==
  /\ up = [n \in Node |-> TRUE]
  /\ known = {}
  /\ status = [n \in Node |-> "unknown"]
  /\ fails = [n \in Node |-> 0]
  /\ stale = [n \in Node |-> 0]
  /\ rejoin = [n \in Node |-> FALSE]
  /\ changes = [n \in Node |-> {}]
  /\ awake = FALSE
  /\ toPing = {}
  /\ moving = {}
  /\ candidates = {}
  /\ condemned = [n \in Node |-> FALSE]
  /\ active = [t \in Task |-> NoNode]
  /\ completed = {}
  /\ assignments = {}
  /\ results = {}
  /\ faults = 0

Fault == faults < MaxFaults /\ faults' = faults + 1
AtMost(a, b) == IF a < b THEN a ELSE b

-----------------------------------------------------------------------------
(* One round of _health_loop *)

StartRound ==
  /\ ~awake
  /\ awake' = TRUE
  /\ toPing' = known
  /\ UNCHANGED <<up, known, monitorVars, moving, candidates, taskVars, faults>>

\* Mutation: a node that waits for its handshake is taken for dead again.
EntryStillDead(n) ==
  IF status[n] = "unknown" THEN "alive"
  ELSE IF status[n] = "reconnecting" THEN "dead" ELSE status[n]

\* A node pinged for the first time gets an "alive" entry before the result
\* of the ping is looked at.
Entry(n) == IF status[n] = "unknown" THEN "alive" ELSE status[n]

IsFlapping(n) == Cardinality(changes[n]) >= FlapThreshold
RecordChange(n) == changes' = [changes EXCEPT ![n] = @ \union {0}]
SetStatus(n, s) == status' = [status EXCEPT ![n] = s]

BecomesAlive(n) ==
  /\ SetStatus(n, "alive")
  /\ stale' = [stale EXCEPT ![n] = 0]
  /\ fails' = [fails EXCEPT ![n] = 0]

\* fail_count is kept
Reconnects(n) ==
  /\ Entry(n) = "dead"
  /\ rejoin' = [rejoin EXCEPT ![n] = TRUE]
  /\ SetStatus(n, "reconnecting")
  /\ RecordChange(n)
  /\ UNCHANGED <<fails, stale, condemned>>

PassesHandshake(n) ==
  /\ Entry(n) # "dead" /\ rejoin[n]
  /\ TRUE \in Verdicts
  /\ BecomesAlive(n)
  /\ rejoin' = [rejoin EXCEPT ![n] = FALSE]
  /\ condemned' = [condemned EXCEPT ![n] = FALSE]
  /\ RecordChange(n)

FailsHandshake(n) ==
  /\ Entry(n) # "dead" /\ rejoin[n]
  /\ FALSE \in Verdicts
  /\ UNCHANGED monitorVars

Quarantined(n) ==
  /\ Entry(n) # "dead" /\ ~rejoin[n] /\ IsFlapping(n)
  /\ SetStatus(n, "flapping")
  /\ UNCHANGED <<fails, stale, rejoin, changes, condemned>>

Refreshed(n) ==
  /\ Entry(n) # "dead" /\ ~rejoin[n] /\ ~IsFlapping(n)
  /\ BecomesAlive(n)
  /\ IF Entry(n) = "alive" THEN UNCHANGED changes ELSE RecordChange(n)
  /\ UNCHANGED <<rejoin, condemned>>

PingSucceeds(n) ==
  /\ up[n] /\ n \in toPing /\ moving = {}
  /\ toPing' = toPing \ {n}
  /\ Reconnects(n) \/ PassesHandshake(n) \/ FailsHandshake(n) \/ Quarantined(n)
     \/ Refreshed(n)
  /\ UNCHANGED <<up, known, awake, moving, candidates, taskVars, faults>>

Strike(n) ==
  /\ n \in toPing /\ moving = {}
  /\ toPing' = toPing \ {n}
  /\ fails' = [fails EXCEPT ![n] = AtMost(@ + 1, MaxRetries)]
  /\ stale' = [stale EXCEPT ![n] = IF status[n] = "unknown" THEN 0 ELSE @]
  /\ UNCHANGED <<up, known, rejoin, awake, taskVars, faults>>

\* Below MAX_RETRIES the status becomes "degraded", whatever it was.
PingFails(n) ==
  /\ Strike(n)
  /\ fails[n] + 1 < MaxRetries
  /\ SetStatus(n, "degraded")
  /\ UNCHANGED <<changes, condemned, moving, candidates>>

PingFailsAgain(n) ==
  /\ Strike(n)
  /\ fails[n] + 1 >= MaxRetries /\ Entry(n) = "dead"
  /\ UNCHANGED <<status, changes, condemned, moving, candidates>>

Pending(n) == {t \in Task : active[t] = n}
AlivePeers(n) == {p \in known \ {n} : status[p] = "alive"}

\* MAX_RETRIES reached: dead, and _on_node_dead collects the tasks.  Without
\* an alive peer they are run on the brain, which leaves _active_tasks alone.
DeclareDead(n) ==
  /\ Strike(n)
  /\ fails[n] + 1 >= MaxRetries /\ Entry(n) # "dead"
  /\ SetStatus(n, "dead")
  /\ RecordChange(n)
  /\ condemned' = [condemned EXCEPT ![n] = TRUE]
  /\ candidates' = AlivePeers(n)
  /\ moving' = IF AlivePeers(n) = {} THEN {} ELSE Pending(n)

\* Mutation: the task is recorded again without looking whether it is active.
ReassignTaskUnchecked(t, best) ==
  /\ t \in moving /\ best \in candidates
  /\ up[best]
  /\ moving' = moving \ {t}
  /\ assignments' = assignments \union {[task |-> t, node |-> best, brain |-> FALSE]}
  /\ active' = [active EXCEPT ![t] = best]
  /\ UNCHANGED <<up, known, monitorVars, awake, toPing, candidates, completed, results, faults>>

\* The peer with the best benchmark is chosen; scores are not modelled, so
\* it may be any candidate.  The message carries no brain_ip.  A task that
\* completed meanwhile is sent again but not recorded again.
ReassignTask(t, best) ==
  /\ t \in moving /\ best \in candidates
  /\ up[best]
  /\ moving' = moving \ {t}
  /\ assignments' = assignments \union {[task |-> t, node |-> best, brain |-> FALSE]}
  /\ active' = IF active[t] # NoNode THEN [active EXCEPT ![t] = best] ELSE active
  /\ UNCHANGED <<up, known, monitorVars, awake, toPing, candidates, completed, results, faults>>

\* All retries failed: a warning, and the task stays with the dead node.
ReassignFails(t) ==
  /\ t \in moving
  /\ moving' = moving \ {t}
  /\ UNCHANGED <<up, known, monitorVars, awake, toPing, candidates, taskVars, faults>>

\* Mutation: a degraded node is left to its pings.
CanTimeOutHealthy(n) ==
  stale[n] >= SlowRounds /\ status[n] \notin {"unknown", "dead", "reconnecting", "degraded"}

\* The pass after the pings, then the sleep.
CanTimeOut(n) == stale[n] >= SlowRounds /\ status[n] \notin {"unknown", "dead", "reconnecting"}
MustTimeOut(n) == CanTimeOut(n) /\ stale[n] >= TimeoutRounds

EndRound(late) ==
  /\ awake /\ toPing = {} /\ moving = {}
  /\ \A n \in Node : n \in late => CanTimeOut(n)
  /\ \A n \in Node : MustTimeOut(n) => n \in late
  /\ awake' = FALSE
  /\ status' = [n \in Node |-> IF n \in late THEN "dead" ELSE status[n]]
  /\ condemned' = [n \in Node |-> n \in late \/ condemned[n]]
  /\ changes' = [n \in Node |->
                   {a + 1 : a \in {b \in changes[n] : b + 1 < FlapWindow}}
                     \union (IF n \in late /\ FlapWindow > 1 THEN {1} ELSE {})]
  /\ stale' = [n \in Node |-> IF n \in late THEN TimeoutRounds
                                ELSE AtMost(stale[n] + 1, TimeoutRounds)]
  /\ UNCHANGED <<up, known, fails, rejoin, toPing, moving, candidates, taskVars, faults>>

-----------------------------------------------------------------------------
(* Tasks *)

\* distribute_tasks reaches a peer, and its caller records the task.
AssignTask(t, n) ==
  /\ active[t] = NoNode /\ t \notin completed
  /\ n \in known /\ up[n]
  /\ assignments' = assignments \union {[task |-> t, node |-> n, brain |-> TRUE]}
  /\ active' = [active EXCEPT ![t] = n]
  /\ UNCHANGED <<up, known, monitorVars, loopVars, completed, results, faults>>

\* _execute_task: a reading is sent back if the message names the brain.
FinishTask(m) ==
  /\ up[m.node]
  /\ assignments' = assignments \ {m}
  /\ results' = IF m.brain THEN results \union {m.task} ELSE results
  /\ UNCHANGED <<up, known, monitorVars, loopVars, active, completed, faults>>

\* No agent for the sensor, no reading within 6 s, or the result is lost.
TaskFails(m) ==
  /\ Fault
  /\ assignments' = assignments \ {m}
  /\ UNCHANGED <<up, known, monitorVars, loopVars, active, completed, results>>

CompleteTask(t) ==
  /\ t \in results
  /\ results' = results \ {t}
  /\ active' = [active EXCEPT ![t] = NoNode]
  /\ completed' = completed \union {t}
  /\ UNCHANGED <<up, known, monitorVars, loopVars, assignments, faults>>

-----------------------------------------------------------------------------
(* Environment *)

Crash(n) ==
  /\ Fault /\ up[n]
  /\ up' = [up EXCEPT ![n] = FALSE]
  /\ assignments' = {m \in assignments : m.node # n}
  /\ UNCHANGED <<known, monitorVars, loopVars, active, completed, results>>

Restart(n) ==
  /\ ~up[n]
  /\ up' = [up EXCEPT ![n] = TRUE]
  /\ UNCHANGED <<known, monitorVars, loopVars, taskVars, faults>>

\* Discovery adds a peer, or evicts one it has not heard of for a while.
Listed(n) ==
  /\ n \notin known /\ up[n]
  /\ known' = known \union {n}
  /\ UNCHANGED <<up, monitorVars, loopVars, taskVars, faults>>

Delisted(n) ==
  /\ Fault /\ n \in known
  /\ known' = known \ {n}
  /\ UNCHANGED <<up, monitorVars, loopVars, taskVars>>

-----------------------------------------------------------------------------
Ping(n) == PingSucceeds(n) \/ PingFails(n) \/ PingFailsAgain(n) \/ DeclareDead(n)
Reassign == \E t \in Task : ReassignFails(t) \/ \E best \in Node : ReassignTask(t, best)
Round == StartRound \/ (\E n \in Node : Ping(n)) \/ Reassign
         \/ \E late \in SUBSET Node : EndRound(late)

Next ==
  \/ Round
  \/ \E t \in Task : CompleteTask(t) \/ \E n \in Node : AssignTask(t, n)
  \/ \E m \in assignments : FinishTask(m) \/ TaskFails(m)
  \/ \E n \in Node : Crash(n) \/ Restart(n) \/ Listed(n) \/ Delisted(n)

Spec == Init /\ [][Next]_vars

\* The health thread keeps running; workers and collector take their steps.
FairSpec ==
  /\ Spec
  /\ WF_vars(Round)
  /\ WF_vars(\E m \in assignments : FinishTask(m))
  /\ WF_vars(\E t \in Task : CompleteTask(t))

\* In addition, from some point on every ping of a running worker is answered.
ReachableSpec == FairSpec /\ \A n \in Node : <>[][~(up[n] /\ Strike(n))]_vars

-----------------------------------------------------------------------------
(* Properties *)

\* A node that waits for its handshake is never counted as alive, whatever
\* its pings say meanwhile: no branch but the validated one clears the wait.
RejoinIsUntrusted ==
  \A n \in Node : rejoin[n] => status[n] \in {"reconnecting", "degraded", "dead"}

\* A node with MAX_RETRIES failures is out until it has been validated; the
\* count survives the reconnect, so one more failure condemns it again.
StruckOut ==
  \A n \in Node : fails[n] >= MaxRetries => status[n] \in {"dead", "reconnecting"}

\* complete_task is final: a result that races the reassignment of its task
\* does not bring the task back.
CompletedStaysCompleted ==
  \A t \in completed : active[t] = NoNode

\* A task is only ever moved to a peer the monitor holds for alive, although
\* the list was made before the first task was sent.
MovedToAlive ==
  [][\A t \in Task :
       active[t] # NoNode /\ active'[t] \notin {NoNode, active[t]}
         => status[active'[t]] = "alive" /\ condemned[active[t]]]_vars

\* health_monitor.py:7, "Reconnecting nodes must pass handshake validation".  A
\* node that timed out with few failures and fails a ping again is "degraded",
\* not dead; it cannot slip back as alive only because the timeout condemns it
\* again before the round ends.
RejoinNeedsHandshake ==
  \A n \in Node : condemned[n] => status[n] # "alive"

\* The two detectors agree on a node: it is condemned exactly while one of
\* them said dead and no handshake cleared it, and rejoin_pending implies it.
DeadIsCondemned ==
  \A n \in Node : status[n] \in {"dead", "reconnecting"} \/ rejoin[n] => condemned[n]

\* A peer that stays down does not stay in the alive count for good, listed
\* or not: the pings or the timeout find it.
CrashDetected ==
  \A n \in Node :
    (~up[n] /\ status[n] \in {"alive", "degraded", "flapping"})
      ~> (up[n] \/ status[n] = "dead")

\* A condemned node that is back for good, answers its pings and is not refused by
\* the handshake any more becomes alive, whatever it went through before.
ValidatedRecovers ==
  \A n \in Node :
    <>[][~(up[n] /\ Strike(n)) /\ ~(PingSucceeds(n) /\ FailsHandshake(n))]_vars
      => (status[n] = "reconnecting" ~> (status[n] = "alive" \/ ~up[n] \/ n \notin known))

\* health_monitor.py:7, "Reconnecting nodes must pass handshake validation", says
\* that they can.
ReconnectedRecovers ==
  \A n \in Node :
    status[n] = "reconnecting" ~> (status[n] = "alive" \/ ~up[n] \/ n \notin known)

-----------------------------------------------------------------------------
(* The inductive invariant *)

\* What is known of one node.  A condemned node that does not wait for its
\* handshake is dead for good reasons: MAX_RETRIES failures, or a last_seen
\* the timeout will find again at the end of this round.
MonitorOK(n) ==
  /\ rejoin[n] => status[n] \in {"reconnecting", "degraded", "dead"}
  /\ fails[n] >= MaxRetries => status[n] \in {"dead", "reconnecting"}
  /\ status[n] = "reconnecting" => rejoin[n]
  /\ status[n] = "dead" \/ rejoin[n] => condemned[n]
  /\ condemned[n] /\ ~rejoin[n] =>
       \/ status[n] = "dead" /\ (fails[n] >= MaxRetries \/ stale[n] >= TimeoutRounds)
       \/ /\ status[n] = "degraded" /\ stale[n] >= TimeoutRounds
          /\ awake /\ n \notin toPing
MonitorInv == (\A n \in Node : MonitorOK(n)) /\ (toPing # {} => awake)

\* What is known of one task: while it is being moved it is either done or
\* still with a condemned node.
TaskOK(t) ==
  /\ t \in completed => active[t] = NoNode
  /\ t \in moving => t \in completed \/ (active[t] \in Node /\ condemned[active[t]])
TaskInv == \A t \in Task : TaskOK(t)

CandidateOK(p) == moving # {} /\ p \in candidates => status[p] = "alive"
CandidateInv == \A p \in Node : CandidateOK(p)

\* How the monitor and the distributor stand to each other in every reachable
\* state: the three parts above and the types.
IInv == TypeOK /\ MonitorInv /\ TaskInv /\ CandidateInv
=============================================================================
