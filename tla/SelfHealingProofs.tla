------------------------- MODULE SelfHealingProofs -------------------------
(***************************************************************************)
(* Proofs about SelfHealing for any workers and tasks, any thresholds and  *)
(* any behaviour of the handshake.  IInv is inductive; the safety          *)
(* properties follow from it.                                              *)
(***************************************************************************)
EXTENDS SelfHealing, TLAPS

\* A counter capped at its bound stays within it.
LEMMA AtMostBound ==
  ASSUME NEW a \in Nat, NEW b \in Nat
  PROVE  AtMost(a, b) \in 0..b /\ (a >= b => AtMost(a, b) = b)
BY DEF AtMost

\* The initial state satisfies the inductive invariant.
LEMMA InitIInv == Init => IInv
<1> SUFFICES ASSUME Init PROVE IInv
  OBVIOUS
<1>1. TypeOK
  <2>1. rejoin \in [Node -> BOOLEAN] /\ condemned \in [Node -> BOOLEAN] /\ up \in [Node -> BOOLEAN]
    BY Zenon DEF Init
  <2>2. fails \in [Node -> 0..MaxRetries] /\ stale \in [Node -> 0..TimeoutRounds]
    BY RetryAssumption, TimeAssumption DEF Init
  <2>3. status \in [Node -> Status] /\ changes \in [Node -> SUBSET Nat]
    BY DEF Init, Status
  <2> QED BY <2>1, <2>2, <2>3 DEF Init, TypeOK
<1>2. MonitorInv
  BY RetryAssumption DEF Init, MonitorInv, MonitorOK
<1>3. TaskInv /\ CandidateInv
  BY DEF Init, TaskInv, TaskOK, CandidateInv, CandidateOK
<1> QED BY <1>1, <1>2, <1>3 DEF IInv

\* A TASK_ASSIGN message, with or without the brain's address.
LEMMA AssignmentTyped ==
  ASSUME NEW t \in Task, NEW n \in Node, NEW b \in BOOLEAN
  PROVE  [task |-> t, node |-> n, brain |-> b] \in Assignment
BY Zenon DEF Assignment

\* The bookkeeping every failed ping does keeps the types.
LEMMA StrikeTypes ==
  ASSUME TypeOK, NEW n \in Node, Strike(n)
  PROVE  /\ toPing' \subseteq Node
         /\ fails' \in [Node -> 0..MaxRetries]
         /\ stale' \in [Node -> 0..TimeoutRounds]
<1>1. fails[n] + 1 \in Nat
  BY RetryAssumption DEF TypeOK
<1>2. AtMost(fails[n] + 1, MaxRetries) \in 0..MaxRetries
  BY <1>1, AtMostBound, RetryAssumption
<1>3. fails' \in [Node -> 0..MaxRetries]
  BY <1>2 DEF Strike, TypeOK
<1>4. stale' \in [Node -> 0..TimeoutRounds]
  BY TimeAssumption DEF Strike, TypeOK
<1> QED BY <1>3, <1>4 DEF Strike, TypeOK

\* The variables only the tasks, the workers and the discovery change.
TasksTyped ==
  /\ up \in [Node -> BOOLEAN] /\ known \subseteq Node
  /\ moving \subseteq Task /\ candidates \subseteq Node
  /\ active \in [Task -> Node \union {NoNode}]
  /\ completed \subseteq Task /\ assignments \subseteq Assignment /\ results \subseteq Task
  /\ faults \in Nat

\* The variables only the health loop changes.
MonitorTyped ==
  /\ status \in [Node -> Status] /\ fails \in [Node -> 0..MaxRetries]
  /\ stale \in [Node -> 0..TimeoutRounds] /\ rejoin \in [Node -> BOOLEAN]
  /\ changes \in [Node -> SUBSET Nat] /\ condemned \in [Node -> BOOLEAN]
  /\ awake \in BOOLEAN /\ toPing \subseteq Node

\* A successful ping keeps the types of the monitor.
LEMMA PingSucceedsTypes ==
  ASSUME TypeOK, NEW n \in Node, PingSucceeds(n)
  PROVE  MonitorTyped'
<1> USE DEF TypeOK, MonitorTyped
<1>1. toPing' \subseteq Node /\ awake' \in BOOLEAN
  BY DEF PingSucceeds
<1>2. CASE Reconnects(n)
  BY <1>1, <1>2 DEF Reconnects, SetStatus, RecordChange, Status
<1>3. CASE PassesHandshake(n)
  BY <1>1, <1>3, RetryAssumption, TimeAssumption
     DEF PassesHandshake, BecomesAlive, SetStatus, RecordChange, Status
<1>4. CASE FailsHandshake(n)
  BY <1>1, <1>4 DEF FailsHandshake, monitorVars
<1>5. CASE Quarantined(n)
  BY <1>1, <1>5 DEF Quarantined, SetStatus, Status
<1>6. CASE Refreshed(n)
  <2>1. changes' \in [Node -> SUBSET Nat]
    BY <1>6 DEF Refreshed, RecordChange
  <2>2. fails' \in [Node -> 0..MaxRetries] /\ stale' \in [Node -> 0..TimeoutRounds]
    BY <1>6, RetryAssumption, TimeAssumption DEF Refreshed, BecomesAlive
  <2>3. status' \in [Node -> Status]
    BY <1>6 DEF Refreshed, BecomesAlive, SetStatus, Status
  <2> QED BY <1>1, <1>6, <2>1, <2>2, <2>3 DEF Refreshed
<1> QED BY <1>2, <1>3, <1>4, <1>5, <1>6 DEF PingSucceeds

\* The end of a round keeps the types of the monitor.
LEMMA EndRoundTypes ==
  ASSUME TypeOK, NEW late \in SUBSET Node, EndRound(late)
  PROVE  MonitorTyped'
<1> USE DEF TypeOK, MonitorTyped
<1>1. \A n \in Node : stale[n] + 1 \in Nat
  BY TimeAssumption
<1>2. \A n \in Node : AtMost(stale[n] + 1, TimeoutRounds) \in 0..TimeoutRounds
  BY <1>1, AtMostBound, TimeAssumption
<1>3. stale' \in [Node -> 0..TimeoutRounds]
  BY <1>2, TimeAssumption DEF EndRound
<1>4. changes' \in [Node -> SUBSET Nat]
  <2>1. \A n \in Node : {a + 1 : a \in {b \in changes[n] : b + 1 < FlapWindow}} \subseteq Nat
    OBVIOUS
  <2>2. \A n \in Node : (IF n \in late /\ FlapWindow > 1 THEN {1} ELSE {}) \subseteq Nat
    OBVIOUS
  <2> QED BY <2>1, <2>2 DEF EndRound
<1>5. status' \in [Node -> Status] /\ condemned' \in [Node -> BOOLEAN]
  BY DEF EndRound, Status
<1> QED BY <1>3, <1>4, <1>5 DEF EndRound

\* The steps of the health loop preserve the types.
LEMMA RoundTypes == TypeOK /\ Round => TypeOK'
<1> SUFFICES ASSUME TypeOK, Round PROVE TypeOK'
  OBVIOUS
<1>0. MonitorTyped' /\ TasksTyped' => TypeOK'
  BY DEF MonitorTyped, TasksTyped, TypeOK
<1> USE DEF TypeOK, MonitorTyped, TasksTyped
<1>1. CASE StartRound
  BY <1>1 DEF StartRound, monitorVars, taskVars
<1>2. ASSUME NEW n \in Node, PingSucceeds(n) PROVE TypeOK'
  <2>1. MonitorTyped'
    BY <1>2, PingSucceedsTypes
  <2>2. TasksTyped'
    BY <1>2 DEF PingSucceeds, taskVars
  <2> QED BY <1>0, <2>1, <2>2
<1>3. ASSUME NEW n \in Node, PingFails(n) PROVE TypeOK'
  <2>1. Strike(n)
    BY <1>3 DEF PingFails
  <2>2. MonitorTyped'
    BY <1>3, <2>1, StrikeTypes DEF PingFails, Strike, SetStatus, Status
  <2>3. TasksTyped'
    BY <1>3 DEF PingFails, Strike, taskVars
  <2> QED BY <1>0, <2>2, <2>3
<1>4. ASSUME NEW n \in Node, PingFailsAgain(n) PROVE TypeOK'
  <2>1. Strike(n)
    BY <1>4 DEF PingFailsAgain
  <2>2. MonitorTyped'
    BY <1>4, <2>1, StrikeTypes DEF PingFailsAgain, Strike
  <2>3. TasksTyped'
    BY <1>4 DEF PingFailsAgain, Strike, taskVars
  <2> QED BY <1>0, <2>2, <2>3
<1>5. ASSUME NEW n \in Node, DeclareDead(n) PROVE TypeOK'
  <2>1. Strike(n)
    BY <1>5 DEF DeclareDead
  <2>2. MonitorTyped'
    <3>1. status' \in [Node -> Status] /\ changes' \in [Node -> SUBSET Nat]
      BY <1>5 DEF DeclareDead, SetStatus, RecordChange, Status
    <3>2. condemned' \in [Node -> BOOLEAN]
      BY <1>5, Zenon DEF DeclareDead
    <3> QED BY <2>1, <3>1, <3>2, StrikeTypes DEF Strike
  <2>3. moving' \subseteq Task /\ candidates' \subseteq Node
    BY <1>5 DEF DeclareDead, Pending, AlivePeers
  <2>4. TasksTyped'
    BY <1>5, <2>3 DEF DeclareDead, Strike, taskVars
  <2> QED BY <1>0, <2>2, <2>4
<1>6. ASSUME NEW t \in Task, NEW best \in Node, ReassignTask(t, best) PROVE TypeOK'
  <2>1. assignments' \subseteq Assignment
    BY <1>6, AssignmentTyped DEF ReassignTask
  <2>2. active' \in [Task -> Node \union {NoNode}]
    BY <1>6 DEF ReassignTask
  <2> QED BY <1>6, <2>1, <2>2 DEF ReassignTask, monitorVars
<1>7. ASSUME NEW t \in Task, ReassignFails(t) PROVE TypeOK'
  BY <1>7 DEF ReassignFails, monitorVars, taskVars
<1>8. ASSUME NEW late \in SUBSET Node, EndRound(late) PROVE TypeOK'
  <2>1. MonitorTyped'
    BY <1>8, EndRoundTypes
  <2>2. TasksTyped'
    BY <1>8 DEF EndRound, taskVars
  <2> QED BY <1>0, <2>1, <2>2
<1> QED
  BY <1>1, <1>2, <1>3, <1>4, <1>5, <1>6, <1>7, <1>8 DEF Round, Ping, Reassign

\* Every step preserves the types.
LEMMA TypeStep == TypeOK /\ [Next]_vars => TypeOK'
<1> SUFFICES ASSUME TypeOK, [Next]_vars PROVE TypeOK'
  OBVIOUS
<1> USE DEF TypeOK, Fault
<1>1. CASE Round
  BY <1>1, RoundTypes
<1>2. ASSUME NEW t \in Task, CompleteTask(t) PROVE TypeOK'
  BY <1>2 DEF CompleteTask, monitorVars, loopVars
<1>3. ASSUME NEW t \in Task, NEW n \in Node, AssignTask(t, n) PROVE TypeOK'
  <2>1. assignments' \subseteq Assignment
    BY <1>3, AssignmentTyped DEF AssignTask
  <2> QED BY <1>3, <2>1 DEF AssignTask, monitorVars, loopVars
<1>4. ASSUME NEW m \in assignments, FinishTask(m) PROVE TypeOK'
  <2>1. m.task \in Task
    BY DEF Assignment
  <2> QED BY <1>4, <2>1 DEF FinishTask, monitorVars, loopVars
<1>5. ASSUME NEW m \in assignments, TaskFails(m) PROVE TypeOK'
  BY <1>5, TimeAssumption DEF TaskFails, monitorVars, loopVars
<1>6. ASSUME NEW n \in Node, Crash(n) PROVE TypeOK'
  BY <1>6, TimeAssumption DEF Crash, monitorVars, loopVars
<1>7. ASSUME NEW n \in Node, Restart(n) PROVE TypeOK'
  BY <1>7 DEF Restart, monitorVars, loopVars, taskVars
<1>8. ASSUME NEW n \in Node, Listed(n) PROVE TypeOK'
  BY <1>8 DEF Listed, monitorVars, loopVars, taskVars
<1>9. ASSUME NEW n \in Node, Delisted(n) PROVE TypeOK'
  BY <1>9, TimeAssumption DEF Delisted, monitorVars, loopVars, taskVars
<1>10. CASE UNCHANGED vars
  BY <1>10 DEF vars, monitorVars, loopVars, taskVars
<1> QED BY <1>1, <1>2, <1>3, <1>4, <1>5, <1>6, <1>7, <1>8, <1>9, <1>10 DEF Next

\* A step outside the health loop leaves the monitor alone.
LEMMA OutsideRound ==
  ASSUME [Next]_vars, ~Round
  PROVE  UNCHANGED <<monitorVars, loopVars>>
<1>1. ASSUME NEW t \in Task, CompleteTask(t) PROVE UNCHANGED <<monitorVars, loopVars>>
  BY <1>1 DEF CompleteTask
<1>2. ASSUME NEW t \in Task, NEW n \in Node, AssignTask(t, n)
      PROVE  UNCHANGED <<monitorVars, loopVars>>
  BY <1>2 DEF AssignTask
<1>3. ASSUME NEW m \in assignments, FinishTask(m) \/ TaskFails(m)
      PROVE  UNCHANGED <<monitorVars, loopVars>>
  BY <1>3 DEF FinishTask, TaskFails
<1>4. ASSUME NEW n \in Node, Crash(n) \/ Restart(n) \/ Listed(n) \/ Delisted(n)
      PROVE  UNCHANGED <<monitorVars, loopVars>>
  BY <1>4 DEF Crash, Restart, Listed, Delisted
<1>5. CASE UNCHANGED vars
  BY <1>5 DEF vars
<1> QED BY <1>1, <1>2, <1>3, <1>4, <1>5 DEF Next

\* A failed ping that does not condemn a node keeps what is known of the others,
\* and every ping leaves the rest of the round's snapshot for later.
LEMMA OtherNode ==
  ASSUME TypeOK, MonitorInv, NEW n \in Node, NEW k \in Node \ {n}, Ping(n)
  PROVE  MonitorOK(k)'
<1> USE DEF TypeOK
<1>1. /\ status'[k] = status[k] /\ fails'[k] = fails[k] /\ stale'[k] = stale[k]
      /\ rejoin'[k] = rejoin[k] /\ condemned'[k] = condemned[k]
  <2>1. CASE PingSucceeds(n)
    BY <2>1 DEF PingSucceeds, Reconnects, PassesHandshake, FailsHandshake, Quarantined,
                Refreshed, BecomesAlive, SetStatus, monitorVars
  <2>2. CASE PingFails(n)
    BY <2>2 DEF PingFails, Strike, SetStatus
  <2>3. CASE PingFailsAgain(n)
    BY <2>3 DEF PingFailsAgain, Strike
  <2>4. CASE DeclareDead(n)
    BY <2>4 DEF DeclareDead, Strike, SetStatus
  <2> QED BY <2>1, <2>2, <2>3, <2>4 DEF Ping
<1>2. awake' = awake /\ toPing' \subseteq toPing
  BY DEF Ping, PingSucceeds, PingFails, PingFailsAgain, DeclareDead, Strike
<1>3. MonitorOK(k)
  BY DEF MonitorInv
<1> QED BY <1>1, <1>2, <1>3 DEF MonitorOK

\* A ping of n, answered or not, keeps what is known of n: the branches of the
\* loop cannot let a condemned node slip back without its handshake.
LEMMA PingedNode ==
  ASSUME TypeOK, MonitorInv, NEW n \in Node, Ping(n)
  PROVE  MonitorOK(n)'
<1> USE RetryAssumption DEF TypeOK
<1>0. MonitorOK(n) /\ fails[n] \in 0..MaxRetries
  BY DEF MonitorInv
<1>1. n \in toPing /\ awake /\ awake' = awake /\ n \notin toPing'
  BY DEF Ping, PingSucceeds, PingFails, PingFailsAgain, DeclareDead, Strike, MonitorInv
<1>2. CASE PingSucceeds(n)
  <2>1. CASE Reconnects(n)
    BY <1>0, <1>1, <2>1 DEF Reconnects, SetStatus, Entry, MonitorOK
  <2>2. CASE PassesHandshake(n)
    BY <1>0, <1>1, <2>2 DEF PassesHandshake, BecomesAlive, SetStatus, MonitorOK
  <2>3. CASE FailsHandshake(n)
    BY <1>0, <1>1, <2>3 DEF FailsHandshake, monitorVars, Entry, MonitorOK
  <2>4. ASSUME status[n] # "dead", ~rejoin[n] PROVE ~condemned[n] /\ fails[n] < MaxRetries
    BY <1>0, <1>1, <2>4 DEF MonitorOK
  <2>5. CASE Quarantined(n)
    BY <1>0, <1>1, <2>4, <2>5 DEF Quarantined, SetStatus, Entry, MonitorOK
  <2>6. CASE Refreshed(n)
    BY <1>0, <1>1, <2>4, <2>6 DEF Refreshed, BecomesAlive, SetStatus, Entry, MonitorOK
  <2> QED BY <1>2, <2>1, <2>2, <2>3, <2>5, <2>6 DEF PingSucceeds
<1>3. ASSUME Strike(n)
      PROVE  /\ fails'[n] = AtMost(fails[n] + 1, MaxRetries)
             /\ rejoin'[n] = rejoin[n]
             /\ status[n] # "unknown" => stale'[n] = stale[n]
  BY <1>3 DEF Strike
<1>4. CASE PingFails(n)
  <2>1. Strike(n) /\ fails[n] + 1 < MaxRetries
    BY <1>4 DEF PingFails
  <2>2. fails'[n] = fails[n] + 1 /\ ~(fails'[n] >= MaxRetries)
    BY <1>0, <1>3, <2>1 DEF AtMost
  <2>3. status'[n] = "degraded" /\ condemned'[n] = condemned[n]
    BY <1>4 DEF PingFails, SetStatus
  <2> QED BY <1>0, <1>1, <1>3, <2>1, <2>2, <2>3 DEF MonitorOK
<1>5. CASE PingFailsAgain(n)
  <2>1. Strike(n) /\ fails[n] + 1 >= MaxRetries /\ status[n] = "dead"
    BY <1>5 DEF PingFailsAgain, Entry
  <2>2. fails'[n] >= MaxRetries
    BY <1>0, <1>3, <2>1 DEF AtMost
  <2>3. status'[n] = "dead" /\ condemned'[n] = condemned[n]
    BY <1>5, <2>1 DEF PingFailsAgain
  <2> QED BY <1>0, <1>1, <1>3, <2>1, <2>2, <2>3 DEF MonitorOK
<1>6. CASE DeclareDead(n)
  <2>1. Strike(n) /\ fails[n] + 1 >= MaxRetries
    BY <1>6 DEF DeclareDead
  <2>2. fails'[n] >= MaxRetries
    BY <1>0, <1>3, <2>1 DEF AtMost
  <2>3. status'[n] = "dead" /\ condemned'[n]
    BY <1>6 DEF DeclareDead, SetStatus
  <2> QED BY <1>0, <1>1, <1>3, <2>1, <2>2, <2>3 DEF MonitorOK
<1> QED BY <1>2, <1>4, <1>5, <1>6 DEF Ping

\* The timeout pass condemns every node that relied on it.
LEMMA TimeoutPass ==
  ASSUME TypeOK, MonitorInv, NEW late \in SUBSET Node, EndRound(late), NEW k \in Node
  PROVE  MonitorOK(k)'
<1> USE TimeAssumption DEF TypeOK
<1>0. MonitorOK(k) /\ stale[k] \in 0..TimeoutRounds
  BY DEF MonitorInv
<1>1. fails'[k] = fails[k] /\ rejoin'[k] = rejoin[k]
  BY DEF EndRound
<1>2. CASE k \in late
  <2>1. status'[k] = "dead" /\ condemned'[k] /\ stale'[k] = TimeoutRounds
    BY <1>2 DEF EndRound
  <2> QED BY <1>0, <1>1, <2>1 DEF MonitorOK
<1>3. CASE k \notin late
  <2>1. status'[k] = status[k] /\ condemned'[k] = condemned[k]
    BY <1>3 DEF EndRound
  <2>2. stale'[k] = AtMost(stale[k] + 1, TimeoutRounds)
    BY <1>3 DEF EndRound
  <2>3. stale[k] >= TimeoutRounds => stale'[k] >= TimeoutRounds
    BY <1>0, <2>2 DEF AtMost
  <2>4. ~MustTimeOut(k)
    BY <1>3 DEF EndRound
  <2>5. ~(status[k] = "degraded" /\ stale[k] >= TimeoutRounds)
    BY <1>0, <2>4 DEF MustTimeOut, CanTimeOut
  <2> QED BY <1>0, <1>1, <2>1, <2>3, <2>5 DEF MonitorOK
<1> QED BY <1>2, <1>3

\* Every step preserves what the monitor relies on.
LEMMA MonitorStep == IInv /\ [Next]_vars => MonitorInv'
<1> SUFFICES ASSUME IInv, [Next]_vars PROVE MonitorInv'
  OBVIOUS
<1>0. TypeOK /\ MonitorInv
  BY DEF IInv
<1>1. ASSUME UNCHANGED <<status, fails, stale, rejoin, condemned>>,
             \/ awake' = awake /\ toPing' \subseteq toPing
             \/ ~awake /\ awake'
      PROVE  MonitorInv'
  <2>1. \A k \in Node : MonitorOK(k)'
    BY <1>0, <1>1 DEF MonitorInv, MonitorOK, TypeOK
  <2> QED BY <1>0, <1>1, <2>1 DEF MonitorInv, TypeOK
<1>2. CASE ~Round
  BY <1>1, <1>2, OutsideRound DEF monitorVars, loopVars
<1>3. CASE StartRound
  BY <1>1, <1>3 DEF StartRound, monitorVars
<1>4. ASSUME NEW n \in Node, Ping(n) PROVE MonitorInv'
  <2>1. \A k \in Node : MonitorOK(k)'
    <3> TAKE k \in Node
    <3> QED BY <1>0, <1>4, OtherNode, PingedNode
  <2>2. toPing' \subseteq toPing /\ awake' = awake
    BY <1>4 DEF Ping, PingSucceeds, PingFails, PingFailsAgain, DeclareDead, Strike
  <2> QED BY <1>0, <2>1, <2>2 DEF MonitorInv
<1>5. CASE Reassign
  BY <1>1, <1>5 DEF Reassign, ReassignTask, ReassignFails, monitorVars
<1>6. ASSUME NEW late \in SUBSET Node, EndRound(late) PROVE MonitorInv'
  <2>1. \A k \in Node : MonitorOK(k)'
    BY <1>0, <1>6, TimeoutPass
  <2>2. toPing' = {}
    BY <1>6 DEF EndRound
  <2> QED BY <2>1, <2>2 DEF MonitorInv
<1> QED BY <1>2, <1>3, <1>4, <1>5, <1>6 DEF Round

\* While tasks are being moved the list of alive peers stays right: the health
\* loop is the only writer of the statuses, and it is busy moving.
LEMMA CandidateStep == IInv /\ [Next]_vars => CandidateInv'
<1> SUFFICES ASSUME IInv, [Next]_vars, NEW p \in Node PROVE CandidateOK(p)'
  BY DEF CandidateInv
<1>0. TypeOK /\ CandidateOK(p)
  BY DEF IInv, CandidateInv
<1> USE DEF CandidateOK
<1>1. CASE ~Round
  BY <1>0, <1>1, OutsideRound DEF monitorVars, loopVars
<1>2. CASE StartRound
  BY <1>0, <1>2 DEF StartRound, monitorVars
<1>3. ASSUME NEW n \in Node, PingSucceeds(n) PROVE CandidateOK(p)'
  BY <1>3 DEF PingSucceeds
<1>4. ASSUME NEW n \in Node, PingFails(n) \/ PingFailsAgain(n) PROVE CandidateOK(p)'
  BY <1>4 DEF PingFails, PingFailsAgain, Strike
<1>5. ASSUME NEW n \in Node, DeclareDead(n) PROVE CandidateOK(p)'
  <2>1. candidates' = AlivePeers(n)
    BY <1>5 DEF DeclareDead
  <2>2. p \in candidates' => p # n /\ status[p] = "alive"
    BY <2>1 DEF AlivePeers
  <2>3. p # n => status'[p] = status[p]
    BY <1>0, <1>5 DEF DeclareDead, SetStatus, TypeOK
  <2> QED BY <2>2, <2>3
<1>6. CASE Reassign
  BY <1>0, <1>6 DEF Reassign, ReassignTask, ReassignFails, monitorVars
<1>7. ASSUME NEW late \in SUBSET Node, EndRound(late) PROVE CandidateOK(p)'
  BY <1>7 DEF EndRound
<1> QED BY <1>1, <1>2, <1>3, <1>4, <1>5, <1>6, <1>7 DEF Round, Ping

\* A condemnation is only lifted by a validated handshake, which no node gets
\* while tasks are being moved.
LEMMA CondemnedStays ==
  ASSUME TypeOK, Round, ~(\E n \in Node : PingSucceeds(n)), NEW n \in Node, condemned[n]
  PROVE  condemned'[n]
<1> USE DEF TypeOK
<1>1. CASE StartRound
  BY <1>1 DEF StartRound, monitorVars
<1>2. ASSUME NEW k \in Node, PingFails(k) \/ PingFailsAgain(k) PROVE condemned'[n]
  BY <1>2 DEF PingFails, PingFailsAgain
<1>3. ASSUME NEW k \in Node, DeclareDead(k) PROVE condemned'[n]
  BY <1>3 DEF DeclareDead
<1>4. CASE Reassign
  BY <1>4 DEF Reassign, ReassignTask, ReassignFails, monitorVars
<1>5. ASSUME NEW late \in SUBSET Node, EndRound(late) PROVE condemned'[n]
  BY <1>5 DEF EndRound
<1> QED BY <1>1, <1>2, <1>3, <1>4, <1>5 DEF Round, Ping

\* Every step preserves what is known of a task, moving or done.
LEMMA TaskStep == IInv /\ [Next]_vars => TaskInv'
<1> SUFFICES ASSUME IInv, [Next]_vars, NEW t \in Task PROVE TaskOK(t)'
  BY DEF TaskInv
<1>0. TypeOK /\ TaskOK(t)
  BY DEF IInv, TaskInv
<1> USE NodeAssumption DEF TypeOK, TaskOK
<1>1. CASE Round
  <2>1. ASSUME NEW n \in Node, PingSucceeds(n) PROVE TaskOK(t)'
    BY <1>0, <2>1 DEF PingSucceeds, taskVars
  <2>2. ASSUME NEW n \in Node, DeclareDead(n) PROVE TaskOK(t)'
    <3>1. active' = active /\ completed' = completed
      BY <2>2 DEF DeclareDead, Strike, taskVars
    <3>2. t \in moving' => active[t] = n
      BY <2>2 DEF DeclareDead, Pending
    <3>3. condemned'[n]
      BY <1>0, <2>2 DEF DeclareDead
    <3> QED BY <1>0, <3>1, <3>2, <3>3
  <2>3. ASSUME NEW s \in Task, NEW best \in Node, ReassignTask(s, best) PROVE TaskOK(t)'
    <3>1. active'[t] = IF t = s /\ active[s] # NoNode THEN best ELSE active[t]
      BY <1>0, <2>3 DEF ReassignTask
    <3>2. condemned' = condemned /\ completed' = completed /\ moving' = moving \ {s}
      BY <2>3 DEF ReassignTask, monitorVars
    <3> QED BY <1>0, <3>1, <3>2
  <2>4. CASE /\ ~(\E n \in Node : PingSucceeds(n) \/ DeclareDead(n))
             /\ ~(\E s \in Task, best \in Node : ReassignTask(s, best))
    <3>1. moving' \subseteq moving /\ active' = active /\ completed' = completed
      BY <1>1, <2>4 DEF Round, StartRound, Ping, PingFails, PingFailsAgain, Strike,
                        Reassign, ReassignFails, EndRound, taskVars
    <3>2. active[t] \in Node /\ condemned[active[t]] => condemned'[active[t]]
      BY <1>0, <1>1, <2>4, CondemnedStays
    <3> QED BY <1>0, <3>1, <3>2
  <2> QED BY <2>1, <2>2, <2>3, <2>4
<1>2. CASE ~Round
  <2>0. UNCHANGED <<moving, condemned>>
    BY <1>2, OutsideRound DEF monitorVars, loopVars
  <2>1. ASSUME NEW s \in Task, CompleteTask(s) PROVE TaskOK(t)'
    BY <1>0, <2>0, <2>1 DEF CompleteTask
  <2>2. ASSUME NEW s \in Task, NEW n \in Node, AssignTask(s, n) PROVE TaskOK(t)'
    BY <1>0, <2>0, <2>2 DEF AssignTask
  <2>3. CASE UNCHANGED <<active, completed>>
    BY <1>0, <2>0, <2>3
  <2> QED BY <1>2, <2>1, <2>2, <2>3
          DEF Next, FinishTask, TaskFails, Crash, Restart, Listed, Delisted, taskVars, vars
<1> QED BY <1>1, <1>2

-----------------------------------------------------------------------------
(* The theorems *)

\* IInv holds in every reachable state.
THEOREM Invariance == Spec => []IInv
<1>1. IInv /\ [Next]_vars => IInv'
  BY TypeStep, MonitorStep, CandidateStep, TaskStep DEF IInv
<1> QED BY InitIInv, <1>1, PTL DEF Spec

\* The variables keep their types.
THEOREM TypeCorrect == Spec => []TypeOK
BY Invariance, PTL DEF IInv

\* health_monitor.py:133: a node that waits for its handshake is not alive.
THEOREM WaitingIsUntrusted == Spec => []RejoinIsUntrusted
<1>1. IInv => RejoinIsUntrusted
  BY DEF IInv, MonitorInv, MonitorOK, RejoinIsUntrusted
<1> QED BY Invariance, <1>1, PTL

\* health_monitor.py:163: after MAX_RETRIES failures a node is out until its
\* handshake, however many pings it answers.
THEOREM RetriesCondemn == Spec => []StruckOut
<1>1. IInv => StruckOut
  BY DEF IInv, MonitorInv, MonitorOK, StruckOut
<1> QED BY Invariance, <1>1, PTL

\* health_monitor.py:133-148 with :182 and :190: a node once declared dead is
\* not alive again before its handshake, although one failed ping makes it
\* "degraded" and a later success would refresh it; the timeout always wins.
THEOREM NoWayAroundHandshake == Spec => []RejoinNeedsHandshake
<1>1. IInv => RejoinNeedsHandshake
  BY DEF IInv, MonitorInv, MonitorOK, RejoinNeedsHandshake
<1> QED BY Invariance, <1>1, PTL

\* health_monitor.py:126, :165, :193: dead, reconnecting and rejoin_pending agree.
THEOREM DetectorsAgree == Spec => []DeadIsCondemned
<1>1. IInv => DeadIsCondemned
  BY DEF IInv, MonitorInv, MonitorOK, DeadIsCondemned
<1> QED BY Invariance, <1>1, PTL

\* task_distributor.py:265 against :313: a task completed while it was being
\* moved stays completed.
THEOREM CompletionIsFinal == Spec => []CompletedStaysCompleted
<1>1. IInv => CompletedStaysCompleted
  BY DEF IInv, TypeOK, TaskInv, TaskOK, CompletedStaysCompleted
<1> QED BY Invariance, <1>1, PTL

\* health_monitor.py:241-259: tasks leave condemned nodes for alive ones only.
THEOREM MovesAreSafe == Spec => MovedToAlive
<1> DEFINE Move == \A t \in Task :
      active[t] # NoNode /\ active'[t] \notin {NoNode, active[t]}
        => status[active'[t]] = "alive" /\ condemned[active[t]]
<1>1. IInv /\ [Next]_vars => [Move]_vars
  <2> SUFFICES ASSUME IInv, [Next]_vars, NEW t \in Task,
                      active[t] # NoNode, active'[t] \notin {NoNode, active[t]}
               PROVE  status[active'[t]] = "alive" /\ condemned[active[t]]
    OBVIOUS
  <2>0. TypeOK /\ TaskOK(t) /\ CandidateInv
    BY DEF IInv, TaskInv
  <2> USE DEF TypeOK
  <2>1. ASSUME NEW s \in Task, NEW best \in Node, ReassignTask(s, best)
        PROVE  status[active'[t]] = "alive" /\ condemned[active[t]]
    <3>1. t = s /\ active'[t] = best
      BY <2>0, <2>1 DEF ReassignTask
    <3>2. t \in moving /\ best \in candidates
      BY <2>1, <3>1 DEF ReassignTask
    <3>3. status[best] = "alive"
      BY <2>0, <3>2 DEF CandidateInv, CandidateOK
    <3> QED BY <2>0, <3>1, <3>2, <3>3 DEF TaskOK
  <2>2. ASSUME NEW s \in Task, CompleteTask(s) PROVE FALSE
    BY <2>0, <2>2 DEF CompleteTask
  <2>3. ASSUME NEW s \in Task, NEW n \in Node, AssignTask(s, n) PROVE FALSE
    BY <2>0, <2>3 DEF AssignTask
  <2>4. CASE active' = active
    BY <2>4
  <2> QED
    BY <2>1, <2>2, <2>3, <2>4
       DEF Next, Round, StartRound, Ping, PingSucceeds, PingFails, PingFailsAgain, DeclareDead,
           Strike, Reassign, ReassignFails, EndRound, FinishTask, TaskFails, Crash, Restart,
           Listed, Delisted, taskVars, vars
<1> QED BY Invariance, <1>1, PTL DEF Spec, MovedToAlive
=============================================================================
