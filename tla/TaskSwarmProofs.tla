-------------------------- MODULE TaskSwarmProofs --------------------------
(***************************************************************************)
(* Proofs about TaskSwarm for any requests and sensors, any workers and    *)
(* any number of faults.  IInv is inductive; the safety properties are     *)
(* among its parts.                                                        *)
(***************************************************************************)
EXTENDS TaskSwarm, FiniteSetTheorems, TLAPS

\* An agent is a request and one of the sensors it needs.
LEMMA AgentIsPair ==
  ASSUME NEW a \in Agent
  PROVE  a[1] \in Request /\ a[2] \in Sensor /\ a[2] \in Needs[a[1]] /\ a = <<a[1], a[2]>>
BY DEF Agent

\* The agents of a request.
LEMMA OwnAgents ==
  ASSUME NEW q \in Request
  PROVE  /\ Own(q) \subseteq Agent /\ Remote(q) \subseteq Own(q)
         /\ \A s \in Needs[q] : s \in Sensor /\ <<q, s>> \in Own(q)
BY NeedsAssumption DEF Own, Remote, Agent

\* There are finitely many agents.
LEMMA AgentsFinite ==
  /\ IsFiniteSet(Agent) /\ Cardinality(Agent) \in Nat
  /\ \A S \in SUBSET Agent :
       IsFiniteSet(S) /\ Cardinality(S) \in Nat /\ Cardinality(S) <= Cardinality(Agent)
<1>1. IsFiniteSet(Request \X Sensor)
  BY FiniteAssumption, FS_Product
<1>2. Agent \subseteq Request \X Sensor
  BY DEF Agent
<1>3. IsFiniteSet(Agent)
  BY <1>1, <1>2, FS_Subset
<1> QED BY <1>3, FS_Subset, FS_CardinalityType

\* The initial state satisfies the inductive invariant.
LEMMA InitIInv == Init => IInv
<1> SUFFICES ASSUME Init PROVE IInv
  OBVIOUS
<1>1. inbox \in Seq(Agent) /\ Len(inbox) = 0
  BY DEF Init
<1>2. {a \in Agent : agent[a] = "reading"} = {}
  BY DEF Init
<1>3. InboxInv /\ Len(inbox) <= MaxInbox + Cardinality(Agent)
  BY <1>1, <1>2, AgentsFinite, BoundAssumption, FS_EmptySet DEF InboxInv
<1>4. TypeOK
  BY <1>1, <1>3 DEF Init, TypeOK
<1>5. Active = {}
  BY DEF Init, Active
<1> QED
  BY <1>3, <1>4, <1>5 DEF Init, IInv, PlacedInv, AnsweredInv, ActiveInv, HeardInv, FaultFreeInv,
     OneAnswerEach, EarlyMeansAll, CompleteWithoutFaults, AloneHearsAll

-----------------------------------------------------------------------------
(* Types *)

\* A new process keeps the types and empties the inbox.
LEMMA NewProcessTypes ==
  ASSUME TypeOK, NewProcess
  PROVE  /\ TypeOK' <=> program' \in {"none", "prompt", "run_intent", "api"}
                         /\ stage' \in [Request -> {"new", "distributing", "collecting", "waiting",
                                                    "done", "killed"}]
                         /\ faults' \in Nat
         /\ InboxInv'
<1>1. inbox' \in Seq(Agent) /\ Len(inbox') = 0
  BY DEF NewProcess
<1>2. {a \in Agent : agent'[a] = "reading"} = {}
  BY DEF NewProcess
<1>3. InboxInv' /\ Len(inbox') <= MaxInbox + Cardinality(Agent)
  BY <1>1, <1>2, AgentsFinite, BoundAssumption, FS_EmptySet DEF InboxInv
<1>4. agent' \in [Agent -> {"none", "asleep", "reading", "ended"}]
  BY DEF NewProcess, TypeOK
<1> QED BY <1>1, <1>3, <1>4 DEF NewProcess, TypeOK

\* The inbox has room for every agent that woke.
LEMMA InboxBounded ==
  ASSUME TypeOK, InboxInv, [Next]_vars
  PROVE  InboxInv'
<1> DEFINE R == {a \in Agent : agent[a] = "reading"}
<1>0. /\ IsFiniteSet(R) /\ Cardinality(R) \in Nat /\ Len(inbox) \in Nat
      /\ MaxInbox \in Nat /\ Cardinality(Agent) \in Nat
  BY AgentsFinite, BoundAssumption DEF TypeOK
<1>1. CASE NewProcess
  BY <1>1, NewProcessTypes
<1>2. CASE agent' = agent /\ inbox' = inbox
  BY <1>2 DEF InboxInv
<1>3. ASSUME NEW q \in Request, Spawn(q)
      PROVE  InboxInv'
  <2>1. {a \in Agent : agent'[a] = "reading"} \subseteq R
    BY <1>3 DEF Spawn, TypeOK
  <2>2. Cardinality({a \in Agent : agent'[a] = "reading"}) \in Nat
    BY AgentsFinite
  <2>3. Cardinality({a \in Agent : agent'[a] = "reading"}) <= Cardinality(R)
    BY <1>0, <2>1, FS_Subset
  <2>4. inbox' = inbox
    BY <1>3 DEF Spawn
  <2> QED BY <1>0, <2>2, <2>3, <2>4 DEF InboxInv
<1>4. ASSUME NEW q \in Request, Receive(q)
      PROVE  InboxInv'
  <2>1. inbox # <<>> /\ inbox' = Tail(inbox) /\ agent' = agent
    BY <1>4 DEF Receive
  <2>2. Len(inbox') = Len(inbox) - 1
    BY <2>1 DEF TypeOK
  <2> QED BY <1>0, <2>1, <2>2 DEF InboxInv
<1>5. ASSUME NEW a \in Agent, Wake(a)
      PROVE  InboxInv'
  <2>1. Cardinality({b \in Agent : agent'[b] = "reading"}) <= Cardinality(Agent)
    BY AgentsFinite
  <2>2. Cardinality({b \in Agent : agent'[b] = "reading"}) \in Nat
    BY AgentsFinite
  <2>3. inbox' = inbox
    BY <1>5 DEF Wake
  <2>4. CASE a \in running
    BY <1>0, <1>5, <2>1, <2>2, <2>3, <2>4 DEF Wake, InboxInv
  <2>5. CASE a \notin running
    <3>1. {b \in Agent : agent'[b] = "reading"} = R
      BY <1>5, <2>5 DEF Wake, TypeOK
    <3> QED BY <2>3, <3>1 DEF InboxInv
  <2> QED BY <2>4, <2>5
<1>6. ASSUME NEW a \in Agent, Send(a)
      PROVE  InboxInv'
  <2>1. {b \in Agent : agent'[b] = "reading"} = R \ {a} /\ a \in R
    BY <1>6 DEF Send, TypeOK
  <2>2. Cardinality({b \in Agent : agent'[b] = "reading"}) = Cardinality(R) - 1
    BY <1>0, <2>1, FS_RemoveElement
  <2>3. Len(inbox') = Len(inbox) + 1
    BY <1>6 DEF Send, TypeOK
  <2> HIDE DEF R
  <2>4. Len(inbox) + Cardinality(R) <= MaxInbox + Cardinality(Agent)
    BY DEF InboxInv, R
  <2> QED BY <1>0, <2>2, <2>3, <2>4 DEF InboxInv
<1> QED
  BY <1>1, <1>2, <1>3, <1>4, <1>5, <1>6
     DEF Next, StartProgram, KillProgram, Serve, BeginIntent, Place, Assign, FallBack, SpawnIntent,
         BeginRequest, EndCollection, Wait, WaitSucceeds, WaitTimesOut, EndWait, Destroy, Answer,
         LoseTask, agentVars, vars

\* The inbox stays within the bound of TypeOK.
LEMMA InboxLength ==
  ASSUME TypeOK, InboxInv, [Next]_vars, inbox' \in Seq(Agent)
  PROVE  Len(inbox') <= MaxInbox + Cardinality(Agent)
<1>1. /\ Cardinality({a \in Agent : agent'[a] = "reading"}) \in Nat
      /\ Len(inbox') \in Nat /\ MaxInbox \in Nat /\ Cardinality(Agent) \in Nat
  BY AgentsFinite, BoundAssumption
<1>2. InboxInv'
  BY InboxBounded
<1> QED BY <1>1, <1>2 DEF InboxInv

\* What is yet to be placed is a sensor the request needs.
LEMMA PlacedAreNeeded ==
  ASSUME PlacedInv, NEW q \in Request, NEW s \in todo[q]
  PROVE  <<q, s>> \in Agent /\ <<q, s>> \notin tasks \union results
BY OwnAgents DEF PlacedInv

\* Every step keeps the types.
LEMMA StepTypes ==
  ASSUME TypeOK, InboxInv, PlacedInv, [Next]_vars
  PROVE  TypeOK'
<1>0. inbox' \in Seq(Agent) => Len(inbox') <= MaxInbox + Cardinality(Agent)
  BY InboxLength
<1> USE <1>0
<1>1. ASSUME NEW p \in {"prompt", "api"}, StartProgram(p) PROVE TypeOK'
  <2>1. NewProcess /\ program' = p /\ UNCHANGED <<stage, faults>>
    BY <1>1 DEF StartProgram
  <2> QED BY <2>1, NewProcessTypes DEF TypeOK
<1>2. CASE KillProgram
  <2>1. NewProcess /\ program' = "none" /\ faults' \in Nat
    BY <1>2 DEF KillProgram, Fault, TypeOK
  <2>2. stage' \in [Request -> {"new", "distributing", "collecting", "waiting", "done", "killed"}]
    BY <1>2 DEF KillProgram, TypeOK
  <2> QED BY <2>1, <2>2, NewProcessTypes
<1>3. ASSUME NEW q \in Request, BeginIntent(q) PROVE TypeOK'
  BY <1>3, NeedsAssumption DEF BeginIntent, TypeOK, agentVars
<1>4. ASSUME NEW q \in Request, NEW s \in Sensor, NEW w \in Worker, Assign(q, s, w)
      PROVE  TypeOK'
  <2>1. s \in todo[q]
    BY <1>4 DEF Assign
  <2>2. tasks' \subseteq Agent
    BY <1>4, <2>1, PlacedAreNeeded DEF Assign, TypeOK
  <2>3. home' \in [Request -> [Sensor -> Worker \union {Local}]]
    BY <1>4 DEF Assign, TypeOK
  <2> QED BY <1>4, <2>2, <2>3 DEF Assign, TypeOK, agentVars
<1>5. ASSUME NEW q \in Request, NEW s \in Sensor, FallBack(q, s) PROVE TypeOK'
  BY <1>5 DEF FallBack, TypeOK, agentVars
<1>6. ASSUME NEW q \in Request, Spawn(q),
             program' \in {"none", "prompt", "run_intent", "api"}, shared' \subseteq Request
      PROVE  TypeOK'
  <2>1. agent' \in [Agent -> {"none", "asleep", "reading", "ended"}]
    BY <1>6 DEF Spawn, TypeOK
  <2> QED BY <1>6, <2>1, OwnAgents DEF Spawn, TypeOK, taskVars
<1>7. ASSUME NEW q \in Request, SpawnIntent(q) PROVE TypeOK'
  <2>1. Spawn(q) /\ UNCHANGED <<program, shared>>
    BY <1>7 DEF SpawnIntent
  <2> QED BY <1>6, <2>1 DEF TypeOK
<1>8. ASSUME NEW q \in Request, BeginRequest(q) PROVE TypeOK'
  <2>1. Active \subseteq Request
    BY DEF Active
  <2>2. shared' \subseteq Request
    BY <1>8, <2>1 DEF BeginRequest, TypeOK
  <2>3. Spawn(q) /\ program' = program
    BY <1>8 DEF BeginRequest
  <2> QED BY <1>6, <2>2, <2>3 DEF TypeOK
<1>9. ASSUME NEW q \in Request, Receive(q) PROVE TypeOK'
  <2>1. inbox' \in Seq(Agent) /\ Head(inbox) \in Agent
    BY <1>9 DEF Receive, TypeOK
  <2>2. Head(inbox)[2] \in Sensor
    BY <2>1, AgentIsPair
  <2>3. heard' \in [Request -> SUBSET Sensor]
    BY <1>9, <2>2 DEF Receive, TypeOK
  <2> QED BY <1>9, <2>1, <2>3 DEF Receive, TypeOK, taskVars
<1>10. ASSUME NEW q \in Request, EndCollection(q) PROVE TypeOK'
  BY <1>10 DEF EndCollection, TypeOK, taskVars
<1>11. ASSUME NEW q \in Request, WaitSucceeds(q) \/ WaitTimesOut(q) PROVE TypeOK'
  <2>1. early' \subseteq Request /\ faults' \in Nat
    BY <1>11 DEF WaitSucceeds, WaitTimesOut, Fault, TypeOK
  <2>2. EndWait(q)
    BY <1>11 DEF WaitSucceeds, WaitTimesOut
  <2> QED BY <2>1, <2>2 DEF EndWait, TypeOK, agentVars
<1>12. ASSUME NEW a \in Agent, Wake(a) PROVE TypeOK'
  <2>1. agent' \in [Agent -> {"none", "asleep", "reading", "ended"}]
    BY <1>12 DEF Wake, TypeOK
  <2> QED BY <1>12, <2>1 DEF Wake, TypeOK, taskVars
<1>13. ASSUME NEW a \in Agent, Send(a) PROVE TypeOK'
  <2>1. agent' \in [Agent -> {"none", "asleep", "reading", "ended"}]
    BY <1>13 DEF Send, TypeOK
  <2>2. inbox' \in Seq(Agent)
    BY <1>13 DEF Send, TypeOK
  <2> QED BY <1>13, <2>1, <2>2 DEF Send, TypeOK, taskVars
<1>14. ASSUME NEW a \in Agent, Destroy(a) PROVE TypeOK'
  BY <1>14 DEF Destroy, TypeOK, taskVars
<1>15. ASSUME NEW t \in tasks, Answer(t) \/ LoseTask(t) PROVE TypeOK'
  BY <1>15 DEF Answer, LoseTask, Fault, TypeOK, agentVars
<1>16. CASE UNCHANGED vars
  BY <1>16 DEF TypeOK, vars, taskVars, agentVars
<1> QED
  BY <1>1, <1>2, <1>3, <1>4, <1>5, <1>7, <1>8, <1>9, <1>10, <1>11, <1>12, <1>13, <1>14, <1>15, <1>16
     DEF Next, Serve, Place, Wait

-----------------------------------------------------------------------------
(* Tasks and results *)

\* Placing is safe as long as tasks and results do not grow but by placing.
LEMMA PlacedFrame ==
  ASSUME PlacedInv, OneAnswerEach, UNCHANGED <<todo, home>>,
         tasks' \union results' \subseteq tasks \union results, tasks' \intersect results' = {},
         \A q \in Request : stage'[q] = "new" => stage[q] = "new"
  PROVE  PlacedInv' /\ OneAnswerEach'
BY Zenon DEF PlacedInv, OneAnswerEach

\* Every step leaves each task unplaced, under way or answered.
LEMMA StepPlaced ==
  ASSUME TypeOK, PlacedInv, OneAnswerEach, [Next]_vars
  PROVE  PlacedInv' /\ OneAnswerEach'
<1> DEFINE NewStays == \A q \in Request : stage'[q] = "new" => stage[q] = "new"
<1>0. tasks \intersect results = {}
  BY DEF OneAnswerEach
<1>1. ASSUME UNCHANGED <<todo, home, tasks, results>>, NewStays
      PROVE  PlacedInv' /\ OneAnswerEach'
  BY <1>0, <1>1, PlacedFrame
<1>2. ASSUME NewProcess, NewStays
      PROVE  PlacedInv' /\ OneAnswerEach'
  BY <1>2, PlacedFrame DEF NewProcess
<1>3. ASSUME NEW q \in Request, BeginIntent(q)
      PROVE  PlacedInv' /\ OneAnswerEach'
  <2>1. /\ stage[q] = "new" /\ todo' = [todo EXCEPT ![q] = Needs[q]]
        /\ stage' = [stage EXCEPT ![q] = "distributing"] /\ UNCHANGED <<home, tasks, results>>
    BY <1>3 DEF BeginIntent
  <2>2. \A s \in Needs[q] : <<q, s>> \notin tasks \union results
    BY <2>1 DEF PlacedInv
  <2>3. \A p \in Request : \A s \in todo'[p] : s \in Needs[p] /\ <<p, s>> \notin tasks \union results
    BY <2>1, <2>2 DEF PlacedInv, TypeOK
  <2> QED BY <2>1, <2>3 DEF PlacedInv, OneAnswerEach, TypeOK
<1>4. ASSUME NEW q \in Request, NEW s \in Sensor, NEW w \in Worker, Assign(q, s, w)
      PROVE  PlacedInv' /\ OneAnswerEach'
  <2>1. /\ stage[q] = "distributing" /\ s \in todo[q] /\ todo' = [todo EXCEPT ![q] = @ \ {s}]
        /\ home' = [home EXCEPT ![q][s] = w] /\ tasks' = tasks \union {<<q, s>>}
        /\ UNCHANGED <<stage, results>>
    BY <1>4 DEF Assign
  <2>2. <<q, s>> \notin tasks \union results
    BY <2>1, PlacedAreNeeded
  <2>3. \A t \in Agent : home'[t[1]][t[2]] = IF t = <<q, s>> THEN w ELSE home[t[1]][t[2]]
    BY <2>1, AgentIsPair DEF TypeOK
  <2>4. OneAnswerEach'
    <3>1. tasks' \subseteq Agent /\ results' \subseteq Agent
      BY <2>1, PlacedAreNeeded DEF TypeOK
    <3> QED BY <1>0, <2>1, <2>2, <2>3, <3>1, LocalAssumption DEF OneAnswerEach
  <2>5. \A p \in Request : \A r \in todo'[p] :
          r \in Needs[p] /\ <<p, r>> \notin tasks' \union results'
    BY <2>1 DEF PlacedInv, TypeOK
  <2>6. \A p \in Request : stage'[p] = "new" =>
          p # q /\ home'[p] = home[p] /\ \A t \in tasks' \union results' : t[1] # p
    BY <2>1 DEF PlacedInv, TypeOK
  <2> QED BY <2>1, <2>4, <2>5, <2>6 DEF PlacedInv
<1>5. ASSUME NEW q \in Request, NEW s \in Sensor, FallBack(q, s)
      PROVE  PlacedInv' /\ OneAnswerEach'
  <2>1. /\ todo' = [todo EXCEPT ![q] = @ \ {s}] /\ UNCHANGED <<stage, home, tasks, results>>
    BY <1>5 DEF FallBack
  <2>2. \A p \in Request : todo'[p] \subseteq todo[p]
    BY <2>1 DEF TypeOK
  <2> QED BY <2>1, <2>2 DEF PlacedInv, OneAnswerEach
<1>6. ASSUME NEW t \in tasks, Answer(t) \/ LoseTask(t)
      PROVE  PlacedInv' /\ OneAnswerEach'
  <2>1. /\ UNCHANGED <<todo, home, stage>> /\ tasks' = tasks \ {t}
        /\ results' \subseteq results \union {t}
    BY <1>6 DEF Answer, LoseTask
  <2> QED BY <1>0, <2>1, PlacedFrame
<1>7. CASE KillProgram
  BY <1>2, <1>7 DEF KillProgram, TypeOK
<1>8. ASSUME NEW p \in {"prompt", "api"}, StartProgram(p) PROVE PlacedInv' /\ OneAnswerEach'
  BY <1>2, <1>8 DEF StartProgram
<1>9. ASSUME NEW q \in Request,
             SpawnIntent(q) \/ BeginRequest(q) \/ EndCollection(q) \/ WaitSucceeds(q) \/ WaitTimesOut(q)
      PROVE  PlacedInv' /\ OneAnswerEach'
  <2>1. UNCHANGED <<todo, home, tasks, results>>
    BY <1>9 DEF SpawnIntent, BeginRequest, Spawn, EndCollection, WaitSucceeds, WaitTimesOut, EndWait,
                taskVars
  <2>2. NewStays
    BY <1>9 DEF SpawnIntent, BeginRequest, Spawn, EndCollection, WaitSucceeds, WaitTimesOut, EndWait,
                TypeOK
  <2> QED BY <1>1, <2>1, <2>2
<1>10. CASE UNCHANGED <<stage, taskVars>>
  BY <1>1, <1>10 DEF taskVars
<1> QED
  BY <1>3, <1>4, <1>5, <1>6, <1>7, <1>8, <1>9, <1>10
     DEF Next, Serve, Place, Wait, Receive, Wake, Send, Destroy, vars

\* Results that answer a request alone, and are as many as its tasks, are all of them.
LEMMA EnoughIsAll ==
  ASSUME TypeOK, OneAnswerEach, NEW q \in Request, Enough(q), results \subseteq Own(q)
  PROVE  results = Remote(q)
<1>1. results \subseteq Remote(q)
  <2> SUFFICES ASSUME NEW t \in results PROVE t \in Remote(q)
    OBVIOUS
  <2>1. t \in Own(q) /\ t[1] = q
    BY DEF Own
  <2> QED BY <2>1 DEF OneAnswerEach, Remote
<1>2. IsFiniteSet(Remote(q)) /\ Cardinality(Remote(q)) \in Nat /\ Cardinality(results) \in Nat
  BY OwnAgents, AgentsFinite DEF TypeOK
<1>3. Cardinality(results) <= Cardinality(Remote(q))
  BY <1>1, <1>2, FS_Subset
<1> QED BY <1>1, <1>2, <1>3, FS_Subset DEF Enough

\* What was answered stays answered.
LEMMA AnsweredFrame ==
  ASSUME AnsweredInv, EarlyMeansAll, UNCHANGED <<answered, early>>, TypeOK,
         \A q \in Request : stage[q] = "done" => stage'[q] = "done" /\ home'[q] = home[q]
  PROVE  AnsweredInv' /\ EarlyMeansAll'
<1>1. AnsweredInv'
  BY Zenon DEF AnsweredInv, TypeOK
<1>2. \A q \in early : q \in Request /\ home'[q] = home[q]
  BY DEF AnsweredInv, TypeOK
<1>3. \A q \in early : Remote(q)' = Remote(q) /\ Own(q)' = Own(q)
  BY <1>2 DEF Remote, Own
<1>4. EarlyMeansAll'
  BY <1>3 DEF EarlyMeansAll
<1> QED BY <1>1, <1>4

\* Every step answers a request at its end only, and an early end with everything.
LEMMA StepAnswered ==
  ASSUME TypeOK, OneAnswerEach, AnsweredInv, EarlyMeansAll, [Next]_vars
  PROVE  AnsweredInv' /\ EarlyMeansAll'
<1>1. ASSUME UNCHANGED <<answered, early, home>>,
             \A q \in Request : stage[q] = "done" => stage'[q] = "done"
      PROVE  AnsweredInv' /\ EarlyMeansAll'
  BY <1>1, AnsweredFrame
<1>2. ASSUME NEW q \in Request, NEW s \in Sensor, NEW w \in Worker, Assign(q, s, w)
      PROVE  AnsweredInv' /\ EarlyMeansAll'
  <2>1. \A p \in Request : stage[p] = "done" => stage'[p] = "done" /\ home'[p] = home[p]
    BY <1>2 DEF Assign, TypeOK
  <2> QED BY <1>2, <2>1, AnsweredFrame DEF Assign
<1>3. ASSUME NEW q \in Request, EndWait(q), stage[q] = "waiting",
             \/ early' = early
             \/ early' = early \union {q} /\ Enough(q)
      PROVE  AnsweredInv' /\ EarlyMeansAll'
  <2>1. /\ stage' = [stage EXCEPT ![q] = "done"] /\ answered' = [answered EXCEPT ![q] = results]
        /\ home' = home
    BY <1>3 DEF EndWait
  <2>2. AnsweredInv'
    BY <1>3, <2>1 DEF AnsweredInv, TypeOK
  <2>3. \A p \in Request : Remote(p)' = Remote(p) /\ Own(p)' = Own(p)
    BY <2>1 DEF Remote, Own
  <2>4. q \notin early
    BY <1>3 DEF AnsweredInv
  <2>5. ASSUME NEW p \in early', answered'[p] \subseteq Own(p)
        PROVE  answered'[p] = Remote(p)
    <3>1. CASE p = q
      BY <1>3, <2>1, <2>4, <2>5, <3>1, EnoughIsAll DEF TypeOK
    <3>2. CASE p # q
      BY <1>3, <2>1, <2>5, <3>2 DEF EarlyMeansAll, TypeOK
    <3> QED BY <3>1, <3>2
  <2>6. early' \subseteq Request
    BY <1>3 DEF TypeOK
  <2> QED BY <2>2, <2>3, <2>5, <2>6 DEF EarlyMeansAll
<1>4. ASSUME NEW q \in Request, WaitSucceeds(q) \/ WaitTimesOut(q)
      PROVE  AnsweredInv' /\ EarlyMeansAll'
  BY <1>3, <1>4 DEF WaitSucceeds, WaitTimesOut
<1>5. ASSUME NEW q \in Request,
             BeginIntent(q) \/ SpawnIntent(q) \/ BeginRequest(q) \/ EndCollection(q)
      PROVE  AnsweredInv' /\ EarlyMeansAll'
  <2>1. UNCHANGED <<answered, early, home>>
    BY <1>5 DEF BeginIntent, SpawnIntent, BeginRequest, Spawn, EndCollection, taskVars
  <2>2. \A p \in Request : stage[p] = "done" => stage'[p] = "done"
    BY <1>5 DEF BeginIntent, SpawnIntent, BeginRequest, Spawn, EndCollection, TypeOK
  <2> QED BY <1>1, <2>1, <2>2
<1>6. CASE KillProgram
  BY <1>1, <1>6 DEF KillProgram, NewProcess, Active, TypeOK
<1>7. ASSUME NEW p \in {"prompt", "api"}, StartProgram(p) PROVE AnsweredInv' /\ EarlyMeansAll'
  BY <1>1, <1>7 DEF StartProgram, NewProcess
<1>8. CASE UNCHANGED <<answered, early, home, stage>>
  BY <1>1, <1>8
<1> QED
  BY <1>2, <1>4, <1>5, <1>6, <1>7, <1>8
     DEF Next, Serve, Place, Wait, FallBack, Receive, Wake, Send, Destroy, Answer, LoseTask,
         taskVars, vars

-----------------------------------------------------------------------------
(* Processes and the shared inbox *)

\* Every step keeps the requests of run_intent.py in processes of their own.
LEMMA StepActive ==
  ASSUME TypeOK, ActiveInv, [Next]_vars
  PROVE  ActiveInv'
<1>0. Active \subseteq Request
  BY DEF Active
<1>1. ASSUME Active' \subseteq Active, UNCHANGED <<program, shared>>,
             \A q \in Request : stage'[q] = "distributing" => stage[q] = "distributing"
      PROVE  ActiveInv'
  BY <1>1 DEF ActiveInv
<1>2. ASSUME Active' = {}
      PROVE  ActiveInv'
  BY <1>2 DEF ActiveInv, Active
<1>3. ASSUME NEW q \in Request, BeginIntent(q) PROVE ActiveInv'
  <2>1. Active' = {q}
    BY <1>3 DEF BeginIntent, ActiveInv, Active, TypeOK
  <2> QED BY <1>3, <2>1 DEF BeginIntent, ActiveInv, TypeOK
<1>4. ASSUME NEW q \in Request, BeginRequest(q) PROVE ActiveInv'
  <2>1. Active' = Active \union {q}
    BY <1>4 DEF BeginRequest, Spawn, Active, TypeOK
  <2>2. program' = "api"
    BY <1>4 DEF BeginRequest
  <2>0. \A p \in Request : stage'[p] # "distributing"
    BY <1>4 DEF BeginRequest, Spawn, ActiveInv, TypeOK
  <2>3. CASE Active = {}
    BY <2>0, <2>1, <2>2, <2>3 DEF ActiveInv
  <2>4. CASE Active # {}
    BY <1>4, <2>0, <2>1, <2>2, <2>4 DEF BeginRequest, ActiveInv
  <2> QED BY <2>3, <2>4
<1>5. ASSUME NEW q \in Request,
             SpawnIntent(q) \/ EndCollection(q) \/ WaitSucceeds(q) \/ WaitTimesOut(q)
      PROVE  ActiveInv'
  <2>1. UNCHANGED <<program, shared>>
    BY <1>5 DEF SpawnIntent, EndCollection, WaitSucceeds, WaitTimesOut, EndWait
  <2>2. Active' \subseteq Active
    BY <1>5 DEF SpawnIntent, Spawn, EndCollection, WaitSucceeds, WaitTimesOut, EndWait, Active, TypeOK
  <2>3. \A p \in Request : stage'[p] = "distributing" => stage[p] = "distributing"
    BY <1>5 DEF SpawnIntent, Spawn, EndCollection, WaitSucceeds, WaitTimesOut, EndWait, TypeOK
  <2> QED BY <1>1, <2>1, <2>2, <2>3
<1>6. CASE KillProgram
  BY <1>2, <1>6 DEF KillProgram, Active, TypeOK
<1>7. ASSUME NEW p \in {"prompt", "api"}, StartProgram(p) PROVE ActiveInv'
  BY <1>2, <1>7 DEF StartProgram, Active
<1>8. CASE UNCHANGED <<program, shared, stage>>
  BY <1>1, <1>8 DEF Active
<1> QED
  BY <1>3, <1>4, <1>5, <1>6, <1>7, <1>8
     DEF Next, Serve, Place, Assign, FallBack, Wait, Receive, Wake, Send, Destroy, Answer, LoseTask,
         vars

\* Every step keeps that a request alone in its process takes its own first readings.
LEMMA StepHeard ==
  ASSUME TypeOK, ActiveInv, HeardInv, AloneHearsAll, [Next]_vars
  PROVE  HeardInv' /\ AloneHearsAll'
<1>1. ASSUME heard' = heard, first \subseteq first', shared \subseteq shared',
             \A q \in Request : stage'[q] \in {"waiting", "done"} => stage[q] \in {"waiting", "done"},
             \A q \in Request : stage'[q] = "collecting" => stage[q] = "collecting"
      PROVE  HeardInv' /\ AloneHearsAll'
  <2>1. HeardInv'
    BY <1>1 DEF HeardInv
  <2>2. AloneHearsAll'
    BY <1>1 DEF AloneHearsAll
  <2> QED BY <2>1, <2>2
<1>2. ASSUME NEW q \in Request, Spawn(q), stage[q] \in {"new", "distributing"},
             shared \subseteq shared'
      PROVE  HeardInv' /\ AloneHearsAll'
  <2>1. /\ stage' = [stage EXCEPT ![q] = "collecting"] /\ first' = first \union Own(q)
        /\ heard' = heard
    BY <1>2 DEF Spawn
  <2>2. \A s \in Needs[q] : <<q, s>> \in first'
    BY <2>1, OwnAgents
  <2>3. HeardInv'
    BY <1>2, <2>1, <2>2 DEF HeardInv, TypeOK
  <2>4. AloneHearsAll'
    BY <1>2, <2>1 DEF AloneHearsAll, TypeOK
  <2> QED BY <2>3, <2>4
<1>3. ASSUME NEW q \in Request, Receive(q)
      PROVE  HeardInv' /\ AloneHearsAll'
  <2> DEFINE a == Head(inbox)
  <2>1. /\ stage[q] = "collecting" /\ first' = first \ {a}
        /\ heard' = [heard EXCEPT ![q] = @ \union ({a[2]} \intersect Needs[q])]
        /\ UNCHANGED <<stage, shared>>
    BY <1>3 DEF Receive
  <2>2. a \in Agent
    BY <1>3 DEF Receive, TypeOK
  <2>3. a[1] \in Request /\ a[2] \in Needs[a[1]] /\ a = <<a[1], a[2]>>
    BY <2>2, AgentIsPair
  <2> HIDE DEF a
  <2>4. \A p \in Request : heard[p] \subseteq heard'[p] /\ (p # q => heard'[p] = heard[p])
    BY <2>1 DEF TypeOK
  <2>5. ASSUME NEW p \in Request \ shared, stage[p] = "collecting", NEW s \in Needs[p]
        PROVE  <<p, s>> \in first' \/ s \in heard'[p]
    <3>1. CASE a = <<p, s>>
      <4>1. p \in Active /\ q \in Active
        BY <2>1, <2>5 DEF Active
      <4>2. p = q
        BY <4>1 DEF ActiveInv
      <4> QED BY <2>1, <3>1, <4>2 DEF TypeOK
    <3>2. CASE a # <<p, s>>
      BY <2>1, <2>4, <2>5, <3>2 DEF HeardInv
    <3> QED BY <3>1, <3>2
  <2>6. \A p \in Request \ shared : heard'[p] \subseteq Needs[p]
    BY <2>1 DEF HeardInv, TypeOK
  <2>7. HeardInv'
    BY <2>1, <2>5, <2>6 DEF HeardInv
  <2>8. AloneHearsAll'
    BY <2>1, <2>4 DEF AloneHearsAll
  <2> QED BY <2>7, <2>8
<1>4. ASSUME NEW q \in Request, EndCollection(q)
      PROVE  HeardInv' /\ AloneHearsAll'
  <2>1. /\ stage[q] = "collecting" /\ Own(q) \intersect first = {} /\ UNCHANGED <<first, heard, shared>>
        /\ stage'[q] \in {"done", "waiting"} /\ \A p \in Request : p # q => stage'[p] = stage[p]
    BY <1>4 DEF EndCollection, TypeOK
  <2>2. ASSUME q \notin shared PROVE heard[q] = Needs[q]
    <3>1. \A s \in Needs[q] : <<q, s>> \notin first
      BY <2>1, OwnAgents
    <3>2. heard[q] \subseteq Needs[q] /\ \A s \in Needs[q] : s \in heard[q]
      BY <2>1, <2>2, <3>1 DEF HeardInv
    <3> QED BY <3>2
  <2>3. HeardInv'
    BY <2>1 DEF HeardInv
  <2>4. AloneHearsAll'
    BY <2>1, <2>2 DEF AloneHearsAll
  <2> QED BY <2>3, <2>4
<1>5. ASSUME NEW q \in Request, SpawnIntent(q) \/ BeginRequest(q)
      PROVE  HeardInv' /\ AloneHearsAll'
  <2>1. Spawn(q) /\ stage[q] \in {"new", "distributing"} /\ shared \subseteq shared'
    BY <1>5 DEF SpawnIntent, BeginRequest
  <2> QED BY <1>2, <2>1
<1>6. ASSUME NEW q \in Request, BeginIntent(q) \/ WaitSucceeds(q) \/ WaitTimesOut(q)
      PROVE  HeardInv' /\ AloneHearsAll'
  <2>1. UNCHANGED <<heard, first, shared>>
    BY <1>6 DEF BeginIntent, WaitSucceeds, WaitTimesOut, EndWait, agentVars
  <2>2. \A p \in Request :
          /\ stage'[p] \in {"waiting", "done"} => stage[p] \in {"waiting", "done"}
          /\ stage'[p] = "collecting" => stage[p] = "collecting"
    BY <1>6 DEF BeginIntent, WaitSucceeds, WaitTimesOut, EndWait, TypeOK
  <2> QED BY <1>1, <2>1, <2>2
<1>7. ASSUME NewProcess,
             \A q \in Request : stage'[q] = stage[q] \/ stage'[q] = "killed",
             \A q \in Request : stage'[q] # "collecting"
      PROVE  HeardInv' /\ AloneHearsAll'
  <2>1. UNCHANGED <<heard, shared>>
    BY <1>7 DEF NewProcess
  <2>2. HeardInv'
    BY <1>7, <2>1 DEF HeardInv
  <2>3. AloneHearsAll'
    BY <1>7, <2>1 DEF AloneHearsAll
  <2> QED BY <2>2, <2>3
<1>8. CASE KillProgram
  BY <1>7, <1>8 DEF KillProgram, Active, TypeOK
<1>9. ASSUME NEW p \in {"prompt", "api"}, StartProgram(p) PROVE HeardInv' /\ AloneHearsAll'
  BY <1>7, <1>9 DEF StartProgram, Active
<1>10. CASE UNCHANGED <<heard, first, shared, stage>>
  BY <1>1, <1>10
<1> QED
  BY <1>3, <1>4, <1>5, <1>6, <1>8, <1>9, <1>10
     DEF Next, Serve, Place, Assign, FallBack, Wait, Wake, Send, Destroy, Answer, LoseTask,
         agentVars, vars

-----------------------------------------------------------------------------
(* Runs without faults *)

\* While nothing changes but stages, which keep who is active, nothing is to prove.
LEMMA FaultFreeFrame ==
  ASSUME TypeOK, FaultFreeInv, CompleteWithoutFaults, faults' = 0 => faults = 0,
         UNCHANGED <<program, home, tasks, results, answered>>, Active' = Active,
         \A q \in Request : stage'[q] = "done" => stage[q] = "done"
  PROVE  FaultFreeInv' /\ CompleteWithoutFaults'
<1>1. \A q \in Request : Remote(q)' = Remote(q)
  BY DEF Remote, Own
<1>2. Active \subseteq Request
  BY DEF Active
<1>3. FaultFreeInv'
  BY <1>1, <1>2 DEF FaultFreeInv
<1>4. CompleteWithoutFaults'
  BY <1>1 DEF CompleteWithoutFaults
<1> QED BY <1>3, <1>4

\* A request that ends with the results of all its tasks leaves no task behind.
LEMMA FaultFreeEnd ==
  ASSUME TypeOK, ActiveInv, FaultFreeInv, CompleteWithoutFaults, faults = 0, faults' = 0,
         NEW q \in Active, stage' = [stage EXCEPT ![q] = "done"],
         UNCHANGED <<program, home, tasks, results>>,
         answered' = [answered EXCEPT ![q] = answered'[q]],
         tasks = {}, answered'[q] = results
  PROVE  FaultFreeInv' /\ CompleteWithoutFaults'
<1>1. \A p \in Request : Remote(p)' = Remote(p)
  BY DEF Remote, Own
<1>2. q \in Request /\ Active' = Active \ {q} /\ Active \subseteq Request
  BY DEF Active, TypeOK
<1>3. FaultFreeInv'
  BY <1>1, <1>2 DEF FaultFreeInv
<1>4. Remote(q) = results
  BY DEF FaultFreeInv
<1>5. ASSUME NEW p \in Request, stage'[p] = "done"
      PROVE  answered'[p] = Remote(p)
  BY <1>2, <1>4, <1>5 DEF CompleteWithoutFaults, TypeOK
<1>6. CompleteWithoutFaults'
  BY <1>1, <1>5 DEF CompleteWithoutFaults
<1> QED BY <1>3, <1>6

\* The end of a wait without faults finds no task under way.
LEMMA WaitDrains ==
  ASSUME TypeOK, OneAnswerEach, FaultFreeInv, faults = 0, NEW q \in Active,
         Enough(q) \/ Remote(q) \intersect tasks = {}
  PROVE  tasks = {}
<1>1. Remote(q) = tasks \union results /\ tasks \intersect results = {} /\ q \in Request
  BY DEF FaultFreeInv, OneAnswerEach, Active
<1>2. CASE Enough(q)
  <2>1. results \subseteq Own(q)
    BY <1>1, OwnAgents
  <2>2. results = Remote(q)
    BY <1>1, <1>2, <2>1, EnoughIsAll
  <2> QED BY <1>1, <2>2
<1>3. CASE Remote(q) \intersect tasks = {}
  BY <1>1, <1>3
<1> QED BY <1>2, <1>3

\* Every step of a run without faults gives a request its own results and no others.
LEMMA StepFaultFree ==
  ASSUME TypeOK, PlacedInv, OneAnswerEach, AnsweredInv, ActiveInv, FaultFreeInv,
         CompleteWithoutFaults, [Next]_vars
  PROVE  FaultFreeInv' /\ CompleteWithoutFaults'
<1>0. Active \subseteq Request
  BY DEF Active
<1>1. ASSUME NEW p \in {"prompt", "api"}, StartProgram(p)
      PROVE  FaultFreeInv' /\ CompleteWithoutFaults'
  <2>1. /\ Active = {} /\ program' = p /\ results' = {} /\ UNCHANGED <<stage, faults, home, tasks, answered>>
    BY <1>1 DEF StartProgram, NewProcess
  <2>2. Active' = {} /\ \A q \in Request : Remote(q)' = Remote(q)
    BY <2>1 DEF Active, Remote, Own
  <2>3. faults = 0 => tasks = {}
    BY <2>1 DEF FaultFreeInv
  <2>4. FaultFreeInv'
    BY <2>1, <2>2, <2>3 DEF FaultFreeInv
  <2>5. CompleteWithoutFaults'
    BY <2>1, <2>2 DEF CompleteWithoutFaults
  <2> QED BY <2>4, <2>5
<1>2. ASSUME faults' = faults + 1
      PROVE  FaultFreeInv' /\ CompleteWithoutFaults'
  <2>1. faults' # 0
    BY <1>2 DEF TypeOK
  <2> QED BY <2>1 DEF FaultFreeInv, CompleteWithoutFaults
<1>3. ASSUME NEW q \in Request, BeginIntent(q)
      PROVE  FaultFreeInv' /\ CompleteWithoutFaults'
  <2>1. /\ stage[q] = "new" /\ program = "prompt" /\ program' = "run_intent"
        /\ stage' = [stage EXCEPT ![q] = "distributing"]
        /\ UNCHANGED <<home, tasks, results, answered, faults>>
    BY <1>3 DEF BeginIntent
  <2>2. Active = {} /\ Active' = {q}
    BY <2>1 DEF ActiveInv, Active, TypeOK
  <2>3. \A p \in Request : Remote(p)' = Remote(p)
    BY <2>1 DEF Remote, Own
  <2>4. Remote(q) = {}
    BY <2>1 DEF PlacedInv, Remote, Own, Agent
  <2>5. FaultFreeInv'
    BY <2>1, <2>2, <2>3, <2>4 DEF FaultFreeInv
  <2>6. CompleteWithoutFaults'
    BY <2>1, <2>3 DEF CompleteWithoutFaults, TypeOK
  <2> QED BY <2>5, <2>6
<1>4. ASSUME NEW q \in Request, BeginRequest(q)
      PROVE  FaultFreeInv' /\ CompleteWithoutFaults'
  <2>1. /\ stage[q] = "new" /\ program = "api" /\ program' = "api"
        /\ stage' = [stage EXCEPT ![q] = "collecting"]
        /\ UNCHANGED <<home, tasks, results, answered, faults>>
    BY <1>4 DEF BeginRequest, Spawn, taskVars
  <2>2. Active' = Active \union {q}
    BY <2>1 DEF Active, TypeOK
  <2>3. \A p \in Request : Remote(p)' = Remote(p)
    BY <2>1 DEF Remote, Own
  <2>4. Remote(q) = {}
    BY <2>1 DEF PlacedInv, Remote, Own, Agent
  <2>5. FaultFreeInv'
    BY <1>0, <2>1, <2>2, <2>3, <2>4 DEF FaultFreeInv
  <2>6. CompleteWithoutFaults'
    BY <2>1, <2>3 DEF CompleteWithoutFaults, TypeOK
  <2> QED BY <2>5, <2>6
<1>5. ASSUME NEW q \in Request, NEW s \in Sensor, NEW w \in Worker, Assign(q, s, w)
      PROVE  FaultFreeInv' /\ CompleteWithoutFaults'
  <2>1. /\ stage[q] = "distributing" /\ s \in todo[q] /\ home' = [home EXCEPT ![q][s] = w]
        /\ tasks' = tasks \union {<<q, s>>} /\ UNCHANGED <<program, stage, results, answered, faults>>
    BY <1>5 DEF Assign
  <2>2. <<q, s>> \in Agent /\ q \in Active /\ Active' = Active /\ w # Local
    BY <2>1, PlacedAreNeeded, LocalAssumption DEF Active
  <2>3. \A t \in Agent : home'[t[1]][t[2]] = IF t = <<q, s>> THEN w ELSE home[t[1]][t[2]]
    BY <2>1, AgentIsPair DEF TypeOK
  <2>4. \A p \in Request : Remote(p)' = IF p = q THEN Remote(p) \union {<<q, s>>} ELSE Remote(p)
    BY <2>2, <2>3 DEF Remote, Own
  <2>5. program = "run_intent" /\ \A p \in Active : p = q
    BY <2>1, <2>2 DEF ActiveInv, Active
  <2>6. FaultFreeInv'
    BY <1>0, <2>1, <2>2, <2>4, <2>5 DEF FaultFreeInv
  <2>7. CompleteWithoutFaults'
    BY <2>1, <2>4 DEF CompleteWithoutFaults
  <2> QED BY <2>6, <2>7
<1>6. ASSUME NEW q \in Request, SpawnIntent(q)
      PROVE  FaultFreeInv' /\ CompleteWithoutFaults'
  <2>1. /\ stage[q] = "distributing" /\ stage' = [stage EXCEPT ![q] = "collecting"]
        /\ UNCHANGED <<program, home, tasks, results, answered, faults>>
    BY <1>6 DEF SpawnIntent, Spawn, taskVars
  <2>2. Active' = Active /\ \A p \in Request : stage'[p] = "done" => stage[p] = "done"
    BY <2>1 DEF Active, TypeOK
  <2> QED BY <2>1, <2>2, FaultFreeFrame
<1>7. ASSUME NEW q \in Request, EndCollection(q)
      PROVE  FaultFreeInv' /\ CompleteWithoutFaults'
  <2>1. /\ stage[q] = "collecting" /\ UNCHANGED <<program, home, tasks, results, answered, faults>>
        /\ stage' = [stage EXCEPT ![q] = IF Remote(q) = {} THEN "done" ELSE "waiting"]
        /\ q \in Active
    BY <1>7 DEF EndCollection, taskVars, Active
  <2>2. CASE Remote(q) # {}
    <3>1. Active' = Active /\ \A p \in Request : stage'[p] = "done" => stage[p] = "done"
      BY <2>1, <2>2 DEF Active, TypeOK
    <3> QED BY <2>1, <3>1, FaultFreeFrame
  <2>3. CASE Remote(q) = {} /\ faults = 0
    <3>1. tasks = {} /\ results = {} /\ answered[q] = {}
      BY <2>1, <2>3 DEF FaultFreeInv, AnsweredInv
    <3>2. answered' = [answered EXCEPT ![q] = answered'[q]]
      BY <2>1 DEF TypeOK
    <3> QED BY <2>1, <2>3, <3>1, <3>2, FaultFreeEnd
  <2>4. CASE faults # 0
    BY <2>1, <2>4 DEF FaultFreeInv, CompleteWithoutFaults
  <2> QED BY <2>2, <2>3, <2>4
<1>8. ASSUME NEW q \in Request, WaitSucceeds(q) \/ WaitTimesOut(q)
      PROVE  FaultFreeInv' /\ CompleteWithoutFaults'
  <2>1. /\ stage[q] = "waiting" /\ q \in Active /\ stage' = [stage EXCEPT ![q] = "done"]
        /\ answered' = [answered EXCEPT ![q] = results] /\ UNCHANGED <<program, home, tasks, results>>
    BY <1>8 DEF WaitSucceeds, WaitTimesOut, EndWait, Active
  <2>2. CASE faults' = faults + 1
    BY <1>2, <2>2
  <2>3. CASE faults' = faults /\ faults # 0
    BY <2>3 DEF FaultFreeInv, CompleteWithoutFaults
  <2>4. CASE faults' = faults /\ faults = 0
    <3>1. Enough(q) \/ Remote(q) \intersect tasks = {}
      BY <1>8, <2>4 DEF WaitSucceeds, WaitTimesOut, Fault
    <3>2. tasks = {}
      BY <2>1, <2>4, <3>1, WaitDrains
    <3>3. answered'[q] = results /\ answered' = [answered EXCEPT ![q] = answered'[q]]
      BY <2>1 DEF TypeOK
    <3> QED BY <2>1, <2>4, <3>2, <3>3, FaultFreeEnd
  <2> QED BY <1>8, <2>2, <2>3, <2>4 DEF WaitSucceeds, WaitTimesOut, Fault
<1>9. ASSUME NEW t \in tasks, Answer(t)
      PROVE  FaultFreeInv' /\ CompleteWithoutFaults'
  <2>1. /\ tasks' = tasks \ {t} /\ UNCHANGED <<program, stage, home, answered, faults>>
        /\ results' = IF program = "none" THEN results ELSE results \union {t}
    BY <1>9 DEF Answer
  <2>2. Active' = Active /\ \A q \in Request : Remote(q)' = Remote(q)
    BY <2>1 DEF Active, Remote, Own
  <2>3. faults = 0 => program = "run_intent"
    BY DEF FaultFreeInv
  <2>4. FaultFreeInv'
    BY <1>0, <2>1, <2>2, <2>3 DEF FaultFreeInv
  <2>5. CompleteWithoutFaults'
    BY <2>1, <2>2 DEF CompleteWithoutFaults
  <2> QED BY <2>4, <2>5
<1>10. CASE UNCHANGED <<program, stage, home, tasks, results, answered, faults>>
  BY <1>10, FaultFreeFrame DEF Active
<1>11. CASE KillProgram \/ \E t \in tasks : LoseTask(t)
  BY <1>2, <1>11 DEF KillProgram, LoseTask, Fault
<1> QED
  BY <1>1, <1>3, <1>4, <1>5, <1>6, <1>7, <1>8, <1>9, <1>10, <1>11
     DEF Next, Serve, Place, FallBack, Wait, Receive, Wake, Send, Destroy, taskVars, vars

-----------------------------------------------------------------------------
(* Theorems *)

\* The inductive invariant holds in every run of requests, agents and workers.
THEOREM Invariance == Spec => []IInv
<1>1. IInv /\ [Next]_vars => IInv'
  <2> SUFFICES ASSUME IInv, [Next]_vars PROVE IInv'
    OBVIOUS
  <2> QED
    BY InboxBounded, StepTypes, StepPlaced, StepAnswered, StepActive, StepHeard, StepFaultFree DEF IInv
<1> QED BY InitIInv, <1>1, PTL DEF Spec

\* The variables keep their types, and the inbox its bound.
THEOREM TypeCorrect == Spec => []TypeOK
<1>1. IInv => TypeOK
  BY DEF IInv
<1> QED BY Invariance, <1>1, PTL

\* result_collector.py:116, task_distributor.py:85: a task is answered once at
\* most, and only if a worker has it, whatever process receives the answer.
THEOREM AnsweredOnce == Spec => []OneAnswerEach
<1>1. IInv => OneAnswerEach
  BY DEF IInv
<1> QED BY Invariance, <1>1, PTL

\* orchestrator.py:127-186 with result_collector.py:31-75: the minimum wait is enough for a
\* request alone on the inbox, a count of results is enough to tell that all have come as
\* long as no result of a former process is among them, and without faults none is.
THEOREM CollectedComplete == Spec => []CollectsAll
<1>1. IInv => CollectsAll
  BY DEF IInv, CollectsAll
<1> QED BY Invariance, <1>1, PTL
=============================================================================
