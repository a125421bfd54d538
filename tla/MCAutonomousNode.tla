-------------------------- MODULE MCAutonomousNode --------------------------
(***************************************************************************)
(* Three parts of an autonomous node (src/examples/run_autonomous.py) that *)
(* share no state here, checked in one run: the mind with its goal         *)
(* manager, one run of its ML pipeline over the swarm, and the exchange by *)
(* which it gets to know its peers.  A behaviour is one of one part,       *)
(* chosen in the initial state; fairness is that part's.                   *)
(***************************************************************************)
EXTENDS SwarmMind, ParallelExecutor, TLC

CONSTANTS
  Node, Far, NoNode, Worker, Heard, MaxFaults

VARIABLES
  part,                                                       \* the one that runs
  up, remaining, calling, handlers, delivered, known, entry, reading, grown, raised, faults

Capable(llm, tps, composite, ram, cpu) ==
  [benched |-> TRUE, composite |-> composite, llm |-> llm, tps |-> tps, ollama |-> llm,
   ram |-> ram, cpu |-> cpu, hw |-> 20]

\* A node with a language model, one too slow for all but the light tasks, one with much
\* memory, and one that was never benchmarked.
FourCaps ==
  {Capable(TRUE, 8, 50, 8, 4), Capable(FALSE, 0, 12, 4, 8), Capable(FALSE, 0, 30, 16, 4),
   [benched |-> FALSE, composite |-> 0, llm |-> FALSE, tps |-> 0, ollama |-> TRUE,
    ram |-> 8, cpu |-> 4, hw |-> 42]}

Exchange == INSTANCE PeerExchange

ASSUME PeerAssumption == Local \notin Peer /\ PeerCaps \subseteq Caps

exchangeVars == <<up, remaining, calling, handlers, delivered, known, entry, reading,
                  grown, raised, faults>>
allVars == <<part, vars, executorVars, exchangeVars>>

NodeInit ==
  /\ part \in {"mind", "pipeline", "exchange"}
  /\ Init /\ ExecutorInit /\ Exchange!ExchangeInit

NodeNext ==
  /\ UNCHANGED part
  /\ \/ part = "mind" /\ Next /\ UNCHANGED <<executorVars, exchangeVars>>
     \/ part = "pipeline" /\ ExecutorNext /\ UNCHANGED <<vars, exchangeVars>>
     \/ part = "exchange" /\ Exchange!ExchangeNext /\ UNCHANGED <<vars, executorVars>>

\* The fairness of each part, once it is the one that runs.
MindFairness ==
  /\ \A b \in {"message_bus", "event_bus"} : WF_vars(part = "mind" /\ Subscribe(b))
  /\ SF_vars(part = "mind" /\ \E s \in Sensor : Publish(s))
  /\ WF_vars(part = "mind" /\ Collect) /\ WF_vars(part = "mind" /\ Deliver)
  /\ WF_vars(part = "mind" /\ Trigger)
  /\ SF_vars(part = "mind" /\ \E v \in Verdicts : Act(v))
  /\ WF_vars(part = "mind" /\ Record)
  /\ WF_vars(part = "mind" /\ Evaluate) /\ WF_vars(part = "mind" /\ SetMode)

ExchangeFairness ==
  \A n, p \in Node :
    /\ WF_exchangeVars(part = "exchange" /\ Exchange!Connect(n, p))
    /\ WF_exchangeVars(part = "exchange" /\ calling[n] = p
                       /\ (Exchange!CallFails(n) \/ Exchange!CallSucceeds(n)))
    /\ WF_exchangeVars(part = "exchange"
                       /\ (Exchange!ServeClient(n, p) \/ Exchange!HandlerEnds(n, p)))

NodeSpec == NodeInit /\ [][NodeNext]_allVars /\ MindFairness /\ ExchangeFairness

\* One verdict of every kind the thresholds tell apart.
FourVerdicts ==
  {Quiet,
   [anomalous |-> TRUE, urgency |-> "LOW"],
   [anomalous |-> FALSE, urgency |-> "HIGH"],
   [anomalous |-> TRUE, urgency |-> "CRITICAL"]}

-----------------------------------------------------------------------------
\* The three type invariants
NodeTypeOK == TypeOK /\ ExecutorTypeOK /\ Exchange!ExchangeTypeOK

\* What the mind promises of its behaviours: it follows what its cycles conclude for good,
\* up and down (goal_manager.py, _evaluate_and_adjust).
MindFollows == part = "mind" => Escalates /\ BacksOff

Introduced == Exchange!Introduced
=============================================================================
