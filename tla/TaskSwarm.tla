----------------------------- MODULE TaskSwarm -----------------------------
(***************************************************************************)
(* The path of a request: examples/run_intent.py or the socket API, the    *)
(* orchestrator (src/core/orchestrator.py) with the sensor agents it       *)
(* spawns, the distribution of sensor tasks to workers                     *)
(* (src/swarm/task_distributor.py) and the collector of their results      *)
(* (src/swarm/result_collector.py).                                        *)
(*                                                                         *)
(* Only one of the two programs runs at a time (both bind port 50005).     *)
(* run_intent.py serves one request per process and distributes it; the    *)
(* API serves any number at once in one process, without workers.  A       *)
(* worker that gets a task of a former process sends its result to the     *)
(* present one.  The sensors a language model names are taken to have a    *)
(* template, which its prompt asks for and the code does not check.  Which *)
(* worker is chosen, and how many readings above one a sensor gives, do    *)
(* not matter to what follows, nor does the pipeline of models at the end. *)
(*                                                                         *)
(* Times: an agent sends its first reading at once, so it has been taken   *)
(* from the inbox before _MIN_WAIT (3 s); timers of agents (30 or 60 s)    *)
(* outlast a collection (10 s); a worker that answers does so before the   *)
(* collection and the wait (15 s) are over, unless it is late, a fault.    *)
(***************************************************************************)
EXTENDS Naturals, Sequences, FiniteSets

CONSTANTS
  Request,        \* the requests ever made
  Sensor,         \* kinds of sensors
  Worker,         \* peers with the role worker
  Local,          \* a sensor of a request that no worker was given
  Needs,          \* Needs[q]: data_required of q
  MaxInbox,       \* bound on readings under way to the orchestrator
  MaxFaults       \* bound on killed processes, lost and late results

\* Keyword parsing names one sensor at least (intent_parser.py:159).
ASSUME NeedsAssumption == Needs \in [Request -> (SUBSET Sensor) \ {{}}]
ASSUME LocalAssumption == Local \notin Worker
ASSUME FiniteAssumption == IsFiniteSet(Request) /\ IsFiniteSet(Sensor)
ASSUME BoundAssumption == MaxInbox \in Nat /\ MaxFaults \in Nat

VARIABLES
  program,        \* the program that runs; run_intent.py starts at its prompt
  stage,          \* stage[q]: where the request is
  todo,           \* todo[q]: sensors distribute_tasks has not placed yet
  home,           \* home[q][s]: the worker that was sent the task, or Local
  tasks,          \* tasks under way at workers
  results,        \* _results of the running process
  answered,       \* answered[q]: what wait_for_results returned
  early,          \* requests whose wait ended before its timeout
  agent,          \* agent[a]: where the thread of an agent is
  running,        \* agents whose _running flag is set
  registered,     \* active_agents of the lifecycle
  inbox,          \* the queue "orchestrator", of the agents that sent
  first,          \* agents whose first reading nobody has taken yet
  heard,          \* heard[q]: sensors with readings in collected
  shared,         \* history: requests that were not alone in their process
  faults

taskVars == <<todo, home, tasks, results, answered, early>>
agentVars == <<agent, running, registered, inbox, first, heard>>
vars == <<program, stage, taskVars, agentVars, shared, faults>>

Agent == {a \in Request \X Sensor : a[2] \in Needs[a[1]]}
Own(q) == {a \in Agent : a[1] = q}

TypeOK ==
  /\ program \in {"none", "prompt", "run_intent", "api"}
  /\ stage \in [Request -> {"new", "distributing", "collecting", "waiting", "done", "killed"}]
  /\ todo \in [Request -> SUBSET Sensor]
  /\ home \in [Request -> [Sensor -> Worker \union {Local}]]
  /\ tasks \subseteq Agent /\ results \subseteq Agent
  /\ answered \in [Request -> SUBSET Agent]
  /\ early \subseteq Request
  /\ agent \in [Agent -> {"none", "asleep", "reading", "ended"}]
  /\ running \subseteq Agent /\ registered \subseteq Agent
  /\ inbox \in Seq(Agent) /\ Len(inbox) <= MaxInbox + Cardinality(Agent)
  /\ first \subseteq Agent
  /\ heard \in [Request -> SUBSET Sensor]
  /\ shared \subseteq Request
  /\ faults \in Nat

Init ==
  /\ program = "none"
  /\ stage = [q \in Request |-> "new"]
  /\ todo = [q \in Request |-> {}]
  /\ home = [q \in Request |-> [s \in Sensor |-> Local]]
  /\ tasks = {} /\ results = {}
  /\ answered = [q \in Request |-> {}]
  /\ early = {}
  /\ agent = [a \in Agent |-> "none"]
  /\ running = {} /\ registered = {}
  /\ inbox = <<>>
  /\ first = {}
  /\ heard = [q \in Request |-> {}]
  /\ shared = {}
  /\ faults = 0

Fault == faults < MaxFaults /\ faults' = faults + 1

Active == {q \in Request : stage[q] \in {"distributing", "collecting", "waiting"}}
Remote(q) == {a \in Own(q) : home[q][a[2]] # Local}

-----------------------------------------------------------------------------
(* Processes *)

\* A new process has an empty bus, no agents and no results.
NewProcess ==
  /\ agent' = [a \in Agent |-> IF agent[a] = "none" THEN "none" ELSE "ended"]
  /\ running' = {} /\ registered' = {}
  /\ inbox' = <<>> /\ first' = {}
  /\ results' = {}
  /\ UNCHANGED <<todo, home, tasks, answered, early, heard, shared>>

StartProgram(p) ==
  /\ Active = {}
  /\ program' = p
  /\ NewProcess
  /\ UNCHANGED <<stage, faults>>

KillProgram ==
  /\ Fault
  /\ program # "none"
  /\ program' = "none"
  /\ stage' = [q \in Request |-> IF q \in Active THEN "killed" ELSE stage[q]]
  /\ NewProcess

-----------------------------------------------------------------------------
(* Distribution: run_intent.py *)

BeginIntent(q) ==
  /\ program = "prompt" /\ stage[q] = "new"
  /\ program' = "run_intent"
  /\ stage' = [stage EXCEPT ![q] = "distributing"]
  /\ todo' = [todo EXCEPT ![q] = Needs[q]]
  /\ UNCHANGED <<home, tasks, results, answered, early, agentVars, shared, faults>>

\* The task was sent: the worker's kernel has it.
Assign(q, s, w) ==
  /\ stage[q] = "distributing" /\ s \in todo[q]
  /\ todo' = [todo EXCEPT ![q] = @ \ {s}]
  /\ home' = [home EXCEPT ![q][s] = w]
  /\ tasks' = tasks \union {<<q, s>>}
  /\ UNCHANGED <<program, stage, results, answered, early, agentVars, shared, faults>>

\* No worker is known, or the one chosen cannot be reached.
FallBack(q, s) ==
  /\ stage[q] = "distributing" /\ s \in todo[q]
  /\ todo' = [todo EXCEPT ![q] = @ \ {s}]
  /\ UNCHANGED <<program, stage, home, tasks, results, answered, early, agentVars,
                 shared, faults>>

-----------------------------------------------------------------------------
(* run_intent of the orchestrator *)

\* create_from_intent: the agents start, are registered, get their timers.
Spawn(q) ==
  /\ stage' = [stage EXCEPT ![q] = "collecting"]
  /\ agent' = [a \in Agent |-> IF a \in Own(q) THEN "asleep" ELSE agent[a]]
  /\ running' = running \union Own(q)
  /\ registered' = registered \union Own(q)
  /\ first' = first \union Own(q)
  /\ UNCHANGED <<taskVars, inbox, heard, faults>>

\* With a text and use_llm the agents are those of the whole intent, not only
\* of the sensors that stayed local.
SpawnIntent(q) ==
  /\ stage[q] = "distributing" /\ todo[q] = {}
  /\ Spawn(q)
  /\ UNCHANGED <<program, shared>>

BeginRequest(q) ==
  /\ program = "api" /\ stage[q] = "new"
  /\ Spawn(q)
  /\ shared' = IF Active = {} THEN shared ELSE shared \union Active \union {q}
  /\ UNCHANGED program

\* A reading of a sensor that is not in collected is dropped.
Receive(q) ==
  /\ stage[q] = "collecting" /\ inbox # <<>>
  /\ inbox' = Tail(inbox)
  /\ first' = first \ {Head(inbox)}
  /\ heard' = [heard EXCEPT ![q] = @ \union ({Head(inbox)[2]} \intersect Needs[q])]
  /\ UNCHANGED <<program, stage, taskVars, agent, running, registered, shared, faults>>

\* Mutation: the inbox is drained before the agents are stopped.
EndCollectionDrained(q) ==
  /\ stage[q] = "collecting" /\ inbox = <<>> /\ Own(q) \intersect first = {}
  /\ running' = running \ Own(q)
  /\ stage' = [stage EXCEPT ![q] = IF Remote(q) = {} THEN "done" ELSE "waiting"]
  /\ UNCHANGED <<program, taskVars, agent, registered, inbox, first, heard, shared, faults>>

\* The early exit or the deadline, both after _MIN_WAIT: the agents are stopped.
EndCollection(q) ==
  /\ stage[q] = "collecting" /\ Own(q) \intersect first = {}
  /\ running' = running \ Own(q)
  /\ stage' = [stage EXCEPT ![q] = IF Remote(q) = {} THEN "done" ELSE "waiting"]
  /\ UNCHANGED <<program, taskVars, agent, registered, inbox, first, heard, shared, faults>>

EndWait(q) ==
  /\ stage' = [stage EXCEPT ![q] = "done"]
  /\ answered' = [answered EXCEPT ![q] = results]
  /\ UNCHANGED <<program, todo, home, tasks, results, agentVars, shared>>

\* Mutation: one result less will do.
EnoughButOne(q) == Cardinality(results) + 1 >= Cardinality(Remote(q))

Enough(q) == Cardinality(results) >= Cardinality(Remote(q))

\* wait_for_results counts whatever arrived in this process.
WaitSucceeds(q) ==
  /\ stage[q] = "waiting" /\ Enough(q)
  /\ EndWait(q)
  /\ early' = early \union {q}
  /\ UNCHANGED faults

WaitTimesOut(q) ==
  /\ stage[q] = "waiting" /\ ~Enough(q)
  /\ \/ Remote(q) \intersect tasks = {} /\ UNCHANGED faults
     \/ Remote(q) \intersect tasks # {} /\ Fault
  /\ EndWait(q)
  /\ UNCHANGED early

-----------------------------------------------------------------------------
(* Agents *)

\* The loop of SensorAgent.run looks at the flag; MaxInbox bounds the instance only.
Wake(a) ==
  /\ agent[a] = "asleep"
  /\ IF a \in running
     THEN Len(inbox) < MaxInbox /\ agent' = [agent EXCEPT ![a] = "reading"]
     ELSE agent' = [agent EXCEPT ![a] = "ended"]
  /\ UNCHANGED <<program, stage, taskVars, running, registered, inbox, first, heard,
                 shared, faults>>

Send(a) ==
  /\ agent[a] = "reading"
  /\ agent' = [agent EXCEPT ![a] = "asleep"]
  /\ inbox' = Append(inbox, a)
  /\ UNCHANGED <<program, stage, taskVars, running, registered, first, heard, shared, faults>>

\* auto_destroy_after: the timer is over after the collection.
Destroy(a) ==
  /\ a \in registered /\ stage[a[1]] # "collecting"
  /\ registered' = registered \ {a}
  /\ running' = running \ {a}
  /\ UNCHANGED <<program, stage, taskVars, agent, inbox, first, heard, shared, faults>>

-----------------------------------------------------------------------------
(* Workers *)

\* The result is for whatever process listens now, and lost when none does.
Answer(t) ==
  /\ tasks' = tasks \ {t}
  /\ results' = IF program = "none" THEN results ELSE results \union {t}
  /\ UNCHANGED <<program, stage, todo, home, answered, early, agentVars, shared, faults>>

\* The worker dies, has no reading, or cannot deliver its result.
LoseTask(t) ==
  /\ Fault
  /\ tasks' = tasks \ {t}
  /\ UNCHANGED <<program, stage, todo, home, results, answered, early, agentVars, shared>>

-----------------------------------------------------------------------------
Place(q) == \E s \in Sensor : FallBack(q, s) \/ \E w \in Worker : Assign(q, s, w)
Wait(q) == WaitSucceeds(q) \/ WaitTimesOut(q)

Serve(q) ==
  \/ BeginIntent(q) \/ Place(q) \/ SpawnIntent(q) \/ BeginRequest(q)
  \/ Receive(q) \/ EndCollection(q) \/ Wait(q)

Next ==
  \/ \E p \in {"prompt", "api"} : StartProgram(p)
  \/ KillProgram
  \/ \E q \in Request : Serve(q)
  \/ \E a \in Agent : Wake(a) \/ Send(a) \/ Destroy(a)
  \/ \E t \in tasks : Answer(t) \/ LoseTask(t)

Spec == Init /\ [][Next]_vars

\* Threads go on; nobody need start a program or make a request.
Fairness ==
  /\ WF_vars(\E q \in Request : Place(q) \/ SpawnIntent(q) \/ EndCollection(q) \/ Wait(q))
  /\ WF_vars(\E q \in Request : Receive(q))
  /\ \A a \in Agent : SF_vars(Wake(a)) /\ WF_vars(Send(a))
  /\ WF_vars(\E a \in Agent : Destroy(a))
  /\ WF_vars(\E t \in tasks : Answer(t))

FairSpec == Spec /\ Fairness

-----------------------------------------------------------------------------
(* Properties *)

\* The results the collector holds answer tasks that were given to a worker, each
\* at most once: no task is both under way and answered.
OneAnswerEach ==
  /\ tasks \intersect results = {}
  /\ \A t \in tasks \union results : home[t[1]][t[2]] # Local

\* A wait that ends before its timeout (result_collector.py:58) has all results
\* of its request, unless a result for a request of a former process was counted.
EarlyMeansAll ==
  \A q \in early : answered[q] \subseteq Own(q) => answered[q] = Remote(q)

\* As long as nothing fails, a request gets the results of all its tasks and no
\* others, although late results of former requests would count like its own.
CompleteWithoutFaults ==
  faults = 0 => \A q \in Request : stage[q] = "done" => answered[q] = Remote(q)

\* A request that was alone in its process has readings of all its sensors,
\* whatever workers do; requests that share the inbox may take each other's.
AloneHearsAll ==
  \A q \in Request \ shared : stage[q] \in {"waiting", "done"} => heard[q] = Needs[q]

\* What a request collects: the readings of its sensors when it is alone, and all results of
\* its tasks when it stops waiting early or nothing failed (orchestrator.py:127-186,
\* result_collector.py:44-75).
CollectsAll == AloneHearsAll /\ EarlyMeansAll /\ CompleteWithoutFaults

\* A request ends, whatever workers and the network do, and no agent outlives
\* its request for good: its thread ends and it leaves the registry (the timer of
\* auto_destroy_after, and stop).
RequestEnds ==
  /\ \A q \in Request : q \in Active ~> q \notin Active
  /\ \A a \in Agent : a \in registered ~> (a \notin registered /\ agent[a] = "ended")

-----------------------------------------------------------------------------
(* The inductive invariant *)

\* A reading is sent by an agent that woke when the inbox had room.
InboxInv ==
  Len(inbox) + Cardinality({a \in Agent : agent[a] = "reading"}) <= MaxInbox + Cardinality(Agent)

\* What is yet to be placed was given to nobody, and so was all of a new request.
PlacedInv ==
  /\ \A q \in Request : \A s \in todo[q] : s \in Needs[q] /\ <<q, s>> \notin tasks \union results
  /\ \A q \in Request : stage[q] = "new" =>
       /\ \A s \in Sensor : home[q][s] = Local
       /\ \A t \in tasks \union results : t[1] # q

\* An answer is given once, at the end.
AnsweredInv ==
  /\ \A q \in Request : stage[q] # "done" => answered[q] = {}
  /\ \A q \in early : stage[q] = "done"

\* Only run_intent.py distributes, and only the API serves two requests at once.
ActiveInv ==
  /\ \A q \in Request : stage[q] = "distributing" => program = "run_intent"
  /\ program \in {"none", "prompt"} => Active = {}
  /\ \A p, q \in Active : p # q => program = "api" /\ p \in shared

\* A request alone in its process takes all first readings itself.
HeardInv ==
  \A q \in Request \ shared :
    /\ heard[q] \subseteq Needs[q]
    /\ stage[q] = "collecting" => \A s \in Needs[q] : <<q, s>> \in first \/ s \in heard[q]

\* Without faults a task is answered while its request waits for it.
FaultFreeInv ==
  faults = 0 =>
    /\ \A t \in tasks : t[1] \in Active
    /\ program # "run_intent" => tasks = {} /\ results = {}
    /\ \A q \in Active : Remote(q) = tasks \union results

IInv ==
  /\ TypeOK /\ InboxInv /\ PlacedInv /\ AnsweredInv /\ ActiveInv /\ HeardInv /\ FaultFreeInv
  /\ OneAnswerEach /\ EarlyMeansAll /\ CompleteWithoutFaults /\ AloneHearsAll
=============================================================================
