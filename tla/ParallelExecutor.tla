--------------------------- MODULE ParallelExecutor ---------------------------
(***************************************************************************)
(* One run of the ML pipeline over the swarm: the assignment of its five   *)
(* tasks to nodes (src/ml/task_decomposer.py), their execution in a pool   *)
(* of threads and at the inference servers of peers                        *)
(* (src/ml/parallel_executor.py, src/ml/inference_server.py) and the tally *)
(* of the results (src/ml/result_assembler.py).                            *)
(*                                                                         *)
(* What a task computes is left out, only whether it succeeds: a worker    *)
(* (src/ml/task_workers.py) catches what it raises and answers that it     *)
(* failed.  The                                                            *)
(* deadline of as_completed and the timeout of a peer's socket are both    *)
(* 15 s, so either may come first.                                         *)
(***************************************************************************)
EXTENDS Naturals, Sequences, FiniteSets

CONSTANTS
  Peer,         \* peers that may be known
  Local,        \* this node
  PeerCaps      \* the normalised capabilities a peer may have

\* benched: there is benchmark data; hw: the score of the hardware alone.
Caps == [benched : BOOLEAN, composite : Nat, llm : BOOLEAN, tps : Nat, ollama : BOOLEAN,
         ram : Nat, cpu : Nat, hw : Nat]

Pooled == {"clean", "anomaly", "trend", "history"}
MlTask == Pooled \union {"action"}

VARIABLES
  plan,         \* the node each task is assigned to, kept until the tasks are submitted
  chosen,       \* what decompose chose from: the ranked nodes and their capabilities
  future,       \* where each pooled task is
  result,       \* results
  mlStage,        \* where execute is
  unswept,      \* futures the loop after the TimeoutError has still to look at
  overdue       \* history: tasks unfinished when the deadline passed

executorVars == <<plan, chosen, future, result, mlStage, unswept, overdue>>

\* What a worker answers, which catches whatever goes wrong in it.
Done == {"succeeded", "failed"}

\* run_action: without a model that answers, a failure with the words of the fallback
ActionOutcome == Done
NoChoice == [ranked |-> <<>>, caps |-> <<>>]

ResultTypeOK ==
  /\ future \in [Pooled -> {"none", "running", "asked", "answered"} \union Done]
  /\ result \in [MlTask -> {"none", "timeout"} \union Done]
  /\ mlStage \in {"planning", "planned", "collecting", "sweeping", "joining", "acting", "done"}
  /\ unswept \subseteq Pooled /\ overdue \subseteq Pooled

ExecutorTypeOK ==
  /\ plan = <<>> \/ plan \in [MlTask -> Peer \union {Local}]
  /\ ResultTypeOK

ExecutorInit ==
  /\ plan = <<>>
  /\ chosen = NoChoice
  /\ future = [t \in Pooled |-> "none"]
  /\ result = [t \in MlTask |-> "none"]
  /\ mlStage = "planning" /\ unswept = {} /\ overdue = {}

-----------------------------------------------------------------------------
(* decompose *)

\* The entry of this node, which is never looked up in its own capabilities.
LocalCaps == [benched |-> FALSE, composite |-> 0, llm |-> FALSE, tps |-> 0,
              ollama |-> FALSE, ram |-> 0, cpu |-> 0, hw |-> 0]

Score(c) == IF c.composite > 0 THEN c.composite ELSE c.hw

\* sorted by score is stable: nodes of one score in the order of the dictionary, any.
Rankings(caps) ==
  {s \in [1 .. Cardinality(DOMAIN caps) -> DOMAIN caps] :
     /\ \A i, j \in DOMAIN s : i < j => s[i] # s[j] /\ Score(caps[s[i]]) >= Score(caps[s[j]])}

MinComposite == [action |-> 40, trend |-> 20, anomaly |-> 15, clean |-> 5, history |-> 10]

CanRun(task, c) ==
  IF task = "action" THEN c.llm /\ c.composite >= MinComposite[task]
  ELSE c.benched => c.composite >= MinComposite[task]

\* _eligible_for, the first of the ranking when nobody is
EligibleFor(task, ranked, caps) ==
  LET fit == SelectSeq(ranked, LAMBDA n : CanRun(task, caps[n])) IN
  IF fit = <<>> THEN <<Head(ranked)>> ELSE fit

\* max: the first of the largest
FirstMax(candidates, metric) ==
  candidates[CHOOSE i \in DOMAIN candidates : \A j \in DOMAIN candidates :
     /\ metric[candidates[j]] <= metric[candidates[i]]
     /\ j < i => metric[candidates[j]] < metric[candidates[i]]]

\* The i-th of the two light tasks goes to a node without a heavy one, if there is any.
LightNode(i, task, ranked, caps, busy) ==
  LET eligible == EligibleFor(task, ranked, caps)
      idle == SelectSeq(eligible, LAMBDA n : n \notin busy)
      pool == IF idle # <<>> THEN idle ELSE eligible IN
  pool[(i % Len(pool)) + 1]

Assignment(ranked, caps) ==
  LET tps == [n \in DOMAIN caps |->
                IF caps[n].tps # 0 THEN caps[n].tps ELSE IF caps[n].ollama THEN 10 ELSE 0]
      ram == [n \in DOMAIN caps |-> caps[n].ram]
      cpu == [n \in DOMAIN caps |-> caps[n].cpu]
      action == FirstMax(EligibleFor("action", ranked, caps), tps)
      trend == FirstMax(EligibleFor("trend", ranked, caps), ram)
      anomaly == FirstMax(EligibleFor("anomaly", ranked, caps), cpu)
      busy == {action, trend, anomaly}
  IN IF Len(ranked) = 1 THEN [t \in MlTask |-> ranked[1]]
     ELSE [t \in MlTask |-> CASE t = "action" -> action
                              [] t = "trend" -> trend
                              [] t = "anomaly" -> anomaly
                              [] t = "clean" -> LightNode(0, t, ranked, caps, busy)
                              [] t = "history" -> LightNode(1, t, ranked, caps, busy)]

Decompose ==
  /\ mlStage = "planning" /\ mlStage' = "planned"
  /\ \E known \in SUBSET Peer : \E given \in [known -> PeerCaps] :
       LET caps == [n \in known \union {Local} |-> IF n = Local THEN LocalCaps ELSE given[n]]
       IN \E ranked \in Rankings(caps) :
            /\ chosen' = [ranked |-> ranked, caps |-> caps]
            /\ plan' = Assignment(ranked, caps)
  /\ UNCHANGED <<future, result, unswept, overdue>>

-----------------------------------------------------------------------------
(* The tasks *)

\* _run_local_task; an exception is what fut.result() raises.
RunLocally(t) ==
  /\ future[t] = "running"
  /\ \E outcome \in Done : future' = [future EXCEPT ![t] = outcome]
  /\ UNCHANGED <<plan, chosen, result, mlStage, unswept, overdue>>

\* _handle_connection of the peer runs the task; an exception is answered as a failure.
ServeTask(t) ==
  /\ future[t] = "asked"
  /\ future' = [future EXCEPT ![t] = "answered"]
  /\ UNCHANGED <<plan, chosen, result, mlStage, unswept, overdue>>

ReadAnswer(t) ==
  /\ future[t] = "answered"
  /\ \E outcome \in Done : future' = [future EXCEPT ![t] = outcome]
  /\ UNCHANGED <<plan, chosen, result, mlStage, unswept, overdue>>

\* No connection, a broken one, or the timeout of the socket
CallBreaks(t) ==
  /\ future[t] \in {"asked", "answered"}
  /\ future' = [future EXCEPT ![t] = "failed"]
  /\ UNCHANGED <<plan, chosen, result, mlStage, unswept, overdue>>

-----------------------------------------------------------------------------
(* execute *)

\* All pooled tasks at once.  Where the action runs does not matter to what it answers.
Submit ==
  /\ mlStage = "planned" /\ mlStage' = "collecting"
  /\ future' = [t \in Pooled |-> IF plan[t] = Local THEN "running" ELSE "asked"]
  /\ plan' = <<>> /\ chosen' = NoChoice
  /\ UNCHANGED <<result, unswept, overdue>>

\* as_completed yields a future; after the last the pool has nothing to wait for.
CollectResults(t) ==
  /\ mlStage = "collecting" /\ future[t] \in Done /\ result[t] = "none"
  /\ result' = [result EXCEPT ![t] = future[t]]
  /\ mlStage' = IF \A u \in Pooled : result'[u] # "none" THEN "joining" ELSE mlStage
  /\ UNCHANGED <<plan, chosen, future, unswept, overdue>>

\* Mutation: what is finished and was not yielded is left where it is.
DeadlineDropsFinished ==
  /\ mlStage = "collecting" /\ mlStage' = "joining"
  /\ unswept' = {}
  /\ overdue' = {t \in Pooled : future[t] \notin Done}
  /\ UNCHANGED <<plan, chosen, future, result>>

\* The TimeoutError of as_completed, which may have finished futures to yield yet
Deadline ==
  /\ mlStage = "collecting" /\ mlStage' = "sweeping"
  /\ unswept' = Pooled
  /\ overdue' = {t \in Pooled : future[t] \notin Done}
  /\ UNCHANGED <<plan, chosen, future, result>>

Sweep(t) ==
  /\ mlStage = "sweeping" /\ t \in unswept
  /\ unswept' = unswept \ {t}
  /\ result' = IF future[t] \in Done THEN [result EXCEPT ![t] = future[t]] ELSE result
  /\ mlStage' = IF unswept' = {} THEN "joining" ELSE mlStage
  /\ UNCHANGED <<plan, chosen, future, overdue>>

\* The exit of the pool waits for every thread; what has no result by then gets none.
Join ==
  /\ mlStage = "joining" /\ \A t \in Pooled : future[t] \in Done
  /\ result' = [t \in MlTask |-> IF t \in Pooled /\ result[t] = "none" THEN "timeout"
                               ELSE result[t]]
  /\ mlStage' = "acting"
  /\ UNCHANGED <<plan, chosen, future, unswept, overdue>>

\* _run_action_task, here or at a peer; then the assembler reads the results.
RunAction ==
  /\ mlStage = "acting" /\ mlStage' = "done"
  /\ \E outcome \in ActionOutcome : result' = [result EXCEPT !["action"] = outcome]
  /\ UNCHANGED <<plan, chosen, future, unswept, overdue>>

FailedTasks == {t \in MlTask : result[t] \in {"failed", "timeout"}}
NodesContributed == Cardinality({t \in MlTask : result[t] = "succeeded"})

ExecutorNext ==
  \/ Decompose \/ Submit \/ Deadline \/ Join \/ RunAction
  \/ \E t \in Pooled : RunLocally(t) \/ ServeTask(t) \/ ReadAnswer(t) \/ CallBreaks(t)
                       \/ CollectResults(t) \/ Sweep(t)

ExecutorSpec == ExecutorInit /\ [][ExecutorNext]_executorVars

-----------------------------------------------------------------------------
(* Properties *)

\* When execute returns, every task has one result and a pooled one that of its thread: a
\* task is reported as timed out only if it was unfinished at the deadline, though all have
\* finished by now, and the tally of the assembler counts each task once.
ReportedAsItWent ==
  /\ \A t \in Pooled : result[t] \in Done => result[t] = future[t]
  /\ \A t \in Pooled : result[t] = "timeout" => t \in overdue
  /\ mlStage = "done" =>
       /\ \A t \in MlTask : result[t] # "none"
       /\ NodesContributed + Cardinality(FailedTasks) = Cardinality(MlTask)

\* What has no result yet: a task whose thread had finished by the deadline has one, or is
\* still to be swept.
ResultsInv ==
  /\ mlStage \in {"planning", "planned"} => \A t \in MlTask : result[t] = "none"
  /\ mlStage \notin {"acting", "done"} => \A t \in MlTask : result[t] # "timeout"
  /\ mlStage = "sweeping" =>
       \A t \in Pooled : t \in overdue \/ (future[t] \in Done /\ (t \in unswept \/ result[t] # "none"))
  /\ mlStage = "joining" => \A t \in Pooled : t \in overdue \/ result[t] # "none"
  /\ mlStage \in {"acting", "done"} => \A t \in Pooled : result[t] # "none"
  /\ mlStage = "done" => result["action"] # "none"

ExecutorIInv == ResultTypeOK /\ ResultsInv /\ ReportedAsItWent
=============================================================================
