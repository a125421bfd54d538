------------------------------ MODULE SwarmMind ------------------------------
(***************************************************************************)
(* Autonomous mode (src/examples/run_autonomous.py): sensor agents feed    *)
(* the pipeline trigger over the message bus and the event bus, each cycle *)
(* of the pipeline ends in an action and a recorded decision, and the goal *)
(* manager moves the operational mode on the latest decisions.             *)
(*                                                                         *)
(* What a cycle concludes is the answer of a pipeline of models: any       *)
(* verdict.  So the contents of the buffer do not matter, only whether it  *)
(* has enough entries; entries are counted up to Ready, as is_ready does   *)
(* not tell more apart.  Times (the cooldown the mode implies, the 60 s of *)
(* the goal manager) are left out.  The outcome ActionAgent.execute        *)
(* reports names no decision (decision_id "") and comes before the         *)
(* decision is recorded: it changes nothing, no decision is ever           *)
(* evaluated, and learn_from_history always ends for want of data.         *)
(***************************************************************************)
EXTENDS Naturals, Sequences, FiniteSets

CONSTANTS
  Sensor,         \* the sensor agents
  Verdicts,       \* what a cycle may conclude
  Ready,          \* entries is_ready asks for (3)
  MaxPending,     \* bound on undelivered messages and on event threads
  HistoryCap,     \* entries record_decision keeps (1000)
  Recent,         \* decisions the goal manager looks at (20)
  CriticalMin, HighMin, AnomalyMin,    \* counts that escalate (2, 5, 8)
  HighClear, AnomalyClear              \* counts that de-escalate are below (2, 2)

\* Urgencies below HIGH (MEDIUM, LOW, UNKNOWN) count alike.
Verdict == [anomalous : BOOLEAN, urgency : {"LOW", "HIGH", "CRITICAL"}]

ASSUME VerdictAssumption == Verdicts \subseteq Verdict
ASSUME BufferAssumption == Ready \in Nat \ {0} /\ MaxPending \in Nat \ {0}
ASSUME HistoryAssumption == HistoryCap \in Nat /\ Recent \in Nat /\ Recent <= HistoryCap
ASSUME ThresholdAssumption ==
  /\ CriticalMin \in Nat /\ HighMin \in Nat /\ AnomalyMin \in Nat
  /\ HighClear \in Nat /\ AnomalyClear \in Nat
  /\ CriticalMin > 1 /\ HighMin > HighClear /\ AnomalyMin > AnomalyClear

VARIABLES
  subscribed,     \* the buses the trigger has subscribed to
  inbox,          \* messages queued for "swarm-mind"
  events,         \* event-bus threads that have not run the callback yet
  buffered,       \* entries of the buffer, up to Ready
  stage,          \* where the pipeline thread is
  verdict,        \* what the running cycle concluded
  history,        \* decision_history
  mode,           \* current_mode
  next,           \* the mode the goal manager has decided on, or "none"
  heading,        \* history: direction of the last change decided on
  since           \* history: decisions recorded after that, up to 2

vars == <<subscribed, inbox, events, buffered, stage, verdict, history, mode,
          next, heading, since>>
busVars == <<subscribed, inbox, events>>
goalVars == <<mode, next, heading>>

Mode == {"monitoring", "alert", "surveillance", "emergency"}

TypeOK ==
  /\ subscribed \subseteq {"message_bus", "event_bus"}
  /\ inbox \in 0..MaxPending
  /\ events \in 0..MaxPending
  /\ buffered \in 0..Ready
  /\ stage \in {"waiting", "running", "acted"}
  /\ verdict \in Verdict
  /\ history \in Seq(Verdicts) /\ Len(history) <= HistoryCap
  /\ mode \in Mode
  /\ next \in Mode \union {"none"}
  /\ heading \in {"none", "up", "down"}
  /\ since \in 0..2

Quiet == [anomalous |-> FALSE, urgency |-> "LOW"]

Init ==
  /\ subscribed = {}
  /\ inbox = 0
  /\ events = 0
  /\ buffered = 0
  /\ stage = "waiting"
  /\ verdict = Quiet
  /\ history = <<>>
  /\ mode = "monitoring"
  /\ next = "none"
  /\ heading = "none"
  /\ since = 0

-----------------------------------------------------------------------------
(* Readings *)

\* start subscribes one bus after the other; the sensors run already.
Subscribe(b) ==
  /\ b \notin subscribed
  /\ b = "event_bus" => "message_bus" \in subscribed
  /\ subscribed' = subscribed \union {b}
  /\ UNCHANGED <<inbox, events, buffered, stage, verdict, history, goalVars, since>>

\* A reading goes out on both buses; without a subscriber it is gone.
Publish(s) ==
  /\ inbox < MaxPending /\ events < MaxPending
  /\ inbox' = IF "message_bus" \in subscribed THEN inbox + 1 ELSE inbox
  /\ events' = IF "event_bus" \in subscribed THEN events + 1 ELSE events
  /\ UNCHANGED <<subscribed, buffered, stage, verdict, history, goalVars, since>>

AddToBuffer == buffered' = IF buffered < Ready THEN buffered + 1 ELSE buffered

\* _collect_loop, which starts after the subscriptions
Collect ==
  /\ "event_bus" \in subscribed /\ inbox > 0
  /\ inbox' = inbox - 1
  /\ AddToBuffer
  /\ UNCHANGED <<subscribed, events, stage, verdict, history, goalVars, since>>

\* _on_sensor_event, in a thread of the event bus
Deliver ==
  /\ events > 0
  /\ events' = events - 1
  /\ AddToBuffer
  /\ UNCHANGED <<subscribed, inbox, stage, verdict, history, goalVars, since>>

-----------------------------------------------------------------------------
(* The pipeline thread *)

Trigger ==
  /\ stage = "waiting" /\ buffered >= Ready
  /\ stage' = "running"
  /\ UNCHANGED <<busVars, buffered, verdict, history, goalVars, since>>

\* An exception up to the action, or a window without a named sensor: no decision,
\* the next cycle in 5 s.
CycleFails ==
  /\ stage = "running"
  /\ stage' = "waiting"
  /\ UNCHANGED <<busVars, buffered, verdict, history, goalVars, since>>

\* The action is executed (log, work order, alert), and its outcome recorded
\* for a decision that does not exist yet.
Act(v) ==
  /\ stage = "running"
  /\ verdict' = v
  /\ stage' = "acted"
  /\ UNCHANGED <<busVars, buffered, history, goalVars, since>>

LastOf(s, k) == IF Len(s) <= k THEN s ELSE SubSeq(s, Len(s) - k + 1, Len(s))

\* Mutation: the oldest entries are kept; nothing is cut.
KeepOldest(s) == IF Len(s) <= HistoryCap THEN s ELSE SubSeq(s, 1, HistoryCap)
KeepAll(s) == s

Keep(s) == LastOf(s, HistoryCap)

\* record_decision
Record ==
  /\ stage = "acted"
  /\ history' = Keep(Append(history, verdict))
  /\ verdict' = Quiet
  /\ stage' = "waiting"
  /\ since' = IF since < 2 THEN since + 1 ELSE since
  /\ UNCHANGED <<busVars, buffered, goalVars>>

-----------------------------------------------------------------------------
(* The goal manager *)

Latest == LastOf(history, Recent)
Count(P) == Cardinality({i \in DOMAIN Latest : Latest[i] \in P})

Anomalies == Count({v \in Verdict : v.anomalous})
Criticals == Count({v \in Verdict : v.urgency = "CRITICAL"})
Highs == Count({v \in Verdict : v.urgency = "HIGH"})

Priority == [monitoring |-> 1, alert |-> 2, surveillance |-> 3, emergency |-> 4]
Below == [monitoring |-> "monitoring", alert |-> "monitoring",
          surveillance |-> "alert", emergency |-> "surveillance"]

Trouble ==
  CASE Criticals >= CriticalMin -> "emergency"
    [] Criticals < CriticalMin /\ Highs >= HighMin -> "surveillance"
    [] Criticals < CriticalMin /\ Highs < HighMin /\ Anomalies >= AnomalyMin -> "alert"
    [] OTHER -> "none"

\* Mutation: anything short of escalating is clear enough.
AllClearEarly == Anomalies < AnomalyMin /\ Criticals = 0 /\ Highs < HighMin

AllClear == Anomalies < AnomalyClear /\ Criticals = 0 /\ Highs < HighClear

Escalate ==
  /\ Trouble # "none" /\ Priority[mode] < Priority[Trouble]
  /\ next' = Trouble
  /\ heading' = "up"

DeEscalate ==
  /\ Trouble = "none" /\ AllClear /\ Below[mode] # mode
  /\ next' = Below[mode]
  /\ heading' = "down"

\* _evaluate_and_adjust, which reads the history once and without its lock
Evaluate ==
  /\ next = "none" /\ history # <<>>
  /\ Escalate \/ DeEscalate
  /\ since' = 0
  /\ UNCHANGED <<busVars, buffered, stage, verdict, history, mode>>

\* set_mode; a cycle may have been recorded meanwhile.
SetMode ==
  /\ next # "none"
  /\ mode' = next
  /\ next' = "none"
  /\ UNCHANGED <<busVars, buffered, stage, verdict, history, heading, since>>

-----------------------------------------------------------------------------
Readings ==
  \/ \E b \in {"message_bus", "event_bus"} : Subscribe(b)
  \/ \E s \in Sensor : Publish(s)
  \/ Collect \/ Deliver

Cycle == Trigger \/ CycleFails \/ (\E v \in Verdicts : Act(v)) \/ Record

Adjust == Evaluate \/ SetMode

Next == Readings \/ Cycle \/ Adjust

Spec == Init /\ [][Next]_vars

\* Sensors and threads go on, and a pipeline does not fail for ever.
Fairness ==
  /\ \A b \in {"message_bus", "event_bus"} : WF_vars(Subscribe(b))
  /\ SF_vars(\E s \in Sensor : Publish(s))
  /\ WF_vars(Collect) /\ WF_vars(Deliver)
  /\ WF_vars(Trigger) /\ SF_vars(\E v \in Verdicts : Act(v)) /\ WF_vars(Record)
  /\ WF_vars(Evaluate) /\ WF_vars(SetMode)

FairSpec == Spec /\ Fairness

-----------------------------------------------------------------------------
(* The inductive invariant behind the properties *)

\* What the last change was decided on still shows in the decisions since then.
MoodInv ==
  since < 2 =>
    /\ heading = "up" => \/ Criticals + since >= CriticalMin
                        \/ Highs + since >= HighMin
                        \/ Anomalies + since >= AnomalyMin
    /\ heading = "down" => /\ Criticals <= since
                          /\ Highs < HighClear + since
                          /\ Anomalies < AnomalyClear + since

MindIInv == TypeOK /\ (stage = "acted" => verdict \in Verdicts) /\ MoodInv

-----------------------------------------------------------------------------
(* Properties *)

\* The mode does not swing: whatever the cycles conclude, and however late a mode
\* is set, the goal manager turns from raising it to lowering it, or back, only
\* on two decisions more than it last looked at (_evaluate_and_adjust).
NoFlapping ==
  [][heading # "none" /\ heading' # heading => since >= 2]_vars

\* When every cycle from some point on concludes CRITICAL, the swarm ends up in
\* emergency mode and stays there ("Escalate on sustained issues").
Escalates ==
  <>[][Record => verdict.urgency = "CRITICAL"]_vars => <>[](mode = "emergency")

\* When every cycle from some point on finds nothing, the swarm backs off to
\* monitoring and stays there, from whatever mode and history.
BacksOff ==
  <>[][Record => verdict = Quiet]_vars => <>[](mode = "monitoring")
=============================================================================
