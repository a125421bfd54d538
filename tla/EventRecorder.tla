---------------------------- MODULE EventRecorder ----------------------------
(***************************************************************************)
(* The event bus (src/bus/event_bus.py) and the black box that records     *)
(* every event (src/agents/telemetry_agent.py): publishers, one delivery   *)
(* thread per event and subscription, the write queue and the thread that  *)
(* drains it into the database.                                            *)
(*                                                                         *)
(* Of the subscribers only the recorder is modelled, the one that must see *)
(* everything.  start and stop guard nothing of what is modelled: either   *)
(* may come at any time, any number of times.  Publishing takes a snapshot *)
(* of the subscriptions under the lock; the threads it starts may be slow. *)
(***************************************************************************)
EXTENDS Naturals, Sequences, FiniteSets

CONSTANTS
  Event,        \* events ever published
  Critical,     \* those with priority CRITICAL
  MaxStarts,    \* bound on calls of start
  MaxStops,     \* bound on calls of stop
  MaxSlow,      \* bound on joins that time out
  MaxWriteErrors

Sentinel == <<>>   \* the None that stop puts into the queue

VARIABLES
  subs,         \* subscriptions of the recorder to "*", by number
  starts,       \* calls of start so far
  stops,        \* calls of stop so far
  published,    \* events that have been logged
  returned,     \* events whose publish has returned
  delivering,   \* delivery threads: event and subscription
  queue,        \* _write_queue
  writer,       \* the writer thread
  table,        \* rows of telemetry_events
  failed,       \* records that could not be written
  slow,         \* joins that timed out so far
  heard,        \* history: heard[e], subscriptions when e was published
  settled       \* history: critical events returned, without a timeout, before any stop

recorderVars == <<subs, starts, stops, published, returned, delivering, queue, writer,
                  table, failed, slow, heard, settled>>

Delivery == Event \X (1 .. MaxStarts)

RecorderTypeOK ==
  /\ subs \subseteq 1 .. MaxStarts /\ starts \in 0 .. MaxStarts
  /\ stops \in 0 .. MaxStops
  /\ returned \subseteq published /\ published \subseteq Event
  /\ delivering \subseteq Delivery
  /\ queue \in Seq(Delivery \union {Sentinel})
  /\ writer \in {"draining", "ended"}
  /\ table \subseteq Delivery /\ failed \subseteq Delivery
  /\ slow \in 0 .. MaxSlow
  /\ heard \in [Event -> SUBSET (1 .. MaxStarts)]
  /\ settled \subseteq Critical

\* The constructor starts the writer.
RecorderInit ==
  /\ subs = {} /\ starts = 0 /\ stops = 0
  /\ published = {} /\ returned = {} /\ delivering = {}
  /\ queue = <<>> /\ writer = "draining"
  /\ table = {} /\ failed = {} /\ slow = 0
  /\ heard = [e \in Event |-> {}]
  /\ settled = {}

Stopped == stops > 0

-----------------------------------------------------------------------------
\* Every start subscribes once more; the writer is not started again.
Start ==
  /\ starts < MaxStarts
  /\ starts' = starts + 1
  /\ subs' = subs \union {starts + 1}
  /\ UNCHANGED <<stops, published, returned, delivering, queue, writer, table, failed, slow,
                 heard, settled>>

\* stop does not unsubscribe.
Stop ==
  /\ stops < MaxStops
  /\ stops' = stops + 1
  /\ queue' = Append(queue, Sentinel)
  /\ UNCHANGED <<subs, starts, published, returned, delivering, writer, table, failed,
                 slow, heard, settled>>

\* unsubscribe drops all entries of an agent.
Unsubscribe ==
  /\ subs # {}
  /\ subs' = {}
  /\ UNCHANGED <<starts, stops, published, returned, delivering, queue, writer, table,
                 failed, slow, heard, settled>>

\* publish: the log, the snapshot and the threads
Publish(e) ==
  /\ e \notin published
  /\ published' = published \union {e}
  /\ delivering' = delivering \union {<<e, s>> : s \in subs}
  /\ heard' = [heard EXCEPT ![e] = subs]
  /\ UNCHANGED <<subs, starts, stops, returned, queue, writer, table, failed, slow, settled>>

\* Mutation: a critical event is not waited for either.
ReturnAtOnce(e) ==
  /\ e \in published \ returned
  /\ returned' = returned \union {e}
  /\ settled' = IF e \in Critical /\ ~Stopped THEN settled \union {e} ELSE settled
  /\ UNCHANGED <<subs, starts, stops, published, delivering, queue, writer, table,
                 failed, slow, heard>>

\* The caller of publish goes on: at once, or for a critical event when its threads
\* have been joined, each for _CRITICAL_TIMEOUT seconds at most.
Return(e) ==
  LET pending == {d \in delivering : d[1] = e} IN
  /\ e \in published \ returned
  /\ returned' = returned \union {e}
  /\ IF e \in Critical /\ pending # {}
     THEN slow < MaxSlow /\ slow' = slow + 1 /\ UNCHANGED settled
     ELSE /\ settled' = IF e \in Critical /\ ~Stopped THEN settled \union {e} ELSE settled
          /\ UNCHANGED slow
  /\ UNCHANGED <<subs, starts, stops, published, delivering, queue, writer, table,
                 failed, heard>>

\* _safe_deliver, _on_any_event
Deliver(d) ==
  /\ delivering' = delivering \ {d}
  /\ queue' = Append(queue, d)
  /\ UNCHANGED <<subs, starts, stops, published, returned, writer, table, failed, slow,
                 heard, settled>>

\* One turn of _writer_loop; a record whose INSERT fails is dropped.
Write ==
  /\ writer = "draining" /\ queue # <<>>
  /\ queue' = Tail(queue)
  /\ \/ /\ Head(queue) = Sentinel
        /\ writer' = "ended"
        /\ UNCHANGED <<table, failed>>
     \/ /\ Head(queue) # Sentinel
        /\ \/ table' = table \union {Head(queue)} /\ UNCHANGED failed
           \/ /\ Cardinality(failed) < MaxWriteErrors
              /\ failed' = failed \union {Head(queue)} /\ UNCHANGED table
        /\ UNCHANGED writer
  /\ UNCHANGED <<subs, starts, stops, published, returned, delivering, slow, heard, settled>>

RecorderNext ==
  \/ Start \/ Stop \/ Unsubscribe \/ Write
  \/ \E e \in Event : Publish(e) \/ Return(e)
  \/ \E d \in delivering : Deliver(d)

RecorderSpec == RecorderInit /\ [][RecorderNext]_recorderVars

-----------------------------------------------------------------------------
(* Properties *)

\* A critical event whose publisher was not told to wait in vain is safe from a stop
\* that follows: when the writer ends, it has been through its hands.
CriticalSurvivesStop ==
  writer = "ended" => \A e \in settled : \A s \in heard[e] : <<e, s>> \in table \union failed

\* A record is written, or dropped after an error; queued; or queued before any sentinel.
Handled(d) == d \in table \union failed
Queued(d) == \E i \in DOMAIN queue : queue[i] = d
InTime(d) == \E i \in DOMAIN queue : queue[i] = d /\ \A j \in 1 .. i - 1 : queue[j] # Sentinel

\* No record is lost on its way, and those of a settled event are before any sentinel.
RecordsInv ==
  /\ settled \subseteq returned
  /\ ~Stopped => writer = "draining" /\ ~Queued(Sentinel)
  /\ \A e \in published : \A s \in heard[e] :
       <<e, s>> \in delivering \/ Queued(<<e, s>>) \/ Handled(<<e, s>>)
  /\ writer = "draining" =>
       \A e \in settled : \A s \in heard[e] : Handled(<<e, s>>) \/ InTime(<<e, s>>)

RecorderIInv == RecorderTypeOK /\ RecordsInv /\ CriticalSurvivesStop
=============================================================================
