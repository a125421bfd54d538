---------------------------- MODULE GossipSync ----------------------------
(***************************************************************************)
(* Replication of the sensor_readings table between DBAgents               *)
(* (src/db/db_agent.py, port 50011) on top of the storage adapters.  Each  *)
(* node runs one push thread (_sync_loop / _push_to_peer), one handler     *)
(* thread per incoming connection (_handle_incoming), and any thread of    *)
(* the process may save a new reading in between.                          *)
(*                                                                         *)
(* A reading is its record_id; readings are numbered in timestamp order,   *)
(* which is the only thing the push loop asks of a timestamp.  The payload *)
(* guard of _push_to_peer (4 MB against 20 small rows) never trips and is  *)
(* left out.                                                               *)
(***************************************************************************)
EXTENDS Naturals, FiniteSets

CONSTANTS
  Node,           \* the nodes, each with its own database file
  NoNode,         \* stands for "none" where a node is expected
  Producer,       \* the nodes that run sensor agents
  MaxReading,     \* bound on the readings the swarm ever produces
  Limit,          \* rows per push (limit=20 in _push_to_peer)
  MaxFaults       \* bound on crashes, lost payloads and failed writes

ASSUME NodeAssumption == NoNode \notin Node
ASSUME ProducerAssumption == Producer \subseteq Node
ASSUME LimitAssumption == Limit \in Nat \ {0}
ASSUME BoundAssumption == MaxReading \in Nat /\ MaxFaults \in Nat

Reading == 1..MaxReading

VARIABLES
  owner,          \* owner[r]: the node that produced r, NoNode before that
  table,          \* table[n][r]: the row of r at n and its synced flag
  todo,           \* todo[n]: peers the current round of n has not reached yet
  stage,          \* stage[n]: where the push thread of n is
  target,         \* target[n]: the peer it is pushing to
  batch,          \* batch[n]: the rows fetched, then the ones left to mark
  wire,           \* payloads handed to TCP, or partly saved by their handler
  handed,         \* history: handed[r], the peers r was ever sent to
  fallen,         \* history: readings a handler stored by the fallback INSERT
  faults          \* faults so far, bounded by MaxFaults

vars == <<owner, table, todo, stage, target, batch, wire, handed, fallen,
          faults>>
pushVars == <<todo, stage, target, batch>>

Row == {"absent", "unsynced", "synced"}
Stage == {"idle", "connecting", "marking"}
Payload == [to : Node, recs : SUBSET Reading]

TypeOK ==
  /\ owner \in [Reading -> Node \union {NoNode}]
  /\ table \in [Node -> [Reading -> Row]]
  /\ todo \in [Node -> SUBSET Node]
  /\ stage \in [Node -> Stage]
  /\ target \in [Node -> Node \union {NoNode}]
  /\ batch \in [Node -> SUBSET Reading]
  /\ wire \subseteq Payload
  /\ handed \in [Reading -> SUBSET Node]
  /\ fallen \subseteq Reading
  /\ faults \in Nat

Init ==
  /\ owner = [r \in Reading |-> NoNode]
  /\ table = [n \in Node |-> [r \in Reading |-> "absent"]]
  /\ todo = [n \in Node |-> {}]
  /\ stage = [n \in Node |-> "idle"]
  /\ target = [n \in Node |-> NoNode]
  /\ batch = [n \in Node |-> {}]
  /\ wire = {}
  /\ handed = [r \in Reading |-> {}]
  /\ fallen = {}
  /\ faults = 0

Fault == faults < MaxFaults /\ faults' = faults + 1

-----------------------------------------------------------------------------
(* Rows *)

Unsynced(n) == {r \in Reading : table[n][r] = "unsynced"}

\* ORDER BY timestamp DESC LIMIT k
Newest(S, k) == {r \in S : Cardinality({q \in S : q > r}) < k}

\* Mutation: _normalize_record keeps the sender's flag; the column has no default.
ReceivedFlagKept == "unsynced"

\* The flag a received row is stored with, and the one it has if the INSERT
\* failed (a value SQLite rejects, a locked database) and the adapter fell back
\* to the four universal columns: the default of the column, 0.
ReceivedFlag == "synced"
FallbackFlag == "unsynced"

-----------------------------------------------------------------------------
(* Sensor side *)

SaveReading(n) ==
  /\ n \in Producer
  /\ \E r \in Reading :
       /\ owner[r] = NoNode
       /\ \A q \in Reading : q < r => owner[q] # NoNode
       /\ owner' = [owner EXCEPT ![r] = n]
       /\ table' = [table EXCEPT ![n][r] = "unsynced"]
  /\ UNCHANGED <<todo, stage, target, batch, wire, handed, fallen, faults>>

-----------------------------------------------------------------------------
(* Push thread *)

\* get_peers() answers whatever discovery knows; the own address is skipped.
StartRound(n, peers) ==
  /\ stage[n] = "idle" /\ todo[n] = {}
  /\ todo' = [todo EXCEPT ![n] = peers \ {n}]
  /\ UNCHANGED <<owner, table, stage, target, batch, wire, handed, fallen, faults>>

\* The rows are read again for every peer of the round.
FetchUnsynced(n, p) ==
  /\ stage[n] = "idle" /\ p \in todo[n]
  /\ todo' = [todo EXCEPT ![n] = @ \ {p}]
  /\ \/ /\ Unsynced(n) = {}
        /\ UNCHANGED <<stage, target, batch>>
     \/ /\ Unsynced(n) # {}
        /\ stage' = [stage EXCEPT ![n] = "connecting"]
        /\ target' = [target EXCEPT ![n] = p]
        /\ batch' = [batch EXCEPT ![n] = Newest(Unsynced(n), Limit)]
  /\ UNCHANGED <<owner, table, wire, handed, fallen, faults>>

\* connect or sendall raised (or fetch did, and answered nothing): nothing is
\* marked, the next peer is tried.
PushFails(n) ==
  /\ stage[n] = "connecting"
  /\ stage' = [stage EXCEPT ![n] = "idle"]
  /\ batch' = [batch EXCEPT ![n] = {}]
  /\ target' = [target EXCEPT ![n] = NoNode]
  /\ UNCHANGED <<owner, table, todo, wire, handed, fallen, faults>>

\* Mutation: every unsynced row is marked, not only those of the payload.
PushSendsMarksAll(n) ==
  /\ stage[n] = "connecting"
  /\ wire' = wire \union {[to |-> target[n], recs |-> batch[n]]}
  /\ handed' = [r \in Reading |->
                  IF r \in batch[n] THEN handed[r] \union {target[n]} ELSE handed[r]]
  /\ stage' = [stage EXCEPT ![n] = "marking"]
  /\ batch' = [batch EXCEPT ![n] = Unsynced(n)]
  /\ UNCHANGED <<owner, table, todo, target, fallen, faults>>

\* sendall returned: the kernel has the payload, nobody acknowledged it.
PushSends(n) ==
  /\ stage[n] = "connecting"
  /\ wire' = wire \union {[to |-> target[n], recs |-> batch[n]]}
  /\ handed' = [r \in Reading |->
                  IF r \in batch[n] THEN handed[r] \union {target[n]} ELSE handed[r]]
  /\ stage' = [stage EXCEPT ![n] = "marking"]
  /\ UNCHANGED <<owner, table, todo, target, batch, fallen, faults>>

\* One UPDATE per row, each its own transaction, newest row first.  The
\* adapter swallows the exception of an UPDATE that fails.
MarkRow(n, r, flag) ==
  /\ stage[n] = "marking"
  /\ r \in batch[n] /\ \A q \in batch[n] : q <= r
  /\ table' = [table EXCEPT ![n][r] = flag]
  /\ batch' = [batch EXCEPT ![n] = @ \ {r}]
  /\ UNCHANGED <<owner, todo, stage, target, wire, handed, fallen>>

\* Mutation: a row that was sent is deleted.
MarkSyncedDeletes(n) == UNCHANGED faults /\ \E r \in Reading : MarkRow(n, r, "absent")

MarkSynced(n) == UNCHANGED faults /\ \E r \in Reading : MarkRow(n, r, "synced")
MarkFails(n) == Fault /\ \E r \in Reading : MarkRow(n, r, table[n][r])

EndPush(n) ==
  /\ stage[n] = "marking" /\ batch[n] = {}
  /\ stage' = [stage EXCEPT ![n] = "idle"]
  /\ target' = [target EXCEPT ![n] = NoNode]
  /\ UNCHANGED <<owner, table, todo, batch, wire, handed, fallen, faults>>

-----------------------------------------------------------------------------
(* Handler threads: rows are saved one by one in the order of the payload; *)
(* a failed save is swallowed and the loop goes on.                        *)

HandleRow(m, r, flag) ==
  /\ r \in m.recs /\ \A q \in m.recs : q <= r
  /\ wire' = (wire \ {m}) \union
             (IF m.recs = {r} THEN {} ELSE {[m EXCEPT !.recs = @ \ {r}]})
  /\ table' = [table EXCEPT ![m.to][r] = flag]
  /\ UNCHANGED <<owner, todo, stage, target, batch, handed>>

\* Mutation: the INSERT is not committed.
SaveIncomingUncommitted(m) ==
  UNCHANGED <<fallen, faults>> /\ \E r \in Reading : HandleRow(m, r, table[m.to][r])

\* INSERT OR REPLACE of the normalised row.
SaveIncoming(m) ==
  UNCHANGED <<fallen, faults>> /\ \E r \in Reading : HandleRow(m, r, ReceivedFlag)
SaveFallsBack(m) ==
  Fault /\ \E r \in Reading : /\ HandleRow(m, r, FallbackFlag)
                              /\ fallen' = fallen \union {r}
SaveFails(m) ==
  Fault /\ UNCHANGED fallen /\ \E r \in Reading : HandleRow(m, r, table[m.to][r])

-----------------------------------------------------------------------------
(* Environment *)

\* The receiver times out or cannot parse what arrived.
LosePayload(m) ==
  /\ Fault
  /\ wire' = wire \ {m}
  /\ UNCHANGED <<owner, table, handed, fallen, pushVars>>

\* The process dies and is started again: rows survive, threads do not.
CrashRestart(n) ==
  /\ Fault
  /\ todo' = [todo EXCEPT ![n] = {}]
  /\ stage' = [stage EXCEPT ![n] = "idle"]
  /\ target' = [target EXCEPT ![n] = NoNode]
  /\ batch' = [batch EXCEPT ![n] = {}]
  /\ wire' = {m \in wire : m.to # n}
  /\ UNCHANGED <<owner, table, handed, fallen>>

-----------------------------------------------------------------------------
Push(n) ==
  \/ \E peers \in SUBSET Node : peers \ {n} # {} /\ StartRound(n, peers)
  \/ \E p \in Node : FetchUnsynced(n, p)
  \/ PushFails(n) \/ PushSends(n)
  \/ MarkSynced(n) \/ MarkFails(n) \/ EndPush(n)

Handle(m) == SaveIncoming(m) \/ SaveFallsBack(m) \/ SaveFails(m) \/ LosePayload(m)

Next ==
  \/ \E n \in Node : SaveReading(n) \/ Push(n) \/ CrashRestart(n)
  \/ \E m \in wire : Handle(m)

Spec == Init /\ [][Next]_vars

(***************************************************************************)
(* The push loop never stops and sees every peer infinitely often (the     *)
(* DHT's peer table, which get_peers returns, never shrinks); a peer is    *)
(* reachable infinitely often; a started handler goes on.  Nothing forces  *)
(* a sensor to produce, or a fault to happen.                              *)
(***************************************************************************)
Fairness ==
  /\ \A n \in Node :
       /\ SF_vars(StartRound(n, Node))
       /\ \A p \in Node : WF_vars(FetchUnsynced(n, p))
       /\ SF_vars(PushSends(n))
       /\ WF_vars(PushSends(n) \/ PushFails(n))
       /\ WF_vars(MarkSynced(n))
       /\ WF_vars(EndPush(n))
  /\ WF_vars(\E m \in wire : SaveIncoming(m))

FairSpec == Spec /\ Fairness

-----------------------------------------------------------------------------
(* Properties *)

\* A node has an unsynced row only for a reading it produced, so a received row
\* is not pushed on or bounced back (db_agent.py:339, "already synced - we
\* received it"), unless a handler stored it by the fallback INSERT of the
\* adapter, whose row takes the column's default 0.
OnlyFallbackForwards ==
  \A n \in Node, r \in Reading :
    table[n][r] = "unsynced" => owner[r] = n \/ r \in fallen

\* A producer marks a row synced only after the whole payload with that row
\* was handed to the connection of some peer (the `sent` flag).
SyncedWasHanded ==
  \A n \in Node, r \in Reading :
    owner[r] = n /\ table[n][r] = "synced" => handed[r] # {}

Saved(r) == \E p \in Node : p # owner[r] /\ table[p][r] = "synced"
InFlight(r) == \E m \in wire : r \in m.recs

\* The mark stands for a second copy: a row marked at its producer is saved on
\* some other node or a live handler is about to save it.  README.md:216 has
\* the receiver save the records first and the sender mark them after that.
MarkedOnlyWhenSaved ==
  \A n \in Node, r \in Reading :
    owner[r] = n /\ table[n][r] = "synced" => Saved(r) \/ InFlight(r)

\* The code has no acknowledgement, so this much holds only while nothing fails.
NothingLostWithoutFaults == faults = 0 => MarkedOnlyWhenSaved

\* As long as nothing fails, a reading is sent to one peer only: the first
\* peer of the round that answers takes it, and the mark hides it from the
\* others.
SinglePeerWithoutFaults ==
  faults = 0 => \A r \in Reading : \A p, q \in handed[r] : p = q

\* What is in a payload, or waits to be sent, exists at its producer; and
\* nothing already marked is offered to a peer again.
NoResendAfterMark ==
  [][\A r \in Reading :
       handed'[r] # handed[r] /\ r \notin fallen
         => \E n \in Node : owner[r] = n /\ table[n][r] = "unsynced"]_vars

\* Rows are never dropped, and a late or repeated payload (crash between sendall
\* and UPDATE) is idempotent: a synced row never becomes unsynced, unless the
\* INSERT OR REPLACE of the fallback overwrites it.
RowsOnlyAdvance ==
  [][\A n \in Node, r \in Reading :
       /\ table[n][r] # "absent" => table'[n][r] # "absent"
       /\ table[n][r] = "synced" => table'[n][r] = "synced" \/ r \in fallen']_vars

Holders(r) == {n \in Node : table[n][r] # "absent"}

Replicas == INSTANCE ReadingReplicas WITH holders <- [r \in Reading |-> Holders(r)]

\* Every step produces a new reading on one node, adds one holder of a
\* reading that has one, or leaves the holders alone.
RefinesReplicas == Replicas!Spec

\* Every reading is handed to some peer, whatever faults occur (there are
\* finitely many) and however often a connection fails, and without faults a
\* second copy of it exists in the end (db_agent.py, the rounds of gossip).
EventuallyCopied ==
  \A r \in Reading : (owner[r] # NoNode) ~> (handed[r] # {} /\ (Saved(r) \/ faults > 0))

\* README.md:216, "eventually, every node holds a complete copy".
Convergence == Replicas!Convergence

-----------------------------------------------------------------------------
(* The inductive invariant behind the safety properties (GossipSyncProofs) *)

\* Rows, owners and the history agree.
RowOK(r) ==
  /\ owner[r] = NoNode => handed[r] = {} /\ Holders(r) = {}
  /\ owner[r] # NoNode => owner[r] \in Holders(r)
  /\ \A n \in Node : table[n][r] = "unsynced" => owner[r] = n \/ r \in fallen
  /\ \A n \in Node : owner[r] = n /\ table[n][r] = "synced" => handed[r] # {}
  /\ r \in fallen => faults > 0

RowsInv == \A r \in Reading : RowOK(r)

\* The push thread of n works on rows n has, its own unless they fell back, and
\* pushes to another node.
PushOK(n) ==
  /\ n \notin todo[n]
  /\ stage[n] = "idle" => batch[n] = {}
  /\ stage[n] # "idle" => target[n] \in Node \ {n}
  /\ \A r \in batch[n] :
       /\ table[n][r] # "absent"
       /\ owner[r] = n \/ r \in fallen
       /\ stage[n] = "connecting" => table[n][r] = "unsynced" \/ r \in fallen
       /\ stage[n] = "marking" => handed[r] # {}

PushInv == \A n \in Node : PushOK(n)

\* Payloads hold produced readings on their way to a node they were handed to,
\* which is not the producer unless the reading fell back.
WireInv ==
  \A m \in wire : \A r \in m.recs :
    owner[r] \in Node /\ m.to \in handed[r] /\ (m.to = owner[r] => r \in fallen)

\* Without faults, a handed reading is marked or about to be, went to one
\* peer, and is saved there or on its way.
Marked(r) ==
  LET n == owner[r] IN table[n][r] = "synced" \/ (stage[n] = "marking" /\ r \in batch[n])

FaultFreeOK(r) ==
  faults = 0 /\ handed[r] # {} =>
    /\ Marked(r)
    /\ \A p, q \in handed[r] : p = q
    /\ Saved(r) \/ InFlight(r)

FaultFreeInv == \A r \in Reading : FaultFreeOK(r)

IInv == TypeOK /\ RowsInv /\ PushInv /\ WireInv /\ FaultFreeInv
=============================================================================
