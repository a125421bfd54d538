------------------------------ MODULE StoreSync ------------------------------
(***************************************************************************)
(* The store-level synchronisation of sensor readings (src/db/sync.py) on  *)
(* the write operations of the store (src/db/store.py, src/db/query.py),   *)
(* the alternative to the gossip of db_agent.py.                           *)
(*                                                                         *)
(* Each store has a table of rows; a row is the reading it stands for, its *)
(* record_id, which is new for every row that save_sensor_reading writes,  *)
(* and its synced flag.  The client thread of a node goes through its      *)
(* peers, reads a batch of unsynced rows for each, sends it and marks its  *)
(* rows; the server threads of the others save what arrives.  A payload    *)
(* leaves the sender's sight when sendall returns: nothing is acknowledged.*)
(***************************************************************************)
EXTENDS Naturals, FiniteSets

CONSTANTS
  Store,        \* nodes with a database
  Reading,      \* sensor readings
  Unique,       \* record_ids that uuid4 can give
  Batch,        \* limit of get_unsynced
  MaxLosses     \* bound on payloads sent and not stored

VARIABLES
  rows,         \* the table of each store: record_id, reading, synced
  measured,     \* readings taken from a sensor so far
  peersLeft,    \* peers the client thread has still to visit in this round
  batch,        \* rows of the payload sent last, still to be marked
  payloads,     \* payloads on the wire and in the hands of server threads
  losses

storeVars == <<rows, measured, peersLeft, batch, payloads, losses>>

Row == [id : Unique, reading : Reading, synced : BOOLEAN]
Payload == [to : Store, records : SUBSET [id : Unique, reading : Reading]]

StoreTypeOK ==
  /\ rows \in [Store -> SUBSET Row]
  /\ measured \subseteq Reading
  /\ peersLeft \in [Store -> SUBSET Store]
  /\ batch \in [Store -> SUBSET Unique]
  /\ payloads \subseteq Payload
  /\ losses \in 0 .. MaxLosses

StoreInit ==
  /\ rows = [n \in Store |-> {}]
  /\ measured = {}
  /\ peersLeft = [n \in Store |-> {}]
  /\ batch = [n \in Store |-> {}]
  /\ payloads = {}
  /\ losses = 0

Fresh == {u \in Unique : \A n \in Store : \A r \in rows[n] : r.id # u}
Unsynced(n) == {r \in rows[n] : ~r.synced}

-----------------------------------------------------------------------------
\* save_sensor_reading: the row has a record_id of its own, so INSERT OR IGNORE never
\* ignores it.
Insert(n, reading, u) ==
  rows' = [rows EXCEPT ![n] = @ \union {[id |-> u, reading |-> reading, synced |-> FALSE]}]

Measure(n, reading) ==
  /\ reading \notin measured
  /\ measured' = measured \union {reading}
  /\ \E u \in Fresh : Insert(n, reading, u)
  /\ UNCHANGED <<peersLeft, batch, payloads, losses>>

\* _sync_loop wakes up.
BeginRound(n) ==
  /\ peersLeft[n] = {} /\ batch[n] = {} /\ Unsynced(n) # {}
  /\ peersLeft' = [peersLeft EXCEPT ![n] = Store \ {n}]
  /\ UNCHANGED <<rows, measured, batch, payloads, losses>>

\* _sync_with_peer when there is nothing to send, or no connection.
Pass(n, m) ==
  /\ m \in peersLeft[n] /\ batch[n] = {}
  /\ peersLeft' = [peersLeft EXCEPT ![n] = @ \ {m}]
  /\ UNCHANGED <<rows, measured, batch, payloads, losses>>

\* _sync_with_peer up to the end of sendall.
Push(n, m) ==
  /\ m \in peersLeft[n] /\ batch[n] = {} /\ Unsynced(n) # {}
  /\ peersLeft' = [peersLeft EXCEPT ![n] = @ \ {m}]
  /\ \E some \in SUBSET Unsynced(n) :
       /\ Cardinality(some) = IF Cardinality(Unsynced(n)) < Batch
                              THEN Cardinality(Unsynced(n)) ELSE Batch
       /\ batch' = [batch EXCEPT ![n] = {r.id : r \in some}]
       /\ payloads' = payloads \union
            {[to |-> m, records |-> {[id |-> r.id, reading |-> r.reading] : r \in some}]}
  /\ UNCHANGED <<rows, measured, losses>>

\* Mutation: the flag is set on whatever is unsynced by now.
MarkAll(n) ==
  /\ batch[n] # {}
  /\ batch' = [batch EXCEPT ![n] = {}]
  /\ rows' = [rows EXCEPT ![n] = {[r EXCEPT !.synced = TRUE] : r \in @}]
  /\ UNCHANGED <<measured, peersLeft, payloads, losses>>

\* mark_synced, a transaction for each row.
Mark(n) ==
  \E u \in batch[n] :
    /\ batch' = [batch EXCEPT ![n] = @ \ {u}]
    /\ rows' = [rows EXCEPT ![n] =
         {IF r.id = u THEN [r EXCEPT !.synced = TRUE] ELSE r : r \in @}]
    /\ UNCHANGED <<measured, peersLeft, payloads, losses>>

\* One turn of the loop of _handle_sync: a record of the payload is saved.
Receive(p) ==
  \E r \in p.records, u \in Fresh :
    /\ Insert(p.to, r.reading, u)
    /\ payloads' = (payloads \ {p}) \union
         (IF p.records = {r} THEN {} ELSE {[p EXCEPT !.records = @ \ {r}]})
    /\ UNCHANGED <<measured, peersLeft, batch, losses>>

\* The connection breaks after sendall, or the server is gone.
LosePayload(p) ==
  /\ losses < MaxLosses /\ losses' = losses + 1
  /\ payloads' = payloads \ {p}
  /\ UNCHANGED <<rows, measured, peersLeft, batch>>

StoreNext ==
  \/ \E n \in Store :
       \/ \E reading \in Reading : Measure(n, reading)
       \/ BeginRound(n) \/ Mark(n)
       \/ \E m \in Store : Pass(n, m) \/ Push(n, m)
  \/ \E p \in payloads : Receive(p) \/ LosePayload(p)

StoreSpec == StoreInit /\ [][StoreNext]_storeVars

-----------------------------------------------------------------------------
(* Properties *)

\* Where else than at n a reading is: in another store, or on its way to one
Elsewhere(n, reading) ==
  \/ \E m \in Store \ {n} : \E s \in rows[m] : s.reading = reading
  \/ \E p \in payloads : p.to # n /\ \E s \in p.records : s.reading = reading

\* As long as every payload is stored, the flag of a row stands for a copy elsewhere: one
\* that another store has, or that is on its way to it.  Rows that were saved after the
\* batch was read are not marked with it (sync.py:68-108).
SyncedIsElsewhere ==
  losses = 0 =>
    \A n \in Store : \A r \in rows[n] : r.synced => Elsewhere(n, r.reading)

\* What is in a batch to be marked is elsewhere already; an id names one row of a store.
BatchInv ==
  /\ \A n \in Store : n \notin peersLeft[n]
  /\ \A n \in Store : \A r, s \in rows[n] : r.id = s.id => r = s
  /\ \A n \in Store : \A u \in batch[n] : \E r \in rows[n] : r.id = u
  /\ losses = 0 =>
       \A n \in Store : \A r \in rows[n] : r.id \in batch[n] => Elsewhere(n, r.reading)

SyncIInv == StoreTypeOK /\ BatchInv /\ SyncedIsElsewhere
=============================================================================
