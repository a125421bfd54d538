------------------------- MODULE NodeServicesProofs -------------------------
(***************************************************************************)
(* Proofs about four services of a node: the store-level synchronisation   *)
(* (StoreSync), the recorder of the event bus (EventRecorder), the         *)
(* executor of the ML pipeline (ParallelExecutor) and the Bluetooth mesh   *)
(* (BluetoothMesh), each for any stores, events, peers or devices and any  *)
(* bounds.  They share no state: a theorem is about the specification of   *)
(* one of them.                                                            *)
(***************************************************************************)
EXTENDS BluetoothMesh, StoreSync, EventRecorder, ParallelExecutor, FiniteSetTheorems, TLAPS

-----------------------------------------------------------------------------
(* StoreSync: types *)

\* A new row keeps the types.
LEMMA InsertTypes ==
  ASSUME StoreTypeOK, NEW n \in Store, NEW reading \in Reading, NEW u \in Unique,
         Insert(n, reading, u)
  PROVE  rows' \in [Store -> SUBSET Row]
<1> DEFINE new == [id |-> u, reading |-> reading, synced |-> FALSE]
<1>1. new \in Row
  BY DEF Row
<1>2. rows \in [Store -> SUBSET Row] /\ rows' = [rows EXCEPT ![n] = rows[n] \union {new}]
  BY DEF StoreTypeOK, Insert
<1> HIDE DEF new
<1> QED BY <1>1, <1>2

LEMMA StoreTypesStep ==
  ASSUME MaxLosses \in Nat, StoreTypeOK, [StoreNext]_storeVars
  PROVE  StoreTypeOK'
<1> USE DEF StoreTypeOK
<1>1. ASSUME NEW n \in Store, NEW reading \in Reading, Measure(n, reading) PROVE StoreTypeOK'
  BY <1>1, InsertTypes DEF Measure, Fresh
<1>2. ASSUME NEW n \in Store, BeginRound(n) PROVE StoreTypeOK'
  BY <1>2 DEF BeginRound
<1>3. ASSUME NEW n \in Store, Mark(n) PROVE StoreTypeOK'
  <2>1. PICK u \in batch[n] :
          /\ batch' = [batch EXCEPT ![n] = @ \ {u}]
          /\ rows' = [rows EXCEPT ![n] =
               {IF r.id = u THEN [r EXCEPT !.synced = TRUE] ELSE r : r \in @}]
          /\ UNCHANGED <<measured, peersLeft, payloads, losses>>
    BY <1>3 DEF Mark
  <2>2. \A r \in Row : [r EXCEPT !.synced = TRUE] \in Row
    BY DEF Row
  <2>3. rows' \in [Store -> SUBSET Row]
    BY <2>1, <2>2
  <2> QED BY <2>1, <2>3
<1>4. ASSUME NEW n \in Store, NEW m \in Store, Pass(n, m) PROVE StoreTypeOK'
  BY <1>4 DEF Pass
<1>5. ASSUME NEW n \in Store, NEW m \in Store, Push(n, m) PROVE StoreTypeOK'
  <2>1. PICK some \in SUBSET Unsynced(n) :
          /\ batch' = [batch EXCEPT ![n] = {r.id : r \in some}]
          /\ payloads' = payloads \union
               {[to |-> m, records |-> {[id |-> r.id, reading |-> r.reading] : r \in some}]}
    BY <1>5 DEF Push
  <2>2. some \subseteq Row
    BY DEF Unsynced
  <2>3. /\ {r.id : r \in some} \subseteq Unique
        /\ {[id |-> r.id, reading |-> r.reading] : r \in some} \subseteq
             [id : Unique, reading : Reading]
    BY <2>2 DEF Row
  <2>4. batch' \in [Store -> SUBSET Unique] /\ payloads' \subseteq Payload
    BY <2>1, <2>3 DEF Payload
  <2>5. UNCHANGED <<rows, measured, losses>> /\ peersLeft' = [peersLeft EXCEPT ![n] = @ \ {m}]
    BY <1>5 DEF Push
  <2> QED BY <2>4, <2>5
<1>6. ASSUME NEW p \in payloads, Receive(p) PROVE StoreTypeOK'
  <2>1. PICK r \in p.records, u \in Fresh :
          /\ Insert(p.to, r.reading, u)
          /\ payloads' = (payloads \ {p}) \union
               (IF p.records = {r} THEN {} ELSE {[p EXCEPT !.records = @ \ {r}]})
    BY <1>6 DEF Receive
  <2>2. p.to \in Store /\ p.records \subseteq [id : Unique, reading : Reading]
    BY DEF Payload
  <2>3. rows' \in [Store -> SUBSET Row]
    BY <2>1, <2>2, InsertTypes DEF Fresh
  <2>4. [p EXCEPT !.records = @ \ {r}] \in Payload
    BY <2>2 DEF Payload
  <2> QED BY <1>6, <2>1, <2>3, <2>4 DEF Receive
<1>7. ASSUME NEW p \in payloads, LosePayload(p) PROVE StoreTypeOK'
  BY <1>7 DEF LosePayload
<1>8. ASSUME UNCHANGED storeVars PROVE StoreTypeOK'
  BY <1>8 DEF storeVars
<1> QED BY <1>1, <1>2, <1>3, <1>4, <1>5, <1>6, <1>7, <1>8 DEF StoreNext

-----------------------------------------------------------------------------
(* StoreSync: what is marked is elsewhere *)

\* What was elsewhere stays there when rows keep their readings and payloads stay.
LEMMA ElsewhereKept ==
  ASSUME NEW n \in Store, NEW reading, Elsewhere(n, reading),
         \A m \in Store : \A s \in rows[m] : \E t \in rows'[m] : t.reading = s.reading,
         \A p \in payloads : \A s \in p.records : s.reading = reading =>
           \/ \E t \in rows'[p.to] : t.reading = reading
           \/ \E q \in payloads' : q.to = p.to /\ \E t \in q.records : t.reading = reading,
         payloads \subseteq Payload
  PROVE  Elsewhere(n, reading)'
<1>1. CASE \E m \in Store \ {n} : \E s \in rows[m] : s.reading = reading
  BY <1>1 DEF Elsewhere
<1>2. CASE \E p \in payloads : p.to # n /\ \E s \in p.records : s.reading = reading
  <2>1. PICK p \in payloads : p.to # n /\ \E s \in p.records : s.reading = reading
    BY <1>2
  <2>2. p.to \in Store
    BY DEF Payload
  <2> QED BY <2>1, <2>2 DEF Elsewhere
<1> QED BY <1>1, <1>2 DEF Elsewhere

\* A row with a new id is in no batch and not marked.
LEMMA InsertKeeps ==
  ASSUME StoreTypeOK, BatchInv, SyncedIsElsewhere, NEW n \in Store, NEW reading \in Reading,
         NEW u \in Fresh, Insert(n, reading, u),
         UNCHANGED <<peersLeft, batch, losses>>,
         losses = 0 => \A m \in Store, r \in UNION {rows[x] : x \in Store} :
           Elsewhere(m, r.reading) => Elsewhere(m, r.reading)'
  PROVE  BatchInv' /\ SyncedIsElsewhere'
<1> DEFINE new == [id |-> u, reading |-> reading, synced |-> FALSE]
<1>1. /\ rows' = [rows EXCEPT ![n] = @ \union {new}]
      /\ rows \in [Store -> SUBSET Row] /\ batch \in [Store -> SUBSET Unique]
  BY DEF Insert, StoreTypeOK
<1>2. \A m \in Store : rows'[m] = IF m = n THEN rows[m] \union {new} ELSE rows[m]
  BY <1>1
<1>3. \A m \in Store : \A r \in rows[m] : r.id # u
  BY DEF Fresh
<1>4. \A m \in Store : u \notin batch[m]
  BY <1>3 DEF BatchInv
<1>5. new.id = u /\ new.synced = FALSE
  OBVIOUS
<1> HIDE DEF new
<1>6. ASSUME NEW m \in Store, NEW r \in rows'[m], NEW s \in rows'[m], r.id = s.id
      PROVE  r = s
  <2>1. (r \in rows[m] \/ r = new) /\ (s \in rows[m] \/ s = new)
    BY <1>2, <1>6
  <2>2. CASE r \in rows[m] /\ s \in rows[m]
    BY <1>6, <2>2 DEF BatchInv
  <2> QED BY <1>3, <1>5, <1>6, <2>1, <2>2
<1>7. ASSUME NEW m \in Store, NEW v \in batch'[m] PROVE \E r \in rows'[m] : r.id = v
  <2>1. PICK r \in rows[m] : r.id = v
    BY DEF BatchInv
  <2> QED BY <1>2, <2>1
<1>8. ASSUME losses' = 0, NEW m \in Store, NEW r \in rows'[m], r.synced \/ r.id \in batch'[m]
      PROVE  Elsewhere(m, r.reading)'
  <2>1. r \in rows[m]
    BY <1>2, <1>4, <1>5, <1>8
  <2>2. Elsewhere(m, r.reading)
    BY <1>8, <2>1 DEF BatchInv, SyncedIsElsewhere
  <2>3. r \in UNION {rows[x] : x \in Store}
    BY <2>1
  <2> QED BY <1>8, <2>2, <2>3
<1> QED BY <1>6, <1>7, <1>8 DEF BatchInv, SyncedIsElsewhere

\* A row whose flag is set was in the batch.
LEMMA MarkKeeps ==
  ASSUME StoreTypeOK, BatchInv, SyncedIsElsewhere, NEW n \in Store, Mark(n)
  PROVE  BatchInv' /\ SyncedIsElsewhere'
<1>1. PICK u \in batch[n] :
        /\ batch' = [batch EXCEPT ![n] = @ \ {u}]
        /\ rows' = [rows EXCEPT ![n] =
             {IF r.id = u THEN [r EXCEPT !.synced = TRUE] ELSE r : r \in @}]
        /\ UNCHANGED <<measured, peersLeft, payloads, losses>>
  BY DEF Mark
<1> DEFINE Marked(r) == IF r.id = u THEN [r EXCEPT !.synced = TRUE] ELSE r
<1>2. \A r \in Row : Marked(r).id = r.id /\ Marked(r).reading = r.reading
                     /\ (Marked(r).synced => r.synced \/ r.id = u)
  BY DEF Row
<1>3. /\ \A m \in Store : rows[m] \subseteq Row
      /\ \A m \in Store : rows'[m] = IF m = n THEN {Marked(r) : r \in rows[m]} ELSE rows[m]
      /\ \A m \in Store : batch'[m] = IF m = n THEN batch[m] \ {u} ELSE batch[m]
  BY <1>1 DEF StoreTypeOK
<1> HIDE DEF Marked
<1>4. \A m \in Store : \A s \in rows[m] : \E t \in rows'[m] : t.reading = s.reading
  BY <1>2, <1>3
<1>5. ASSUME NEW m \in Store, NEW reading, Elsewhere(m, reading) PROVE Elsewhere(m, reading)'
  <2>1. payloads' = payloads /\ payloads \subseteq Payload
    BY <1>1 DEF StoreTypeOK
  <2> QED BY <1>4, <1>5, <2>1, ElsewhereKept
<1>6. \A m \in Store : \A r, s \in rows'[m] : r.id = s.id => r = s
  <2> SUFFICES ASSUME NEW m \in Store, NEW r \in rows'[m], NEW s \in rows'[m], r.id = s.id
               PROVE  r = s
    OBVIOUS
  <2>1. CASE m = n
    <3>1. (\E p \in rows[n] : r = Marked(p)) /\ \E q \in rows[n] : s = Marked(q)
      BY <1>3, <2>1
    <3>2. PICK p \in rows[n], q \in rows[n] : r = Marked(p) /\ s = Marked(q)
      BY <3>1
    <3>3. p \in Row /\ q \in Row
      BY <1>3, <3>2
    <3>4. p.id = q.id
      BY <1>2, <3>2, <3>3
    <3> QED BY <3>2, <3>4 DEF BatchInv
  <2>2. CASE m # n
    BY <1>3, <2>2 DEF BatchInv
  <2> QED BY <2>1, <2>2
<1>7. \A m \in Store : \A v \in batch'[m] : \E r \in rows'[m] : r.id = v
  <2> SUFFICES ASSUME NEW m \in Store, NEW v \in batch'[m] PROVE \E r \in rows'[m] : r.id = v
    OBVIOUS
  <2>1. PICK r \in rows[m] : r.id = v
    BY <1>3 DEF BatchInv
  <2> QED BY <1>2, <1>3, <2>1
<1>8. ASSUME losses' = 0, NEW m \in Store, NEW r \in rows'[m], r.synced \/ r.id \in batch'[m]
      PROVE  Elsewhere(m, r.reading)'
  <2>1. PICK s \in rows[m] : /\ s.id = r.id /\ s.reading = r.reading
                             /\ r.synced => s.synced \/ s.id \in batch[m]
    <3>1. CASE m = n
      <4>1. PICK s \in rows[n] : r = Marked(s)
        BY <1>3, <1>8, <3>1
      <4>2. s \in Row
        BY <1>3, <4>1
      <4> QED BY <1>2, <3>1, <4>1, <4>2
    <3>2. CASE m # n
      BY <1>3, <1>8, <3>2
    <3> QED BY <3>1, <3>2
  <2>2. Elsewhere(m, s.reading)
    BY <1>1, <1>3, <1>8, <2>1 DEF BatchInv, SyncedIsElsewhere
  <2> QED BY <1>5, <2>1, <2>2
<1>9. \A m \in Store : m \notin peersLeft'[m]
  BY <1>1 DEF BatchInv
<1> QED BY <1>6, <1>7, <1>8, <1>9 DEF BatchInv, SyncedIsElsewhere

\* A batch is on its way to somebody else before a row of it is marked.
LEMMA PushKeeps ==
  ASSUME StoreTypeOK, BatchInv, SyncedIsElsewhere, NEW n \in Store, NEW m \in Store, Push(n, m)
  PROVE  BatchInv' /\ SyncedIsElsewhere'
<1>1. PICK some \in SUBSET Unsynced(n) :
        /\ batch' = [batch EXCEPT ![n] = {r.id : r \in some}]
        /\ payloads' = payloads \union
             {[to |-> m, records |-> {[id |-> r.id, reading |-> r.reading] : r \in some}]}
  BY DEF Push
<1>2. UNCHANGED <<rows, losses>> /\ peersLeft' = [peersLeft EXCEPT ![n] = @ \ {m}] /\ m # n
  BY DEF Push, BatchInv
<1>3. some \subseteq rows[n]
  BY DEF Unsynced
<1>4. \A x \in Store : batch'[x] = IF x = n THEN {r.id : r \in some} ELSE batch[x]
  BY <1>1 DEF StoreTypeOK
<1>5. ASSUME NEW r \in some PROVE Elsewhere(n, r.reading)'
  <2> DEFINE p == [to |-> m, records |-> {[id |-> s.id, reading |-> s.reading] : s \in some}]
  <2>1. p \in payloads' /\ p.to # n
    BY <1>1, <1>2
  <2>2. [id |-> r.id, reading |-> r.reading] \in p.records
    OBVIOUS
  <2> QED BY <2>1, <2>2 DEF Elsewhere
<1>6. ASSUME NEW x \in Store, NEW reading, Elsewhere(x, reading) PROVE Elsewhere(x, reading)'
  BY <1>1, <1>2, <1>6 DEF Elsewhere
<1>7. ASSUME losses' = 0, NEW x \in Store, NEW r \in rows'[x], r.synced \/ r.id \in batch'[x]
      PROVE  Elsewhere(x, r.reading)'
  <2>1. CASE r.synced \/ x # n
    BY <1>2, <1>4, <1>6, <1>7, <2>1 DEF BatchInv, SyncedIsElsewhere
  <2>2. CASE x = n /\ r.id \in batch'[x]
    <3>1. PICK s \in some : s.id = r.id
      BY <1>4, <2>2
    <3>2. s = r
      BY <1>2, <1>3, <1>7, <2>2, <3>1 DEF BatchInv
    <3> QED BY <1>5, <2>2, <3>2
  <2> QED BY <1>7, <2>1, <2>2
<1>8. \A x \in Store : x \notin peersLeft'[x]
  BY <1>2 DEF BatchInv, StoreTypeOK
<1>9. ASSUME NEW x \in Store, NEW u \in batch'[x] PROVE \E r \in rows'[x] : r.id = u
  <2>1. CASE x = n
    BY <1>2, <1>3, <1>4, <1>9, <2>1
  <2>2. CASE x # n
    BY <1>2, <1>4, <1>9, <2>2 DEF BatchInv
  <2> QED BY <2>1, <2>2
<1>10. \A x \in Store : \A r, s \in rows'[x] : r.id = s.id => r = s
  BY <1>2 DEF BatchInv
<1> QED BY <1>7, <1>8, <1>9, <1>10 DEF BatchInv, SyncedIsElsewhere

\* A record leaves its payload for the table of its receiver.
LEMMA ReceiveKeeps ==
  ASSUME StoreTypeOK, BatchInv, SyncedIsElsewhere, NEW p \in payloads, Receive(p)
  PROVE  BatchInv' /\ SyncedIsElsewhere'
<1>1. PICK r \in p.records, u \in Fresh :
        /\ Insert(p.to, r.reading, u)
        /\ payloads' = (payloads \ {p}) \union
             (IF p.records = {r} THEN {} ELSE {[p EXCEPT !.records = @ \ {r}]})
  BY DEF Receive
<1>2. /\ p.to \in Store /\ p.records \subseteq [id : Unique, reading : Reading]
      /\ r.reading \in Reading /\ u \in Unique
      /\ payloads \subseteq Payload
      /\ rows \in [Store -> SUBSET Row]
  BY DEF StoreTypeOK, Payload, Fresh
<1> DEFINE new == [id |-> u, reading |-> r.reading, synced |-> FALSE]
<1>3. /\ \A m \in Store : rows[m] \subseteq rows'[m]
      /\ new \in rows'[p.to] /\ new.reading = r.reading
  BY <1>1, <1>2 DEF Insert
<1>4. ASSUME NEW q \in payloads, NEW s \in q.records
      PROVE  \/ \E t \in rows'[q.to] : t.reading = s.reading
             \/ \E o \in payloads' : o.to = q.to /\ \E t \in o.records : t.reading = s.reading
  <2>1. CASE q # p
    BY <1>1, <2>1, <1>4
  <2>2. CASE q = p /\ s = r
    BY <1>3, <2>2
  <2>3. CASE q = p /\ s # r
    <3> DEFINE o == [p EXCEPT !.records = @ \ {r}]
    <3>1. p.records # {r}
      BY <1>4, <2>3
    <3>2. o \in payloads'
      BY <1>1, <3>1
    <3>3. o.to = p.to /\ o.records = p.records \ {r}
      BY <1>2 DEF Payload
    <3> QED BY <1>4, <2>3, <3>2, <3>3
  <2> QED BY <2>1, <2>2, <2>3
<1>5. ASSUME NEW m \in Store, NEW reading, Elsewhere(m, reading) PROVE Elsewhere(m, reading)'
  BY <1>2, <1>3, <1>4, <1>5, ElsewhereKept
<1>6. UNCHANGED <<peersLeft, batch, losses>>
  BY DEF Receive
<1> QED BY <1>1, <1>2, <1>5, <1>6, InsertKeeps

LEMMA SyncStep ==
  ASSUME MaxLosses \in Nat, SyncIInv, [StoreNext]_storeVars
  PROVE  SyncIInv'
<1> USE DEF SyncIInv
<1>0. StoreTypeOK'
  BY StoreTypesStep
<1>1. ASSUME NEW n \in Store, NEW reading \in Reading, Measure(n, reading)
      PROVE  BatchInv' /\ SyncedIsElsewhere'
  <2>1. PICK u \in Fresh : Insert(n, reading, u)
    BY <1>1 DEF Measure
  <2>2. UNCHANGED <<peersLeft, batch, payloads, losses>>
    BY <1>1 DEF Measure
  <2>3. \A m \in Store : rows[m] \subseteq rows'[m]
    BY <2>1 DEF Insert, StoreTypeOK
  <2>4. \A m \in Store : \A r \in UNION {rows[x] : x \in Store} :
          Elsewhere(m, r.reading) => Elsewhere(m, r.reading)'
    BY <2>2, <2>3 DEF Elsewhere
  <2> QED BY <2>1, <2>2, <2>4, InsertKeeps
<1>2. ASSUME NEW n \in Store, BeginRound(n) \/ \E m \in Store : Pass(n, m)
      PROVE  BatchInv' /\ SyncedIsElsewhere'
  <2>1. UNCHANGED <<rows, batch, payloads, losses>> /\ \A m \in Store : m \notin peersLeft'[m]
    BY <1>2 DEF BeginRound, Pass, BatchInv, StoreTypeOK
  <2> QED BY <2>1 DEF BatchInv, SyncedIsElsewhere, Elsewhere
<1>3. ASSUME NEW p \in payloads, LosePayload(p) PROVE BatchInv' /\ SyncedIsElsewhere'
  <2>1. UNCHANGED <<rows, peersLeft, batch>> /\ losses' # 0
    BY <1>3 DEF LosePayload, StoreTypeOK
  <2> QED BY <2>1 DEF BatchInv, SyncedIsElsewhere
<1>4. ASSUME UNCHANGED storeVars PROVE BatchInv' /\ SyncedIsElsewhere'
  BY <1>4 DEF storeVars, BatchInv, SyncedIsElsewhere, Elsewhere
<1>5. BatchInv' /\ SyncedIsElsewhere'
  BY <1>1, <1>2, <1>3, <1>4, MarkKeeps, PushKeeps, ReceiveKeeps DEF StoreNext
<1> QED BY <1>0, <1>5

-----------------------------------------------------------------------------
(* StoreSync: theorems *)

\* SyncIInv is an invariant of the synchronisation of any stores and readings.
THEOREM SyncInvariance == ASSUME MaxLosses \in Nat PROVE StoreSpec => []SyncIInv
<1>1. StoreInit => SyncIInv
  BY DEF StoreInit, SyncIInv, StoreTypeOK, BatchInv, SyncedIsElsewhere
<1>2. SyncIInv /\ [StoreNext]_storeVars => SyncIInv'
  BY SyncStep
<1> QED BY <1>1, <1>2, PTL DEF StoreSpec

\* A row that is marked as synced has a copy elsewhere, in whatever order batches are read,
\* sent, stored and marked, as long as no payload is lost (sync.py:68-108).
THEOREM MarkedIsCopied == ASSUME MaxLosses \in Nat PROVE StoreSpec => []SyncedIsElsewhere
<1>1. SyncIInv => SyncedIsElsewhere
  BY DEF SyncIInv
<1> QED BY <1>1, SyncInvariance, PTL

-----------------------------------------------------------------------------
(* EventRecorder: the queue *)

\* What appending does to the elements of a sequence.
LEMMA AppendLaw ==
  ASSUME NEW S, NEW s \in Seq(S), NEW x \in S
  PROVE  /\ Append(s, x) \in Seq(S)
         /\ \A i \in DOMAIN s : i \in DOMAIN Append(s, x) /\ Append(s, x)[i] = s[i]
         /\ \E i \in DOMAIN Append(s, x) : Append(s, x)[i] = x
         /\ \A i \in DOMAIN Append(s, x) : i \in DOMAIN s \/ Append(s, x)[i] = x
<1>1. /\ Append(s, x) \in Seq(S) /\ Len(Append(s, x)) = Len(s) + 1 /\ Len(s) \in Nat
      /\ DOMAIN s = 1 .. Len(s) /\ DOMAIN Append(s, x) = 1 .. Len(s) + 1
  OBVIOUS
<1>2. /\ \A i \in 1 .. Len(s) : Append(s, x)[i] = s[i]
      /\ Append(s, x)[Len(s) + 1] = x
  OBVIOUS
<1>3. \A i \in 1 .. Len(s) + 1 : i \in 1 .. Len(s) \/ i = Len(s) + 1
  BY <1>1
<1>4. Len(s) + 1 \in 1 .. Len(s) + 1 /\ 1 .. Len(s) \subseteq 1 .. Len(s) + 1
  BY <1>1
<1> QED BY <1>1, <1>2, <1>3, <1>4

\* What taking the first element off does.
LEMMA TailLaw ==
  ASSUME NEW S, NEW s \in Seq(S), s # <<>>
  PROVE  /\ Tail(s) \in Seq(S) /\ Head(s) = s[1] /\ 1 \in DOMAIN s
         /\ \A i \in DOMAIN Tail(s) : i + 1 \in DOMAIN s /\ Tail(s)[i] = s[i + 1]
         /\ \A i \in DOMAIN s : i # 1 => i - 1 \in DOMAIN Tail(s) /\ Tail(s)[i - 1] = s[i]
<1>1. /\ Tail(s) \in Seq(S) /\ Len(Tail(s)) = Len(s) - 1 /\ Len(s) \in Nat \ {0}
      /\ DOMAIN s = 1 .. Len(s) /\ DOMAIN Tail(s) = 1 .. Len(s) - 1
  OBVIOUS
<1>2. \A i \in 1 .. Len(s) - 1 : Tail(s)[i] = s[i + 1]
  OBVIOUS
<1>3. ASSUME NEW i \in DOMAIN s, i # 1
      PROVE  i - 1 \in DOMAIN Tail(s) /\ Tail(s)[i - 1] = s[i]
  <2>1. i - 1 \in 1 .. Len(s) - 1 /\ (i - 1) + 1 = i
    BY <1>1, <1>3
  <2> QED BY <1>1, <1>2, <2>1
<1>4. \A i \in DOMAIN Tail(s) : i + 1 \in DOMAIN s
  BY <1>1
<1>5. Head(s) = s[1] /\ 1 \in DOMAIN s
  BY <1>1
<1> QED BY <1>1, <1>2, <1>3, <1>4, <1>5

\* A record that goes into the queue leaves those before it where they are.
LEMMA EnqueueKeeps ==
  ASSUME RecorderTypeOK, NEW x \in Delivery \union {Sentinel}, queue' = Append(queue, x)
  PROVE  /\ queue' \in Seq(Delivery \union {Sentinel})
         /\ \A d : Queued(d) => Queued(d)'
         /\ \A d : InTime(d) => InTime(d)'
         /\ Queued(x)'
         /\ \A d : Queued(d)' => Queued(d) \/ d = x
<1>0. queue \in Seq(Delivery \union {Sentinel})
  BY DEF RecorderTypeOK
<1>1. /\ queue' \in Seq(Delivery \union {Sentinel})
      /\ \A i \in DOMAIN queue : i \in DOMAIN queue' /\ queue'[i] = queue[i]
      /\ \E i \in DOMAIN queue' : queue'[i] = x
      /\ \A i \in DOMAIN queue' : i \in DOMAIN queue \/ queue'[i] = x
  BY <1>0, AppendLaw
<1>2. ASSUME NEW d, InTime(d) PROVE InTime(d)'
  <2>1. PICK i \in DOMAIN queue : queue[i] = d /\ \A j \in 1 .. i - 1 : queue[j] # Sentinel
    BY <1>2 DEF InTime
  <2>2. \A j \in 1 .. i - 1 : j \in DOMAIN queue
    BY <1>0, <2>1
  <2>3. \A j \in 1 .. i - 1 : queue'[j] # Sentinel
    BY <1>1, <2>1, <2>2
  <2> QED BY <1>1, <2>1, <2>3 DEF InTime
<1> QED BY <1>1, <1>2 DEF Queued

\* Before any stop, whatever is queued is in time.
LEMMA QueuedInTime ==
  ASSUME RecorderTypeOK, ~Queued(Sentinel), NEW d, Queued(d)
  PROVE  InTime(d)
<1>1. PICK i \in DOMAIN queue : queue[i] = d
  BY DEF Queued
<1>2. \A j \in 1 .. i - 1 : j \in DOMAIN queue
  BY <1>1 DEF RecorderTypeOK
<1> QED BY <1>1, <1>2 DEF InTime, Queued

-----------------------------------------------------------------------------
(* EventRecorder: steps *)

LEMMA RecorderTypesStep ==
  ASSUME MaxStarts \in Nat, MaxStops \in Nat, MaxSlow \in Nat,
         RecorderTypeOK, [RecorderNext]_recorderVars
  PROVE  RecorderTypeOK'
<1> USE DEF RecorderTypeOK
<1>1. CASE Start
  BY <1>1 DEF Start
<1>2. CASE Stop
  <2>1. Sentinel \in Delivery \union {Sentinel}
    OBVIOUS
  <2> QED BY <1>2, <2>1, EnqueueKeeps DEF Stop
<1>3. CASE Unsubscribe
  BY <1>3 DEF Unsubscribe
<1>4. CASE Write
  <2>1. /\ queue # <<>> /\ queue' = Tail(queue) /\ queue \in Seq(Delivery \union {Sentinel})
        /\ UNCHANGED <<subs, starts, stops, published, returned, delivering, slow, heard, settled>>
    BY <1>4 DEF Write
  <2>2. queue' \in Seq(Delivery \union {Sentinel}) /\ Head(queue) \in Delivery \union {Sentinel}
    BY <2>1, TailLaw
  <2>3. writer' \in {"draining", "ended"} /\ table' \subseteq Delivery /\ failed' \subseteq Delivery
    BY <1>4, <2>2 DEF Write
  <2> QED BY <2>1, <2>2, <2>3
<1>5. ASSUME NEW e \in Event, Publish(e) PROVE RecorderTypeOK'
  BY <1>5 DEF Publish, Delivery
<1>6. ASSUME NEW e \in Event, Return(e) PROVE RecorderTypeOK'
  BY <1>6 DEF Return
<1>7. ASSUME NEW d \in delivering, Deliver(d) PROVE RecorderTypeOK'
  BY <1>7, EnqueueKeeps DEF Deliver
<1>8. CASE UNCHANGED recorderVars
  BY <1>8 DEF recorderVars
<1> QED BY <1>1, <1>2, <1>3, <1>4, <1>5, <1>6, <1>7, <1>8 DEF RecorderNext

\* The records move from the queue to the table, and none is passed over.
LEMMA WriteKeeps ==
  ASSUME RecorderTypeOK, RecordsInv, CriticalSurvivesStop, Write
  PROVE  RecordsInv' /\ CriticalSurvivesStop'
<1>1. /\ queue # <<>> /\ queue' = Tail(queue) /\ queue \in Seq(Delivery \union {Sentinel})
      /\ UNCHANGED <<stops, published, returned, delivering, heard, settled>>
      /\ writer = "draining"
  BY DEF Write, RecorderTypeOK
<1>2. /\ Head(queue) = queue[1] /\ 1 \in DOMAIN queue
      /\ \A i \in DOMAIN queue' : i + 1 \in DOMAIN queue /\ queue'[i] = queue[i + 1]
      /\ \A i \in DOMAIN queue : i # 1 => i - 1 \in DOMAIN queue' /\ queue'[i - 1] = queue[i]
      /\ DOMAIN queue \subseteq Nat \ {0}
  BY <1>1, TailLaw
<1>3. \A d : Handled(d) => Handled(d)'
  BY DEF Write, Handled
<1>4. queue[1] # Sentinel => writer' = writer /\ queue[1] \in table' \union failed'
  BY <1>2 DEF Write
<1>5. \A d : Queued(d)' => Queued(d)
  BY <1>2 DEF Queued
<1>6. ASSUME NEW d, Queued(d), d # Sentinel PROVE Handled(d)' \/ Queued(d)'
  <2>1. PICK i \in DOMAIN queue : queue[i] = d
    BY <1>6 DEF Queued
  <2>2. CASE i = 1
    BY <1>4, <1>6, <2>1, <2>2 DEF Handled
  <2>3. CASE i # 1
    BY <1>2, <2>1, <2>3 DEF Queued
  <2> QED BY <2>2, <2>3
<1>7. ASSUME NEW d, InTime(d), d # Sentinel
      PROVE  queue[1] # Sentinel /\ (Handled(d)' \/ InTime(d)')
  <2>1. PICK i \in DOMAIN queue : queue[i] = d /\ \A j \in 1 .. i - 1 : queue[j] # Sentinel
    BY <1>7 DEF InTime
  <2>2. CASE i = 1
    BY <1>4, <1>7, <2>1, <2>2 DEF Handled
  <2>3. CASE i # 1
    <3>0. i \in Nat /\ DOMAIN queue = 1 .. Len(queue) /\ i <= Len(queue) /\ Len(queue) \in Nat
      BY <1>1, <2>1
    <3>1. i - 1 \in DOMAIN queue' /\ queue'[i - 1] = d /\ 1 \in 1 .. i - 1
      BY <1>2, <2>1, <2>3
    <3>2. ASSUME NEW j \in 1 .. (i - 1) - 1 PROVE queue'[j] # Sentinel
      <4>1. j + 1 \in 1 .. i - 1 /\ j + 1 \in DOMAIN queue /\ j + 1 # 1 /\ (j + 1) - 1 = j
        BY <3>0
      <4>2. queue[j + 1] # Sentinel /\ queue'[(j + 1) - 1] = queue[j + 1]
        BY <1>2, <2>1, <4>1
      <4> QED BY <4>1, <4>2
    <3> QED BY <2>1, <3>1, <3>2 DEF InTime
  <2> QED BY <2>2, <2>3
<1>8. \A e \in published : \A s \in heard[e] : <<e, s>> # Sentinel
  BY DEF Sentinel
<1>9. settled \subseteq published
  BY DEF RecordsInv, RecorderTypeOK
<1>10. settled' \subseteq returned'
  BY <1>1 DEF RecordsInv
<1>11. ~Stopped' => writer' = "draining" /\ ~Queued(Sentinel)'
  BY <1>1, <1>2, <1>4, <1>5 DEF RecordsInv, Stopped, Queued
<1>12. \A e \in published' : \A s \in heard'[e] :
         <<e, s>> \in delivering' \/ Queued(<<e, s>>)' \/ Handled(<<e, s>>)'
  BY <1>1, <1>3, <1>6, <1>8 DEF RecordsInv
<1>13. \A e \in settled : \A s \in heard[e] :
         Handled(<<e, s>>)' \/ (queue[1] # Sentinel /\ InTime(<<e, s>>)')
  BY <1>1, <1>3, <1>7, <1>8, <1>9 DEF RecordsInv
<1>14. \A e \in settled' : \A s \in heard'[e] : Handled(<<e, s>>)' \/ InTime(<<e, s>>)'
  BY <1>1, <1>13
<1>15. writer' = "ended" => queue[1] = Sentinel
  BY <1>1, <1>4
<1>16. CriticalSurvivesStop'
  BY <1>1, <1>13, <1>15 DEF CriticalSurvivesStop, Handled
<1> QED BY <1>10, <1>11, <1>12, <1>14, <1>16 DEF RecordsInv

\* A step that takes no record and no event away keeps what holds of them.
LEMMA RecordsFrame ==
  ASSUME RecorderTypeOK, RecordsInv, CriticalSurvivesStop,
         UNCHANGED <<published, settled, heard, writer>>, returned \subseteq returned',
         Stopped => Stopped', ~Stopped' => (Queued(Sentinel)' => Queued(Sentinel)),
         \A d : Handled(d) => Handled(d)', \A d : InTime(d) => InTime(d)',
         \A d : Queued(d) => Queued(d)',
         \A d \in delivering : d \in delivering' \/ Queued(d)'
  PROVE  RecordsInv' /\ CriticalSurvivesStop'
<1>1. settled' \subseteq returned'
  BY DEF RecordsInv
<1>2. ~Stopped' => writer' = "draining" /\ ~Queued(Sentinel)'
  BY DEF RecordsInv
<1>3. \A e \in published' : \A s \in heard'[e] :
        <<e, s>> \in delivering' \/ Queued(<<e, s>>)' \/ Handled(<<e, s>>)'
  BY DEF RecordsInv
<1>4. writer' = "draining" =>
        \A e \in settled' : \A s \in heard'[e] : Handled(<<e, s>>)' \/ InTime(<<e, s>>)'
  BY DEF RecordsInv
<1>5. CriticalSurvivesStop'
  BY DEF CriticalSurvivesStop, Handled
<1> QED BY <1>1, <1>2, <1>3, <1>4, <1>5 DEF RecordsInv

LEMMA RecorderStep ==
  ASSUME MaxStarts \in Nat, MaxStops \in Nat, MaxSlow \in Nat,
         RecorderIInv, [RecorderNext]_recorderVars
  PROVE  RecorderIInv'
<1> USE DEF RecorderIInv
<1>0. RecorderTypeOK'
  BY RecorderTypesStep
<1>1. CASE Start \/ Unsubscribe \/ UNCHANGED recorderVars
  <2>1. UNCHANGED <<stops, published, returned, delivering, queue, writer, table, failed, heard,
                    settled>>
    BY <1>1 DEF Start, Unsubscribe, recorderVars
  <2>2. \A d : /\ Handled(d)' <=> Handled(d)
               /\ Queued(d)' <=> Queued(d)
               /\ InTime(d)' <=> InTime(d)
    BY <2>1 DEF Handled, Queued, InTime
  <2>3. Queued(Sentinel)' => Queued(Sentinel)
    BY <2>2
  <2>4. /\ returned \subseteq returned' /\ UNCHANGED <<published, settled, heard, writer>>
        /\ \A d \in delivering : d \in delivering'
    BY <2>1
  <2> QED BY <1>0, <2>1, <2>2, <2>3, <2>4, RecordsFrame DEF Stopped
<1>2. CASE Stop
  <2>1. /\ UNCHANGED <<published, returned, delivering, writer, table, failed, heard, settled>>
        /\ queue' = Append(queue, Sentinel) /\ stops' = stops + 1 /\ stops \in Nat
    BY <1>2 DEF Stop, RecorderTypeOK
  <2>2. Sentinel \in Delivery \union {Sentinel}
    OBVIOUS
  <2>3. (\A d : InTime(d) => InTime(d)') /\ \A d : Queued(d) => Queued(d)'
    BY <2>1, <2>2, EnqueueKeeps
  <2>4. Stopped'
    BY <2>1 DEF Stopped
  <2>5. /\ \A d : Handled(d) => Handled(d)'
        /\ returned \subseteq returned' /\ UNCHANGED <<published, settled, heard, writer>>
        /\ \A d \in delivering : d \in delivering'
    BY <2>1 DEF Handled
  <2> QED BY <1>0, <2>3, <2>4, <2>5, RecordsFrame
<1>3. ASSUME NEW d \in delivering, Deliver(d) PROVE RecordsInv' /\ CriticalSurvivesStop'
  <2>1. /\ UNCHANGED <<stops, published, returned, writer, table, failed, heard, settled>>
        /\ queue' = Append(queue, d) /\ delivering' = delivering \ {d}
        /\ d \in Delivery
    BY <1>3 DEF Deliver, RecorderTypeOK
  <2>2. /\ \A x : InTime(x) => InTime(x)'
        /\ \A x : Queued(x) => Queued(x)'
        /\ Queued(d)' /\ \A x : Queued(x)' => Queued(x) \/ x = d
    BY <2>1, EnqueueKeeps
  <2>3. d # Sentinel
    BY <2>1 DEF Delivery, Sentinel
  <2> QED BY <2>1, <2>2, <2>3, RecordsFrame DEF Handled, Stopped
<1>4. ASSUME NEW e \in Event, Publish(e) PROVE RecordsInv' /\ CriticalSurvivesStop'
  <2>1. /\ UNCHANGED <<stops, returned, queue, writer, table, failed, settled>>
        /\ e \notin published /\ published' = published \union {e}
        /\ delivering' = delivering \union {<<e, s>> : s \in subs}
        /\ heard' = [heard EXCEPT ![e] = subs] /\ heard \in [Event -> SUBSET (1 .. MaxStarts)]
    BY <1>4 DEF Publish, RecorderTypeOK
  <2>2. settled \subseteq published /\ published \subseteq Event
    BY DEF RecordsInv, RecorderTypeOK
  <2>3. \A x \in published : heard'[x] = heard[x]
    BY <2>1, <2>2
  <2>4. \A d : /\ Handled(d)' <=> Handled(d)
               /\ Queued(d)' <=> Queued(d)
               /\ InTime(d)' <=> InTime(d)
    BY <2>1 DEF Handled, Queued, InTime
  <2>5. \A x \in published' : \A s \in heard'[x] :
          <<x, s>> \in delivering' \/ Queued(<<x, s>>)' \/ Handled(<<x, s>>)'
    BY <2>1, <2>2, <2>3, <2>4 DEF RecordsInv
  <2>6. ~Stopped' => writer' = "draining" /\ ~Queued(Sentinel)'
    BY <2>1, <2>4 DEF RecordsInv, Stopped
  <2>7. writer' = "draining" =>
          \A x \in settled' : \A s \in heard'[x] : Handled(<<x, s>>)' \/ InTime(<<x, s>>)'
    BY <2>1, <2>2, <2>3, <2>4 DEF RecordsInv
  <2>8. CriticalSurvivesStop'
    BY <2>1, <2>2, <2>3 DEF CriticalSurvivesStop
  <2>9. settled' \subseteq returned'
    BY <2>1 DEF RecordsInv
  <2> QED BY <2>5, <2>6, <2>7, <2>8, <2>9 DEF RecordsInv
\* Publish returns for good: what its threads have handed over is queued before any sentinel.
<1>5. ASSUME NEW e \in Event, Return(e) PROVE RecordsInv' /\ CriticalSurvivesStop'
  <2>1. /\ UNCHANGED <<stops, published, delivering, queue, writer, table, failed, heard>>
        /\ returned' = returned \union {e} /\ e \in published
    BY <1>5 DEF Return
  <2>2. \A d : /\ Handled(d)' <=> Handled(d)
               /\ Queued(d)' <=> Queued(d)
               /\ InTime(d)' <=> InTime(d)
    BY <2>1 DEF Handled, Queued, InTime
  <2>3. CASE settled' = settled
    BY <2>1, <2>2, <2>3, RecordsFrame DEF Stopped
  <2>4. CASE settled' # settled
    <3>1. /\ settled' = settled \union {e} /\ ~Stopped /\ \A d \in delivering : d[1] # e
      BY <1>5, <2>4 DEF Return
    <3>2. writer = "draining" /\ ~Queued(Sentinel)
      BY <3>1 DEF RecordsInv
    <3>3. ASSUME NEW s \in heard[e] PROVE Handled(<<e, s>>) \/ InTime(<<e, s>>)
      <4>1. <<e, s>> \notin delivering
        BY <3>1
      <4>2. Queued(<<e, s>>) \/ Handled(<<e, s>>)
        BY <2>1, <4>1 DEF RecordsInv
      <4> QED BY <3>2, <4>2, QueuedInTime
    <3>4. \A x \in settled' : \A s \in heard'[x] : Handled(<<x, s>>)' \/ InTime(<<x, s>>)'
      BY <2>1, <2>2, <3>1, <3>2, <3>3 DEF RecordsInv
    <3>5. CriticalSurvivesStop'
      BY <2>1, <3>2 DEF CriticalSurvivesStop
    <3>6. settled' \subseteq returned'
      BY <2>1, <3>1 DEF RecordsInv
    <3>7. \A x \in published' : \A s \in heard'[x] :
            <<x, s>> \in delivering' \/ Queued(<<x, s>>)' \/ Handled(<<x, s>>)'
      BY <2>1, <2>2 DEF RecordsInv
    <3>8. ~Stopped' => writer' = "draining" /\ ~Queued(Sentinel)'
      BY <2>1, <2>2, <3>2
    <3> QED BY <3>4, <3>5, <3>6, <3>7, <3>8 DEF RecordsInv
  <2> QED BY <2>3, <2>4
<1>6. RecordsInv' /\ CriticalSurvivesStop'
  BY <1>1, <1>2, <1>3, <1>4, <1>5, WriteKeeps DEF RecorderNext
<1> QED BY <1>0, <1>6

-----------------------------------------------------------------------------
(* EventRecorder: theorems *)

\* RecorderIInv is an invariant of the bus with any events, starts and stops.
THEOREM RecorderInvariance ==
  ASSUME MaxStarts \in Nat, MaxStops \in Nat, MaxSlow \in Nat
  PROVE  RecorderSpec => []RecorderIInv
<1>1. RecorderInit => RecorderIInv
  <2> SUFFICES ASSUME RecorderInit PROVE RecorderIInv
    OBVIOUS
  <2>1. RecorderTypeOK
    BY DEF RecorderInit, RecorderTypeOK
  <2>2. RecordsInv /\ CriticalSurvivesStop
    BY DEF RecorderInit, RecordsInv, CriticalSurvivesStop, Queued
  <2> QED BY <2>1, <2>2 DEF RecorderIInv
<1>2. RecorderIInv /\ [RecorderNext]_recorderVars => RecorderIInv'
  BY RecorderStep
<1> QED BY <1>1, <1>2, PTL DEF RecorderSpec

\* A critical event that was waited for survives a stop: it has been through the writer's
\* hands when the writer ends, however slow threads are (telemetry_agent.py, event_bus.py).
THEOREM CriticalIsWritten ==
  ASSUME MaxStarts \in Nat, MaxStops \in Nat, MaxSlow \in Nat
  PROVE  RecorderSpec => []CriticalSurvivesStop
<1>1. RecorderIInv => CriticalSurvivesStop
  BY DEF RecorderIInv
<1> QED BY <1>1, RecorderInvariance, PTL

-----------------------------------------------------------------------------
(* ParallelExecutor: steps *)

\* The action is the one task that is not pooled.
LEMMA TaskNames == "action" \notin Pooled /\ Pooled \subseteq MlTask /\ "action" \in MlTask
BY DEF MlTask, Pooled

LEMMA ResultTypesStep ==
  ASSUME ResultTypeOK, [ExecutorNext]_executorVars
  PROVE  ResultTypeOK'
<1> USE TaskNames DEF ResultTypeOK
<1>1. CASE Decompose
  BY <1>1 DEF Decompose
<1>2. CASE Submit
  BY <1>2 DEF Submit
<1>3. CASE Deadline
  BY <1>3 DEF Deadline
<1>4. CASE Join
  BY <1>4 DEF Join, Done
<1>5. CASE RunAction
  BY <1>5 DEF RunAction, ActionOutcome
<1>6. ASSUME NEW t \in Pooled, RunLocally(t) \/ ServeTask(t) \/ ReadAnswer(t) \/ CallBreaks(t)
      PROVE  ResultTypeOK'
  BY <1>6 DEF RunLocally, ServeTask, ReadAnswer, CallBreaks, Done
<1>7. ASSUME NEW t \in Pooled, CollectResults(t) PROVE ResultTypeOK'
  BY <1>7 DEF CollectResults
<1>8. ASSUME NEW t \in Pooled, Sweep(t) PROVE ResultTypeOK'
  BY <1>8 DEF Sweep
<1>9. CASE UNCHANGED executorVars
  BY <1>9 DEF executorVars
<1> QED BY <1>1, <1>2, <1>3, <1>4, <1>5, <1>6, <1>7, <1>8, <1>9 DEF ExecutorNext

\* The assembler counts every task once when each has a result.
LEMMA TallyLaw ==
  ASSUME NEW r \in [MlTask -> {"none", "timeout"} \union Done], \A t \in MlTask : r[t] # "none"
  PROVE  Cardinality({t \in MlTask : r[t] = "succeeded"})
           + Cardinality({t \in MlTask : r[t] \in {"failed", "timeout"}}) = Cardinality(MlTask)
<1> DEFINE won == {t \in MlTask : r[t] = "succeeded"}
           lost == {t \in MlTask : r[t] \in {"failed", "timeout"}}
<1>1. IsFiniteSet(MlTask)
  <2>1. MlTask = ((({"clean"} \union {"anomaly"}) \union {"trend"}) \union {"history"})
                   \union {"action"}
    BY DEF MlTask, Pooled
  <2> QED BY <2>1, FS_Singleton, FS_Union
<1>2. IsFiniteSet(won) /\ IsFiniteSet(lost)
  BY <1>1, FS_Subset
<1>3. won \union lost = MlTask
  BY DEF Done
<1>4. won \intersect lost = {}
  OBVIOUS
<1>5. Cardinality(MlTask) = Cardinality(won) + Cardinality(lost) - Cardinality({})
  BY <1>2, <1>3, <1>4, FS_Union
<1>6. Cardinality({}) = 0 /\ Cardinality(won) \in Nat /\ Cardinality(lost) \in Nat
  BY <1>2, FS_EmptySet, FS_CardinalityType
<1> QED BY <1>5, <1>6

\* A thread that ends tells no result anything new.
LEMMA ThreadKeeps ==
  ASSUME ResultTypeOK, ResultsInv, ReportedAsItWent, NEW t \in Pooled,
         future[t] \notin Done, \E x : future' = [future EXCEPT ![t] = x],
         UNCHANGED <<result, mlStage, unswept, overdue>>
  PROVE  ResultsInv' /\ ReportedAsItWent'
<1>1. \A u \in Pooled : future[u] \in Done => future'[u] = future[u]
  BY DEF ResultTypeOK
<1>2. ResultsInv'
  BY <1>1 DEF ResultsInv
<1>3. \A u \in Pooled : result'[u] \in Done => result'[u] = future'[u]
  BY <1>1 DEF ReportedAsItWent
<1>4. NodesContributed' = NodesContributed /\ FailedTasks' = FailedTasks
  BY DEF NodesContributed, FailedTasks
<1> QED BY <1>2, <1>3, <1>4 DEF ReportedAsItWent

LEMMA ExecutorStep ==
  ASSUME ExecutorIInv, [ExecutorNext]_executorVars
  PROVE  ExecutorIInv'
<1> USE TaskNames DEF ExecutorIInv
<1>0. ResultTypeOK'
  BY ResultTypesStep
<1>1. CASE Decompose \/ UNCHANGED executorVars
  <2>1. /\ UNCHANGED <<future, result, unswept, overdue>>
        /\ mlStage' = mlStage \/ (mlStage = "planning" /\ mlStage' = "planned")
    BY <1>1 DEF Decompose, executorVars
  <2>2. ResultsInv'
    BY <2>1 DEF ResultsInv
  <2>3. NodesContributed' = NodesContributed /\ FailedTasks' = FailedTasks
    BY <2>1 DEF NodesContributed, FailedTasks
  <2>4. ReportedAsItWent'
    BY <2>1, <2>3 DEF ReportedAsItWent
  <2> QED BY <1>0, <2>2, <2>4
<1>2. CASE Submit
  BY <1>0, <1>2 DEF Submit, ResultsInv, ReportedAsItWent, Done
<1>3. CASE Deadline
  BY <1>0, <1>3 DEF Deadline, ResultsInv, ReportedAsItWent, ResultTypeOK
<1>4. CASE Join
  <2>1. /\ mlStage = "joining" /\ mlStage' = "acting" /\ UNCHANGED <<future, unswept, overdue>>
        /\ \A t \in MlTask : result'[t] = IF t \in Pooled /\ result[t] = "none" THEN "timeout"
                                          ELSE result[t]
    BY <1>4 DEF Join
  <2>2. ResultsInv'
    BY <2>1 DEF ResultsInv
  <2>3. ReportedAsItWent'
    BY <2>1 DEF ResultsInv, ReportedAsItWent, Done
  <2> QED BY <1>0, <2>2, <2>3
<1>5. CASE RunAction
  <2>1. PICK outcome \in Done : result' = [result EXCEPT !["action"] = outcome]
    BY <1>5 DEF RunAction, ActionOutcome
  <2>2. /\ mlStage = "acting" /\ mlStage' = "done" /\ UNCHANGED <<future, unswept, overdue>>
        /\ \A t \in Pooled : result'[t] = result[t] /\ result[t] # "none"
        /\ result'["action"] \in Done
    BY <1>5, <2>1 DEF RunAction, ResultTypeOK, ResultsInv
  <2>3. \A t \in MlTask : result'[t] # "none"
    BY <2>2 DEF MlTask, Done
  <2>4. NodesContributed' + Cardinality(FailedTasks') = Cardinality(MlTask)
    <3>1. result' \in [MlTask -> {"none", "timeout"} \union Done]
      BY <1>0 DEF ResultTypeOK
    <3> QED BY <2>3, <3>1, TallyLaw DEF NodesContributed, FailedTasks
  <2>5. ResultsInv'
    BY <2>2 DEF ResultsInv, Done
  <2>6. ReportedAsItWent'
    BY <2>2, <2>3, <2>4 DEF ReportedAsItWent
  <2> QED BY <1>0, <2>5, <2>6
<1>6. ASSUME NEW t \in Pooled, RunLocally(t) \/ ServeTask(t) \/ ReadAnswer(t) \/ CallBreaks(t)
      PROVE  ResultsInv' /\ ReportedAsItWent'
  <2>1. /\ future[t] \notin Done /\ UNCHANGED <<result, mlStage, unswept, overdue>>
        /\ \E x : future' = [future EXCEPT ![t] = x]
    BY <1>6 DEF RunLocally, ServeTask, ReadAnswer, CallBreaks, Done
  <2> QED BY <2>1, ThreadKeeps
<1>7. ASSUME NEW t \in Pooled, CollectResults(t) PROVE ResultsInv' /\ ReportedAsItWent'
  BY <1>7 DEF CollectResults, ResultsInv, ReportedAsItWent, ResultTypeOK, Done
<1>8. ASSUME NEW t \in Pooled, Sweep(t) PROVE ResultsInv' /\ ReportedAsItWent'
  BY <1>8 DEF Sweep, ResultsInv, ReportedAsItWent, ResultTypeOK, Done
<1> QED BY <1>0, <1>1, <1>2, <1>3, <1>4, <1>5, <1>6, <1>7, <1>8 DEF ExecutorNext

-----------------------------------------------------------------------------
(* ParallelExecutor: theorems *)

\* ExecutorIInv is an invariant of a run of the pipeline with any peers.
THEOREM ExecutorInvariance == ExecutorSpec => []ExecutorIInv
<1>1. ExecutorInit => ExecutorIInv
  BY TaskNames DEF ExecutorInit, ExecutorIInv, ResultTypeOK, ResultsInv, ReportedAsItWent, Done
<1>2. ExecutorIInv /\ [ExecutorNext]_executorVars => ExecutorIInv'
  BY ExecutorStep
<1> QED BY <1>1, <1>2, PTL DEF ExecutorSpec

\* A result is that of its thread, a timeout one of a task unfinished at the deadline, and the
\* tally of the assembler counts each task once (parallel_executor.py, result_assembler.py).
THEOREM ResultsAreReported == ExecutorSpec => []ReportedAsItWent
<1>1. ExecutorIInv => ReportedAsItWent
  BY DEF ExecutorIInv
<1> QED BY <1>1, ExecutorInvariance, PTL

-----------------------------------------------------------------------------
(* BluetoothMesh: types *)

\* Copies go to known peers, one for each.
LEMMA CopiesAre ==
  ASSUME TypeOK, FloodInv, NEW n \in Node, NEW m \in MsgId, NEW hops \in 0 .. MaxHops
  PROVE  /\ Copies(n, m, hops) \subseteq Copy
         /\ \A c \in Copies(n, m, hops) : c.msg = m /\ c.to \in Neighbours(c.from)
<1>1. peers[n] \subseteq Node /\ peers[n] \subseteq Neighbours(n)
  BY DEF TypeOK, FloodInv
<1> QED BY <1>1 DEF Copies, Copy

\* Being in radio range is mutual.
LEMMA RangeIsMutual ==
  ASSUME NEW n \in Node, NEW p \in Neighbours(n)
  PROVE  p \in Node /\ n \in Neighbours(p) /\ p # n
<1>1. p \in Node /\ <<n, p>> \in InRange
  BY DEF Neighbours
<1>2. <<p, n>> \in InRange /\ n # p
  BY <1>1, RangeAssumption
<1> QED BY <1>1, <1>2 DEF Neighbours

\* A probe makes its two ends known to each other, or one to the other, and nobody else.
LEMMA ProbeLearns ==
  ASSUME TypeOK, NEW n \in Node, NEW p \in Node, Probe(n, p) \/ ProbeUnanswered(n, p)
  PROVE  /\ p \in Neighbours(n) /\ n \in Neighbours(p)
         /\ peers' \in [Node -> SUBSET Node]
         /\ \A q \in Node : peers'[q] \subseteq peers[q] \union
              (IF q = n THEN {p} ELSE IF q = p THEN {n} ELSE {})
<1>1. p \in Neighbours(n)
  BY DEF Probe, ProbeUnanswered
<1>2. n \in Neighbours(p) /\ p # n
  BY <1>1, RangeIsMutual
<1>3. peers \in [Node -> SUBSET Node]
  BY DEF TypeOK
<1>4. CASE Probe(n, p)
  <2>1. PICK f : f = [peers EXCEPT ![n] = peers[n] \union {p}]
    OBVIOUS
  <2>2. f \in [Node -> SUBSET Node] /\ f[n] = peers[n] \union {p}
        /\ \A q \in Node : q # n => f[q] = peers[q]
    BY <1>3, <2>1
  <2>3. peers' = [f EXCEPT ![p] = f[p] \union {n}]
    BY <1>4, <2>1 DEF Probe
  <2>4. /\ peers' \in [Node -> SUBSET Node] /\ peers'[p] = f[p] \union {n}
        /\ \A q \in Node : q # p => peers'[q] = f[q]
    BY <2>2, <2>3
  <2> QED BY <1>1, <1>2, <2>2, <2>4
<1>5. CASE ProbeUnanswered(n, p)
  <2>1. peers' = [peers EXCEPT ![p] = peers[p] \union {n}]
    BY <1>5 DEF ProbeUnanswered
  <2>2. /\ peers' \in [Node -> SUBSET Node] /\ peers'[p] = peers[p] \union {n}
        /\ \A q \in Node : q # p => peers'[q] = peers[q]
    BY <1>3, <2>1
  <2> QED BY <1>1, <1>2, <2>2
<1> QED BY <1>4, <1>5

LEMMA MeshTypesStep ==
  ASSUME TypeOK, FloodInv, [Next]_vars
  PROVE  TypeOK'
<1> USE DEF TypeOK
<1>1. CASE UNCHANGED vars
  BY <1>1 DEF vars
<1>2. ASSUME NEW n \in Node, NEW p \in Node, Probe(n, p) \/ ProbeUnanswered(n, p) PROVE TypeOK'
  <2>1. peers' \in [Node -> SUBSET Node]
    BY <1>2, ProbeLearns
  <2>2. faults' \in Nat /\ UNCHANGED <<origin, dest, net, seen, threads, delivered, whole>>
    BY <1>2 DEF Probe, ProbeUnanswered, Fault
  <2> QED BY <2>1, <2>2
<1>3. ASSUME NEW n \in Node, NEW m \in MsgId, NEW d \in Node \union {All}, Broadcast(n, m, d)
      PROVE  TypeOK'
  <2>1. Copies(n, m, 0) \subseteq Copy
    BY CopiesAre, BoundAssumption
  <2> QED BY <1>3, <2>1 DEF Broadcast
<1>4. ASSUME NEW c \in net, SendFails(c) \/ Skip(c) \/ Drop(c) \/ Check(c) PROVE TypeOK'
  <2>1. c.to \in Node /\ c.from \in Node
    BY DEF Copy
  <2>2. peers' \in [Node -> SUBSET Node]
    BY <1>4, <2>1 DEF SendFails, Skip, Drop, Check
  <2>3. /\ net' \subseteq Copy /\ threads' \subseteq Copy /\ faults' \in Nat
        /\ UNCHANGED <<origin, dest, seen, delivered, whole>>
    BY <1>4 DEF SendFails, Skip, Drop, Check, Fault
  <2> QED BY <2>2, <2>3
<1>5. ASSUME NEW c \in threads, Accept(c) PROVE TypeOK'
  <2>1. PICK n, m : n = c.to /\ m = c.msg
    OBVIOUS
  <2>2. n \in Node /\ m \in MsgId /\ c.hops \in 0 .. MaxHops
    BY <2>1 DEF Copy
  <2>3. net' \subseteq Copy
    <3>1. CASE Relays(c)
      <4>1. c.hops + 1 \in 0 .. MaxHops
        BY <2>2, <3>1, BoundAssumption DEF Relays
      <4>2. Copies(n, m, c.hops + 1) \subseteq Copy
        BY <2>2, <4>1, CopiesAre
      <4> QED BY <1>5, <2>1, <3>1, <4>2 DEF Accept
    <3>2. CASE ~Relays(c)
      BY <1>5, <3>2 DEF Accept
    <3> QED BY <3>1, <3>2
  <2>4. delivered' \in [Node -> [MsgId -> Nat]]
    BY <1>5, <2>1, <2>2 DEF Accept
  <2>5. seen' \in [Node -> SUBSET MsgId]
    BY <1>5, <2>1, <2>2 DEF Accept
  <2>6. threads' \subseteq Copy /\ UNCHANGED <<peers, origin, dest, whole, faults>>
    BY <1>5 DEF Accept
  <2> QED BY <2>3, <2>4, <2>5, <2>6
<1> QED BY <1>1, <1>2, <1>3, <1>4, <1>5 DEF Next

-----------------------------------------------------------------------------
(* BluetoothMesh: what is handled *)

LEMMA FloodStep ==
  ASSUME TypeOK, FloodInv, [Next]_vars
  PROVE  FloodInv'
<1>1. CASE UNCHANGED vars
  BY <1>1 DEF vars, FloodInv, PassedOn
<1>2. ASSUME NEW n \in Node, NEW p \in Node, Probe(n, p) \/ ProbeUnanswered(n, p)
      PROVE  FloodInv'
  <2>1. /\ p \in Neighbours(n) /\ n \in Neighbours(p)
        /\ \A q \in Node : peers'[q] \subseteq peers[q] \union
             (IF q = n THEN {p} ELSE IF q = p THEN {n} ELSE {})
    BY <1>2, ProbeLearns
  <2>2. \A q \in Node : peers'[q] \subseteq Neighbours(q)
    BY <2>1 DEF FloodInv
  <2>3. UNCHANGED <<origin, net, seen, threads>>
    BY <1>2 DEF Probe, ProbeUnanswered
  <2> QED BY <2>2, <2>3 DEF FloodInv, PassedOn
<1>3. ASSUME NEW n \in Node, NEW m \in MsgId, NEW d \in Node \union {All}, Broadcast(n, m, d)
      PROVE  FloodInv'
  <2>1. /\ origin[m] = NoNode /\ origin' = [origin EXCEPT ![m] = n]
        /\ seen' = [seen EXCEPT ![n] = seen[n] \union {m}]
        /\ net' = net \union Copies(n, m, 0) /\ UNCHANGED <<peers, threads>>
    BY <1>3 DEF Broadcast
  <2>2. \A c \in Copies(n, m, 0) : c.msg = m /\ c.to \in Neighbours(c.from)
    BY CopiesAre, BoundAssumption
  <2>3. origin'[m] = n /\ n # NoNode /\ \A k \in MsgId : k # m => origin'[k] = origin[k]
    BY <2>1, NodeAssumption DEF TypeOK
  <2>4. \A c \in net \union threads : c.msg \in MsgId /\ origin'[c.msg] = origin[c.msg]
    BY <2>1, <2>3 DEF TypeOK, Copy, FloodInv
  <2>5. \A c \in net' \union threads' : origin'[c.msg] # NoNode /\ c.to \in Neighbours(c.from)
    BY <2>1, <2>2, <2>3, <2>4 DEF FloodInv
  <2>6. \A c \in threads' : PassedOn(c)'
    BY <2>1, <2>4 DEF FloodInv, PassedOn
  <2>7. \A k \in MsgId : origin'[k] # NoNode => k \in seen'[origin'[k]]
    <3>1. \A q \in Node : seen[q] \subseteq seen'[q]
      BY <2>1 DEF TypeOK
    <3>2. m \in seen'[n]
      BY <2>1 DEF TypeOK
    <3>3. \A k \in MsgId : origin[k] # NoNode => origin[k] \in Node
      BY DEF TypeOK
    <3> QED BY <2>3, <3>1, <3>2, <3>3 DEF FloodInv
  <2> QED BY <2>1, <2>5, <2>6, <2>7 DEF FloodInv
<1>4. ASSUME NEW c \in net, SendFails(c) \/ Skip(c) \/ Drop(c) \/ Check(c) PROVE FloodInv'
  <2>1. c.to \in Node /\ c.from \in Node /\ c.from \in Neighbours(c.to)
    BY RangeIsMutual DEF FloodInv, TypeOK, Copy
  <2>2. \A q \in Node : peers'[q] \subseteq Neighbours(q)
    BY <1>4, <2>1 DEF SendFails, Skip, Drop, Check, FloodInv, TypeOK
  <2>3. /\ net' \subseteq net /\ threads' \subseteq threads \union {c}
        /\ threads' # threads => PassedOn(c)
        /\ UNCHANGED <<origin, seen>>
    BY <1>4 DEF SendFails, Skip, Drop, Check
  <2> QED BY <2>2, <2>3 DEF FloodInv, PassedOn
<1>5. ASSUME NEW c \in threads, Accept(c) PROVE FloodInv'
  <2>1. PICK n, m : n = c.to /\ m = c.msg
    OBVIOUS
  <2>2. n \in Node /\ m \in MsgId /\ c.hops \in 0 .. MaxHops /\ origin[m] # NoNode
    BY <2>1 DEF TypeOK, Copy, FloodInv
  <2>3. \A x \in net' : x \in net \/ (x.msg = m /\ x.to \in Neighbours(x.from))
    <3>1. CASE Relays(c)
      <4>1. c.hops + 1 \in 0 .. MaxHops
        BY <2>2, <3>1, BoundAssumption DEF Relays
      <4>2. \A x \in Copies(n, m, c.hops + 1) : x.msg = m /\ x.to \in Neighbours(x.from)
        BY <2>2, <4>1, CopiesAre
      <4> QED BY <1>5, <2>1, <3>1, <4>2 DEF Accept
    <3>2. CASE ~Relays(c)
      BY <1>5, <3>2 DEF Accept
    <3> QED BY <3>1, <3>2
  <2>4. /\ threads' \subseteq threads /\ UNCHANGED <<peers, origin>>
        /\ \A q \in Node : seen[q] \subseteq seen'[q]
    BY <1>5 DEF Accept, TypeOK
  <2>5. \A k \in MsgId : origin[k] # NoNode => origin[k] \in Node
    BY DEF TypeOK
  <2> QED BY <2>2, <2>3, <2>4, <2>5 DEF FloodInv, PassedOn
<1> QED BY <1>1, <1>2, <1>3, <1>4, <1>5 DEF Next

LEMMA HandledStep ==
  ASSUME TypeOK, FloodInv, HandledAsMeant, [Next]_vars
  PROVE  HandledAsMeant'
<1>1. ASSUME NEW n \in Node, NEW m \in MsgId, NEW d \in Node \union {All}, Broadcast(n, m, d)
      PROVE  HandledAsMeant'
  <2>1. /\ origin[m] = NoNode /\ origin' = [origin EXCEPT ![m] = n]
        /\ dest' = [dest EXCEPT ![m] = d] /\ delivered' = delivered
        /\ seen' = [seen EXCEPT ![n] = seen[n] \union {m}]
    BY <1>1 DEF Broadcast
  <2>2. ASSUME NEW p \in Node, NEW k \in MsgId, delivered'[p][k] > 0
        PROVE  /\ origin'[k] \notin {p, NoNode} /\ dest'[k] \in {All, p}
               /\ k \in seen'[p] /\ k \in Announcing
    <3>1. k # m
      BY <2>1, <2>2 DEF HandledAsMeant
    <3> QED BY <2>1, <2>2, <3>1 DEF HandledAsMeant, TypeOK
  <2> QED BY <2>2 DEF HandledAsMeant
<1>2. ASSUME NEW c \in threads, Accept(c) PROVE HandledAsMeant'
  <2>1. PICK n, m : n = c.to /\ m = c.msg
    OBVIOUS
  <2>2. n \in Node /\ m \in MsgId
    BY <2>1 DEF TypeOK, Copy
  <2>3. origin[m] \notin {n, NoNode} /\ m \in Announcing
    BY <2>1 DEF FloodInv, PassedOn
  <2>4. /\ UNCHANGED <<origin, dest>> /\ seen' = [seen EXCEPT ![n] = seen[n] \union {m}]
        /\ delivered' = IF dest[m] \in {All, n}
                        THEN [delivered EXCEPT ![n][m] = delivered[n][m] + 1] ELSE delivered
    BY <1>2, <2>1 DEF Accept
  <2>5. ASSUME NEW p \in Node, NEW k \in MsgId, delivered'[p][k] > 0
        PROVE  /\ origin[k] \notin {p, NoNode} /\ dest[k] \in {All, p}
               /\ k \in seen'[p] /\ k \in Announcing
    <3>1. CASE p = n /\ k = m /\ dest[m] \in {All, n}
      BY <2>2, <2>3, <2>4, <3>1 DEF TypeOK
    <3>2. CASE ~(p = n /\ k = m /\ dest[m] \in {All, n})
      <4>1. delivered'[p][k] = delivered[p][k]
        BY <2>2, <2>4, <3>2 DEF TypeOK
      <4>2. seen[p] \subseteq seen'[p]
        BY <2>4 DEF TypeOK
      <4> QED BY <2>5, <4>1, <4>2 DEF HandledAsMeant
    <3> QED BY <3>1, <3>2
  <2> QED BY <2>4, <2>5 DEF HandledAsMeant
<1>3. ASSUME ~ \E n \in Node, m \in MsgId, d \in Node \union {All} : Broadcast(n, m, d),
             ~ \E c \in threads : Accept(c)
      PROVE  HandledAsMeant'
  <2>1. UNCHANGED <<origin, dest, seen, delivered>>
    BY <1>3 DEF Next, vars, Probe, ProbeUnanswered, SendFails, Skip, Drop, Check
  <2> QED BY <2>1 DEF HandledAsMeant
<1> QED BY <1>1, <1>2, <1>3

-----------------------------------------------------------------------------
(* BluetoothMesh: theorems *)

\* MeshIInv is an invariant of any devices and messages, any radio graph and any hops.
THEOREM MeshInvariance == Spec => []MeshIInv
<1>1. Init => MeshIInv
  BY DEF Init, MeshIInv, TypeOK, FloodInv, HandledAsMeant
<1>2. MeshIInv /\ [Next]_vars => MeshIInv'
  BY MeshTypesStep, FloodStep, HandledStep DEF MeshIInv
<1> QED BY <1>1, <1>2, PTL DEF Spec

\* The types, and that no copy makes more than MaxHops hops (bluetooth_mesh.py:99-105).
THEOREM MeshTypeCorrect == Spec => []TypeOK
<1>1. MeshIInv => TypeOK
  BY DEF MeshIInv
<1> QED BY <1>1, MeshInvariance, PTL

\* A device handles what others broadcast and meant for it, and has seen what it handled
\* (bluetooth_mesh.py:81-105, bluetooth_transport.py:275-288).
THEOREM MessagesAreMeant == Spec => []HandledAsMeant
<1>1. MeshIInv => HandledAsMeant
  BY DEF MeshIInv
<1> QED BY <1>1, MeshInvariance, PTL
=============================================================================
