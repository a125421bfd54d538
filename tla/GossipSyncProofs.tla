------------------------- MODULE GossipSyncProofs -------------------------
(***************************************************************************)
(* Proofs about GossipSync for any set of nodes, any bound on readings and *)
(* faults and any batch size.  IInv is inductive; the safety properties    *)
(* and the refinement of ReadingReplicas follow from it.                   *)
(***************************************************************************)
EXTENDS GossipSync, TLAPS

\* A fetch takes at most the rows it was asked about.
LEMMA NewestSubset == ASSUME NEW S, NEW k PROVE Newest(S, k) \subseteq S
BY DEF Newest

\* The initial state satisfies the inductive invariant.
LEMMA InitIInv == Init => IInv
<1> SUFFICES ASSUME Init PROVE IInv
  OBVIOUS
<1>1. TypeOK
  BY BoundAssumption DEF Init, TypeOK, Row, Stage, Reading, Payload
<1>2. RowsInv
  BY NodeAssumption DEF Init, RowsInv, RowOK, Holders
<1>3. PushInv
  BY DEF Init, PushInv, PushOK
<1>4. WireInv /\ FaultFreeInv
  BY DEF Init, WireInv, FaultFreeInv, FaultFreeOK
<1> QED BY <1>1, <1>2, <1>3, <1>4 DEF IInv

\* Every step preserves the types.
LEMMA TypeStep == TypeOK /\ PushInv /\ [Next]_vars => TypeOK'
<1> SUFFICES ASSUME TypeOK, PushInv, [Next]_vars PROVE TypeOK'
  OBVIOUS
<1> USE DEF TypeOK, Row, Stage
<1>1. ASSUME NEW n \in Node, SaveReading(n) PROVE TypeOK'
  <2> PICK r \in Reading : SaveReading(n)!2!(r)
    BY <1>1 DEF SaveReading
  <2> QED BY <1>1 DEF SaveReading
<1>2. ASSUME NEW n \in Node, NEW peers \in SUBSET Node, StartRound(n, peers) PROVE TypeOK'
  BY <1>2 DEF StartRound
<1>3. ASSUME NEW n \in Node, NEW p \in Node, FetchUnsynced(n, p) PROVE TypeOK'
  <2>1. Newest(Unsynced(n), Limit) \subseteq Reading
    BY NewestSubset DEF Unsynced
  <2>2. batch' \in [Node -> SUBSET Reading]
    BY <1>3, <2>1 DEF FetchUnsynced
  <2>3. todo' \in [Node -> SUBSET Node]
    BY <1>3 DEF FetchUnsynced
  <2>4. stage' \in [Node -> Stage] 
    BY <1>3 DEF FetchUnsynced
  <2>5. target' \in [Node -> Node \union {NoNode}]
    BY <1>3 DEF FetchUnsynced
  <2> QED BY <1>3, <2>2, <2>3, <2>4, <2>5 DEF FetchUnsynced
<1>4. ASSUME NEW n \in Node, PushFails(n) PROVE TypeOK'
  BY <1>4 DEF PushFails
<1>5. ASSUME NEW n \in Node, PushSends(n) PROVE TypeOK'
  <2>0. target[n] \in Node
    BY <1>5 DEF PushSends, PushInv, PushOK
  <2>1. handed' \in [Reading -> SUBSET Node]
    BY <1>5, <2>0 DEF PushSends
  <2>2. stage' \in [Node -> Stage]
    BY <1>5 DEF PushSends
  <2>3. wire' \subseteq Payload
    BY <1>5, <2>0 DEF PushSends, Payload
  <2> QED BY <1>5, <2>1, <2>2, <2>3 DEF PushSends
<1>6. ASSUME NEW n \in Node, MarkSynced(n) PROVE TypeOK'
  BY <1>6 DEF MarkSynced, MarkRow
<1>7. ASSUME NEW n \in Node, MarkFails(n) PROVE TypeOK'
  BY <1>7, BoundAssumption DEF MarkFails, MarkRow, Fault
<1>8. ASSUME NEW n \in Node, EndPush(n) PROVE TypeOK'
  BY <1>8 DEF EndPush
<1>9. ASSUME NEW n \in Node, CrashRestart(n) PROVE TypeOK'
  BY <1>9, BoundAssumption DEF CrashRestart, Fault
<1>10. ASSUME NEW m \in wire, SaveIncoming(m) PROVE TypeOK'
  BY <1>10 DEF SaveIncoming, HandleRow, ReceivedFlag, Payload
<1>11. ASSUME NEW m \in wire, SaveFails(m) PROVE TypeOK'
  BY <1>11, BoundAssumption DEF SaveFails, HandleRow, Fault, Payload
<1>14. ASSUME NEW m \in wire, SaveFallsBack(m) PROVE TypeOK'
  BY <1>14, BoundAssumption DEF SaveFallsBack, HandleRow, FallbackFlag, Fault, Payload
<1>12. ASSUME NEW m \in wire, LosePayload(m) PROVE TypeOK'
  BY <1>12, BoundAssumption DEF LosePayload, pushVars, Fault
<1>13. ASSUME UNCHANGED vars PROVE TypeOK'
  BY <1>13 DEF vars
<1> QED
  BY <1>1, <1>2, <1>3, <1>4, <1>5, <1>6, <1>7, <1>8, <1>9, <1>10, <1>11, <1>12, <1>13, <1>14
     DEF Next, Push, Handle

\* Every step preserves the agreement of rows, owners and history.
LEMMA RowsStep == IInv /\ [Next]_vars => RowsInv'
<1> SUFFICES ASSUME IInv, [Next]_vars, NEW r \in Reading PROVE RowOK(r)'
  BY DEF RowsInv
<1> USE DEF IInv, RowsInv, RowOK, Holders
<1>1. ASSUME NEW n \in Node, SaveReading(n) PROVE RowOK(r)'
  <2>1. PICK q \in Reading : SaveReading(n)!2!(q)
    BY <1>1 DEF SaveReading
  <2>2. \A p \in Node, s \in Reading :
          table'[p][s] = IF p = n /\ s = q THEN "unsynced" ELSE table[p][s]
    BY <2>1 DEF TypeOK
  <2> QED BY <1>1, <2>1, <2>2, NodeAssumption DEF SaveReading, TypeOK
<1>2. ASSUME NEW n \in Node, PushSends(n) PROVE RowOK(r)'
  BY <1>2, NodeAssumption DEF PushSends, PushInv, PushOK, Unsynced, TypeOK
<1>3. ASSUME NEW n \in Node, MarkSynced(n) PROVE RowOK(r)'
  <2>1. PICK q \in Reading : MarkRow(n, q, "synced")
    BY <1>3 DEF MarkSynced
  <2>2. \A p \in Node, s \in Reading :
          table'[p][s] = IF p = n /\ s = q THEN "synced" ELSE table[p][s]
    BY <2>1 DEF MarkRow, TypeOK
  <2>3. table[n][q] # "absent" /\ handed[q] # {}
    BY <2>1 DEF MarkRow, PushInv, PushOK
  <2> QED BY <1>3, <2>1, <2>2, <2>3, NodeAssumption DEF MarkSynced, MarkRow, TypeOK
<1>4. ASSUME NEW n \in Node, MarkFails(n) PROVE RowOK(r)'
  <2>1. PICK q \in Reading : MarkRow(n, q, table[n][q])
    BY <1>4 DEF MarkFails
  <2>2. \A p \in Node, s \in Reading : table'[p][s] = table[p][s]
    BY <2>1 DEF MarkRow, TypeOK
  <2> QED BY <1>4, <2>1, <2>2, BoundAssumption DEF MarkFails, MarkRow, Fault, TypeOK
<1>5. ASSUME NEW m \in wire, SaveIncoming(m) PROVE RowOK(r)'
  <2>1. PICK q \in Reading : HandleRow(m, q, "synced")
    BY <1>5 DEF SaveIncoming, ReceivedFlag
  <2>2. m.to \in Node /\ q \in m.recs
    BY <2>1 DEF HandleRow, TypeOK, Payload
  <2>3. \A p \in Node, s \in Reading :
          table'[p][s] = IF p = m.to /\ s = q THEN "synced" ELSE table[p][s]
    BY <2>1, <2>2 DEF HandleRow, TypeOK
  <2>4. owner[q] \in Node /\ handed[q] # {}
    BY <2>2 DEF WireInv
  <2> QED BY <1>5, <2>1, <2>2, <2>3, <2>4, NodeAssumption DEF SaveIncoming, HandleRow, TypeOK
<1>8. ASSUME NEW m \in wire, SaveFallsBack(m) PROVE RowOK(r)'
  <2>1. PICK q \in Reading : HandleRow(m, q, "unsynced") /\ fallen' = fallen \union {q}
    BY <1>8 DEF SaveFallsBack, FallbackFlag
  <2>2. m.to \in Node /\ q \in m.recs
    BY <2>1 DEF HandleRow, TypeOK, Payload
  <2>3. \A p \in Node, s \in Reading :
          table'[p][s] = IF p = m.to /\ s = q THEN "unsynced" ELSE table[p][s]
    BY <2>1, <2>2 DEF HandleRow, TypeOK
  <2>4. owner[q] \in Node /\ handed[q] # {}
    BY <2>2 DEF WireInv
  <2>5. faults' = faults + 1 /\ owner' = owner /\ handed' = handed
    BY <1>8, <2>1 DEF SaveFallsBack, Fault, HandleRow
  <2> QED BY <2>1, <2>2, <2>3, <2>4, <2>5, NodeAssumption DEF TypeOK
<1>6. ASSUME NEW m \in wire, SaveFails(m) PROVE RowOK(r)'
  <2>1. PICK q \in Reading : HandleRow(m, q, table[m.to][q])
    BY <1>6 DEF SaveFails
  <2>2. m.to \in Node
    BY DEF TypeOK, Payload
  <2>3. \A p \in Node, s \in Reading : table'[p][s] = table[p][s]
    BY <2>1, <2>2 DEF HandleRow, TypeOK
  <2> QED BY <1>6, <2>1, <2>3 DEF SaveFails, Fault, HandleRow, TypeOK
<1>7. ASSUME UNCHANGED <<owner, table, handed, fallen>>, faults' = faults \/ Fault
      PROVE  RowOK(r)'
  BY <1>7 DEF Fault, TypeOK
<1> QED
  BY <1>1, <1>2, <1>3, <1>4, <1>5, <1>6, <1>7, <1>8
     DEF Next, Push, Handle, vars, StartRound, FetchUnsynced, PushFails, EndPush,
         CrashRestart, LosePayload

\* Every step preserves what the push threads rely on.
LEMMA PushStep == IInv /\ [Next]_vars => PushInv'
<1> SUFFICES ASSUME IInv, [Next]_vars, NEW k \in Node PROVE PushOK(k)'
  BY DEF PushInv
<1> USE DEF IInv, PushInv, PushOK, Unsynced, TypeOK
<1>1. ASSUME NEW n \in Node, SaveReading(n) PROVE PushOK(k)'
  <2>1. PICK q \in Reading : SaveReading(n)!2!(q)
    BY <1>1 DEF SaveReading
  <2>2. owner[q] = NoNode /\ handed[q] = {} /\ table[k][q] = "absent"
    BY <2>1 DEF RowsInv, RowOK, Holders
  <2>3. \A s \in Reading \ {q} : table'[k][s] = table[k][s] /\ owner'[s] = owner[s]
    BY <2>1
  <2> QED BY <1>1, <2>1, <2>2, <2>3 DEF SaveReading
<1>2. ASSUME NEW n \in Node, NEW peers \in SUBSET Node, StartRound(n, peers)
      PROVE  PushOK(k)'
  BY <1>2 DEF StartRound
<1>3. ASSUME NEW n \in Node, NEW p \in Node, FetchUnsynced(n, p) PROVE PushOK(k)'
  <2>1. Newest(Unsynced(n), Limit) \subseteq Unsynced(n)
    BY NewestSubset
  <2>2. CASE k # n
    BY <1>3, <2>2 DEF FetchUnsynced
  <2>3. CASE k = n /\ Unsynced(n) = {}
    BY <1>3, <2>3 DEF FetchUnsynced
  <2>4. CASE k = n /\ Unsynced(n) # {}
    <3>1. stage'[n] = "connecting" /\ target'[n] = p
          /\ batch'[n] = Newest(Unsynced(n), Limit) /\ todo'[n] \subseteq todo[n]
      BY <1>3, <2>4 DEF FetchUnsynced
    <3>2. \A r \in Unsynced(n) : owner[r] = n \/ r \in fallen
      BY DEF RowsInv, RowOK
    <3>3. \A r \in batch'[n] : table'[n][r] = "unsynced" /\ (owner'[r] = n \/ r \in fallen')
      BY <1>3, <2>1, <3>1, <3>2 DEF FetchUnsynced
    <3> QED BY <1>3, <2>4, <3>1, <3>3 DEF FetchUnsynced
  <2> QED BY <2>2, <2>3, <2>4
<1>4. ASSUME NEW n \in Node, PushFails(n) PROVE PushOK(k)'
  BY <1>4 DEF PushFails
<1>5. ASSUME NEW n \in Node, PushSends(n) PROVE PushOK(k)'
  <2>2. \A r \in Reading : handed[r] # {} => handed'[r] # {}
    BY <1>5 DEF PushSends
  <2>3. \A r \in batch[n] : handed'[r] # {}
    BY <1>5 DEF PushSends
  <2> QED BY <1>5, <2>2, <2>3 DEF PushSends
<1>6. ASSUME NEW n \in Node, NEW r \in Reading,
             NEW flag \in {"synced", table[n][r]}, MarkRow(n, r, flag)
      PROVE  PushOK(k)'
  <2>1. CASE k # n
    BY <1>6, <2>1 DEF MarkRow
  <2>2. CASE k = n
    BY <1>6, <2>2 DEF MarkRow
  <2> QED BY <2>1, <2>2
<1>7. ASSUME NEW n \in Node, EndPush(n) PROVE PushOK(k)'
  BY <1>7 DEF EndPush
<1>8. ASSUME NEW n \in Node, CrashRestart(n) PROVE PushOK(k)'
  BY <1>8 DEF CrashRestart
<1>9. ASSUME NEW m \in wire, NEW q \in Reading, NEW flag, HandleRow(m, q, flag),
             flag # "absent" \/ flag = table[m.to][q], fallen \subseteq fallen'
      PROVE  PushOK(k)'
  <2>1. m.to \in Node /\ (owner[q] = m.to => q \in fallen)
    BY <1>9 DEF HandleRow, Payload, WireInv
  <2>2. \A s \in Reading : table[k][s] # "absent" => table'[k][s] # "absent"
    BY <1>9, <2>1 DEF HandleRow
  <2>3. \A s \in Reading : s \notin fallen /\ owner[s] = k => table'[k][s] = table[k][s]
    BY <1>9, <2>1 DEF HandleRow
  <2> QED BY <1>9, <2>2, <2>3 DEF HandleRow
<1>10. ASSUME UNCHANGED <<owner, table, handed, fallen, pushVars>> PROVE PushOK(k)'
  BY <1>10 DEF pushVars
<1>11. ASSUME NEW n \in Node, MarkSynced(n) \/ MarkFails(n) PROVE PushOK(k)'
  <2>1. PICK r \in Reading : MarkRow(n, r, "synced") \/ MarkRow(n, r, table[n][r])
    BY <1>11, Zenon DEF MarkSynced, MarkFails
  <2> QED BY <2>1, <1>6, Zenon
<1>12. ASSUME NEW m \in wire, SaveIncoming(m) \/ SaveFallsBack(m) \/ SaveFails(m)
       PROVE  PushOK(k)'
  <2>1. fallen \subseteq fallen'
    BY <1>12 DEF SaveIncoming, SaveFallsBack, SaveFails
  <2>2. PICK q \in Reading : \/ HandleRow(m, q, ReceivedFlag) \/ HandleRow(m, q, FallbackFlag)
                             \/ HandleRow(m, q, table[m.to][q])
    BY <1>12 DEF SaveIncoming, SaveFallsBack, SaveFails
  <2>3. ReceivedFlag # "absent" /\ FallbackFlag # "absent"
    BY DEF ReceivedFlag, FallbackFlag
  <2> QED BY <2>1, <2>2, <2>3, <1>9, Zenon
<1> QED
  BY <1>1, <1>2, <1>3, <1>4, <1>5, <1>7, <1>8, <1>10, <1>11, <1>12
     DEF Next, Push, Handle, vars, LosePayload, pushVars

\* Every step preserves what payloads carry.
LEMMA WireStep == IInv /\ [Next]_vars => WireInv'
<1> SUFFICES ASSUME IInv, [Next]_vars PROVE WireInv'
  OBVIOUS
<1> USE DEF IInv, WireInv
<1>1. ASSUME NEW n \in Node, SaveReading(n) PROVE WireInv'
  <2>1. PICK q \in Reading : SaveReading(n)!2!(q)
    BY <1>1 DEF SaveReading
  <2> QED BY <1>1, <2>1, NodeAssumption DEF SaveReading, TypeOK, Payload
<1>2. ASSUME NEW n \in Node, PushSends(n) PROVE WireInv'
  <2>1. \A r \in batch[n] : owner[r] \in Node /\ (owner[r] = n \/ r \in fallen)
    BY <1>2 DEF PushSends, PushInv, PushOK, RowsInv, RowOK, Holders, TypeOK
  <2>2. target[n] \in Node \ {n}
    BY <1>2 DEF PushSends, PushInv, PushOK
  <2>3. \A r \in Reading : handed[r] \subseteq handed'[r]
    BY <1>2 DEF PushSends, TypeOK
  <2>4. \A r \in batch[n] : target[n] \in handed'[r]
    BY <1>2 DEF PushSends, TypeOK
  <2>5. owner' = owner /\ fallen' = fallen
        /\ wire' = wire \union {[to |-> target[n], recs |-> batch[n]]}
    BY <1>2 DEF PushSends
  <2> QED BY <2>1, <2>2, <2>3, <2>4, <2>5 DEF TypeOK, Payload
<1>3. ASSUME NEW m \in wire, NEW q \in Reading, NEW flag, HandleRow(m, q, flag),
             fallen \subseteq fallen'
      PROVE  WireInv'
  <2>1. [m EXCEPT !.recs = @ \ {q}].to = m.to
        /\ [m EXCEPT !.recs = @ \ {q}].recs = m.recs \ {q}
    BY DEF TypeOK, Payload
  <2> QED BY <1>3, <2>1 DEF HandleRow
<1>4. ASSUME wire' \subseteq wire, UNCHANGED <<owner, handed, fallen>> PROVE WireInv'
  BY <1>4
<1>5. ASSUME NEW m \in wire, SaveIncoming(m) \/ SaveFallsBack(m) \/ SaveFails(m)
      PROVE  WireInv'
  <2>1. fallen \subseteq fallen'
    BY <1>5 DEF SaveIncoming, SaveFallsBack, SaveFails
  <2>2. PICK q \in Reading : \/ HandleRow(m, q, ReceivedFlag) \/ HandleRow(m, q, FallbackFlag)
                             \/ HandleRow(m, q, table[m.to][q])
    BY <1>5 DEF SaveIncoming, SaveFallsBack, SaveFails
  <2> QED BY <2>1, <2>2, <1>3
<1> QED
  BY <1>1, <1>2, <1>4, <1>5
     DEF Next, Push, Handle, vars, StartRound, FetchUnsynced,
         PushFails, MarkSynced, MarkFails, MarkRow, EndPush, CrashRestart, LosePayload

\* Every step preserves what holds of handed readings while nothing failed.
LEMMA FaultFreeStep == IInv /\ [Next]_vars => FaultFreeInv'
<1> SUFFICES ASSUME IInv, [Next]_vars, NEW r \in Reading, faults' = 0, handed'[r] # {}
             PROVE  /\ Marked(r)'
                    /\ \A p, q \in handed'[r] : p = q
                    /\ Saved(r)' \/ InFlight(r)'
  BY DEF FaultFreeInv, FaultFreeOK
<1> DEFINE Goal == Marked(r)' /\ (\A p, q \in handed'[r] : p = q) /\ (Saved(r)' \/ InFlight(r)')
<1> SUFFICES Goal
  OBVIOUS
<1> USE DEF IInv, FaultFreeInv, FaultFreeOK, TypeOK
<1>0. /\ owner[r] # NoNode => owner[r] \in Node
      /\ handed[r] # {} => owner[r] # NoNode
      /\ faults = 0 => fallen = {}
  BY DEF RowsInv, RowOK
<1>1. ASSUME NEW n \in Node, SaveReading(n) PROVE Goal
  <2>1. PICK q \in Reading : SaveReading(n)!2!(q)
    BY <1>1 DEF SaveReading
  <2>2. q # r /\ faults = 0 /\ handed[r] # {} /\ UNCHANGED handed
    BY <1>0, <1>1, <2>1 DEF SaveReading
  <2>3. owner'[r] = owner[r] /\ \A p \in Node : table'[p][r] = table[p][r]
    BY <2>1, <2>2
  <2> QED BY <1>0, <1>1, <2>2, <2>3 DEF SaveReading, Marked, Saved, InFlight
<1>2. ASSUME NEW n \in Node, PushSends(n), r \in batch[n] PROVE Goal
  <2>1. owner[r] = n /\ table[n][r] = "unsynced"
    BY <1>0, <1>2 DEF PushSends, PushInv, PushOK
  <2>2. handed[r] = {}
    BY <1>2, <2>1 DEF PushSends, Marked
  <2>3. handed'[r] = {target[n]}
    BY <1>2, <2>2 DEF PushSends
  <2>4. Marked(r)'
    BY <1>2, <2>1 DEF PushSends, Marked
  <2>5. InFlight(r)'
    <3> DEFINE payload == [to |-> target[n], recs |-> batch[n]]
    <3>1. payload \in wire' /\ r \in payload.recs
      BY <1>2 DEF PushSends
    <3> QED BY <3>1 DEF InFlight
  <2> QED BY <2>3, <2>4, <2>5
<1>3. ASSUME NEW n \in Node, PushSends(n), r \notin batch[n] PROVE Goal
  <2>1. handed'[r] = handed[r] /\ faults = 0
    BY <1>3 DEF PushSends
  <2>2. Marked(r)'
    BY <1>3, <1>0, <2>1 DEF PushSends, Marked
  <2>3. Saved(r)' \/ InFlight(r)'
    BY <1>3, <2>1 DEF PushSends, Saved, InFlight
  <2> QED BY <2>1, <2>2, <2>3
<1>4. ASSUME NEW n \in Node, MarkSynced(n) PROVE Goal
  <2>1. PICK q \in Reading : MarkRow(n, q, "synced")
    BY <1>4 DEF MarkSynced
  <2>2. \A p \in Node, s \in Reading :
          table'[p][s] = IF p = n /\ s = q THEN "synced" ELSE table[p][s]
    BY <2>1 DEF MarkRow
  <2>3. faults = 0 /\ handed[r] # {} /\ UNCHANGED <<handed, owner, wire, stage>>
    BY <1>4, <2>1 DEF MarkSynced, MarkRow
  <2>4. \A s \in Reading : s # q => (s \in batch'[n] <=> s \in batch[n])
    BY <2>1 DEF MarkRow
  <2>5. \A p \in Node \ {n} : batch'[p] = batch[p]
    BY <2>1 DEF MarkRow
  <2>6. Marked(r)'
    BY <1>0, <2>2, <2>3, <2>4, <2>5 DEF Marked
  <2>7. Saved(r)' \/ InFlight(r)'
    <3>1. Saved(r) => Saved(r)'
      BY <2>2, <2>3 DEF Saved
    <3>2. InFlight(r) => InFlight(r)'
      BY <2>3 DEF InFlight
    <3> QED BY <2>3, <3>1, <3>2
  <2> QED BY <2>3, <2>6, <2>7
<1>5. ASSUME NEW m \in wire, SaveIncoming(m) PROVE Goal
  <2>1. PICK q \in Reading : HandleRow(m, q, "synced")
    BY <1>5 DEF SaveIncoming, ReceivedFlag
  <2>2. m.to \in Node /\ q \in m.recs /\ owner[q] # m.to
    BY <1>0, <1>5, <2>1 DEF SaveIncoming, HandleRow, Payload, WireInv
  <2>3. \A p \in Node, s \in Reading :
          table'[p][s] = IF p = m.to /\ s = q THEN "synced" ELSE table[p][s]
    BY <2>1, <2>2 DEF HandleRow
  <2>4. faults = 0 /\ handed[r] # {} /\ UNCHANGED <<handed, owner, batch, stage>>
    BY <1>5, <2>1 DEF SaveIncoming, HandleRow
  <2>5. Marked(r)'
    BY <1>0, <2>3, <2>4 DEF Marked
  <2>6. CASE r = q
    BY <2>2, <2>3, <2>4, <2>5, <2>6 DEF Saved
  <2>7. CASE r # q
    <3>1. Saved(r) => Saved(r)'
      BY <2>3, <2>4 DEF Saved
    <3>2. [m EXCEPT !.recs = @ \ {q}].recs = m.recs \ {q}
      BY DEF Payload
    <3>3. ASSUME NEW x \in wire, r \in x.recs PROVE \E y \in wire' : r \in y.recs
      <4>1. CASE x # m
        BY <2>1, <3>3, <4>1 DEF HandleRow
      <4>2. CASE x = m
        <5> DEFINE rest == [m EXCEPT !.recs = @ \ {q}]
        <5>1. r \in rest.recs /\ m.recs # {q}
          BY <2>7, <3>2, <3>3, <4>2
        <5>2. rest \in wire'
          BY <2>1, <5>1 DEF HandleRow
        <5> QED BY <5>1, <5>2
      <4> QED BY <4>1, <4>2
    <3>4. InFlight(r) => InFlight(r)'
      BY <3>3 DEF InFlight
    <3> QED BY <2>4, <2>5, <3>1, <3>4
  <2> QED BY <2>6, <2>7
<1>6. ASSUME NEW n \in Node, NEW p \in Node, FetchUnsynced(n, p) PROVE Goal
  BY <1>6, <1>0 DEF FetchUnsynced, Marked, Saved, InFlight
<1>7. ASSUME NEW n \in Node, PushFails(n) PROVE Goal
  BY <1>7, <1>0 DEF PushFails, Marked, Saved, InFlight
<1>8. ASSUME NEW n \in Node, EndPush(n) PROVE Goal
  BY <1>8, <1>0 DEF EndPush, Marked, Saved, InFlight
<1>9. ASSUME UNCHANGED <<owner, table, handed, faults, wire, stage, batch>> PROVE Goal
  BY <1>9 DEF Marked, Saved, InFlight
<1>10. ~Fault
  BY DEF Fault
<1> QED
  BY <1>1, <1>2, <1>3, <1>4, <1>5, <1>6, <1>7, <1>8, <1>9, <1>10
     DEF Next, Push, Handle, vars, StartRound, MarkFails, SaveFallsBack, SaveFails,
         LosePayload, CrashRestart

-----------------------------------------------------------------------------
\* The inductive invariant holds in every reachable state.
THEOREM Invariance == Spec => []IInv
<1>1. Init => IInv
  BY InitIInv
<1>2. IInv /\ [Next]_vars => IInv'
  BY TypeStep, RowsStep, PushStep, WireStep, FaultFreeStep DEF IInv
<1> QED BY <1>1, <1>2, PTL DEF Spec

\* Every variable of DBAgent's replication keeps its type.
THEOREM TypeCorrect == Spec => []TypeOK
<1>1. IInv => TypeOK
  BY DEF IInv
<1> QED BY <1>1, Invariance, PTL

\* Received rows are not forwarded, except those the fallback INSERT stored.
THEOREM FallbackForwards == Spec => []OnlyFallbackForwards
<1>1. IInv => OnlyFallbackForwards
  BY DEF IInv, RowsInv, RowOK, OnlyFallbackForwards
<1> QED BY <1>1, Invariance, PTL

\* The sent flag of _push_to_peer: no mark without a completed sendall.
THEOREM MarkFollowsSend == Spec => []SyncedWasHanded
<1>1. IInv => SyncedWasHanded
  BY DEF IInv, RowsInv, RowOK, SyncedWasHanded
<1> QED BY <1>1, Invariance, PTL

\* One push per reading and one only, as long as nothing fails.
THEOREM OnePeerOnly == Spec => []SinglePeerWithoutFaults
<1>1. IInv => SinglePeerWithoutFaults
  BY DEF IInv, FaultFreeInv, FaultFreeOK, SinglePeerWithoutFaults
<1> QED BY <1>1, Invariance, PTL

\* A marked reading has a second copy, or one under way, as long as nothing fails.
THEOREM MarkMeansCopy == Spec => []NothingLostWithoutFaults
<1>1. IInv => NothingLostWithoutFaults
  BY DEF IInv, RowsInv, RowOK, FaultFreeInv, FaultFreeOK, NothingLostWithoutFaults,
         MarkedOnlyWhenSaved
<1> QED BY <1>1, Invariance, PTL

-----------------------------------------------------------------------------
\* The steps that touch the table, each with what it does to it.
LEMMA TableStep ==
  IInv /\ [Next]_vars =>
    \/ \E n \in Node, r \in Reading :
         /\ owner[r] = NoNode
         /\ table' = [table EXCEPT ![n][r] = "unsynced"]
    \/ \E n \in Node, r \in Reading :
         owner[r] \in Node /\ table' = [table EXCEPT ![n][r] = "synced"]
    \/ \E n \in Node, r \in Reading :
         owner[r] \in Node /\ r \in fallen' /\ table' = [table EXCEPT ![n][r] = "unsynced"]
    \/ table' = table
<1> SUFFICES ASSUME IInv, [Next]_vars
             PROVE  \/ \E n \in Node, r \in Reading :
                         /\ owner[r] = NoNode
                         /\ table' = [table EXCEPT ![n][r] = "unsynced"]
                    \/ \E n \in Node, r \in Reading :
                         owner[r] \in Node /\ table' = [table EXCEPT ![n][r] = "synced"]
                    \/ \E n \in Node, r \in Reading :
                         /\ owner[r] \in Node /\ r \in fallen'
                         /\ table' = [table EXCEPT ![n][r] = "unsynced"]
                    \/ table' = table
  OBVIOUS
<1> USE DEF IInv
<1>1. ASSUME NEW n \in Node, SaveReading(n)
      PROVE  \E r \in Reading : owner[r] = NoNode
                               /\ table' = [table EXCEPT ![n][r] = "unsynced"]
  BY <1>1 DEF SaveReading
<1>2. ASSUME NEW n \in Node, MarkSynced(n)
      PROVE  \E r \in Reading : owner[r] \in Node
                               /\ table' = [table EXCEPT ![n][r] = "synced"]
  <2>1. PICK r \in Reading : MarkRow(n, r, "synced")
    BY <1>2 DEF MarkSynced
  <2>2. owner[r] \in Node
    BY <2>1 DEF MarkRow, PushInv, PushOK, RowsInv, RowOK, Holders, TypeOK
  <2> QED BY <2>1, <2>2 DEF MarkRow
<1>3. ASSUME NEW m \in wire, SaveIncoming(m)
      PROVE  \E n \in Node, r \in Reading :
               owner[r] \in Node /\ table' = [table EXCEPT ![n][r] = "synced"]
  BY <1>3 DEF SaveIncoming, HandleRow, ReceivedFlag, WireInv, TypeOK, Payload
<1>4. ASSUME NEW n \in Node, MarkFails(n) PROVE table' = table
  BY <1>4 DEF MarkFails, MarkRow, TypeOK
<1>5. ASSUME NEW m \in wire, SaveFails(m) PROVE table' = table
  BY <1>5 DEF SaveFails, HandleRow, TypeOK, Payload
<1>6. ASSUME NEW m \in wire, SaveFallsBack(m)
      PROVE  \E n \in Node, r \in Reading :
               /\ owner[r] \in Node /\ r \in fallen'
               /\ table' = [table EXCEPT ![n][r] = "unsynced"]
  BY <1>6 DEF SaveFallsBack, HandleRow, FallbackFlag, WireInv, TypeOK, Payload
<1> QED
  BY <1>1, <1>2, <1>3, <1>4, <1>5, <1>6
     DEF Next, Push, Handle, vars, StartRound, FetchUnsynced, PushFails, PushSends,
         EndPush, LosePayload, CrashRestart

\* A late or repeated payload never undoes a row.
THEOREM RowsAdvance == Spec => RowsOnlyAdvance
<1>1. IInv /\ [Next]_vars =>
        \A n \in Node, r \in Reading :
          /\ table[n][r] # "absent" => table'[n][r] # "absent"
          /\ table[n][r] = "synced" => table'[n][r] = "synced" \/ r \in fallen'
  <2> SUFFICES ASSUME IInv, [Next]_vars, NEW n \in Node, NEW r \in Reading
               PROVE  /\ table[n][r] # "absent" => table'[n][r] # "absent"
                      /\ table[n][r] = "synced" => table'[n][r] = "synced" \/ r \in fallen'
    OBVIOUS
  <2> USE DEF IInv, TypeOK
  <2>1. ASSUME NEW p \in Node, NEW q \in Reading, owner[q] = NoNode,
               table' = [table EXCEPT ![p][q] = "unsynced"]
        PROVE  /\ table[n][r] # "absent" => table'[n][r] # "absent"
               /\ table[n][r] = "synced" => table'[n][r] = "synced" \/ r \in fallen'
    BY <2>1 DEF RowsInv, RowOK, Holders
  <2>2. ASSUME NEW p \in Node, NEW q \in Reading,
               table' = [table EXCEPT ![p][q] = "synced"]
        PROVE  /\ table[n][r] # "absent" => table'[n][r] # "absent"
               /\ table[n][r] = "synced" => table'[n][r] = "synced" \/ r \in fallen'
    BY <2>2
  <2>3. ASSUME NEW p \in Node, NEW q \in Reading, q \in fallen',
               table' = [table EXCEPT ![p][q] = "unsynced"]
        PROVE  /\ table[n][r] # "absent" => table'[n][r] # "absent"
               /\ table[n][r] = "synced" => table'[n][r] = "synced" \/ r \in fallen'
    BY <2>3
  <2> QED BY <2>1, <2>2, <2>3, TableStep
<1> QED BY <1>1, Invariance, PTL DEF Spec, RowsOnlyAdvance

\* A reading is offered to a peer only while its producer has it unsynced.
THEOREM NoResend == Spec => NoResendAfterMark
<1>1. IInv /\ [Next]_vars =>
        \A r \in Reading : handed'[r] # handed[r] /\ r \notin fallen
          => \E n \in Node : owner[r] = n /\ table[n][r] = "unsynced"
  <2> SUFFICES ASSUME IInv, [Next]_vars, NEW r \in Reading, handed'[r] # handed[r], r \notin fallen
               PROVE  \E n \in Node : owner[r] = n /\ table[n][r] = "unsynced"
    OBVIOUS
  <2>1. ASSUME NEW n \in Node, PushSends(n)
        PROVE  owner[r] = n /\ table[n][r] = "unsynced"
    BY <2>1 DEF PushSends, IInv, TypeOK, PushInv, PushOK
  <2> QED
    BY <2>1 DEF Next, Push, Handle, vars, SaveReading, StartRound, FetchUnsynced,
         PushFails, MarkSynced, MarkFails, MarkRow, EndPush, SaveIncoming, SaveFallsBack, SaveFails,
         HandleRow, LosePayload, CrashRestart
<1> QED BY <1>1, Invariance, PTL DEF Spec, NoResendAfterMark

-----------------------------------------------------------------------------
\* GossipSync implements ReadingReplicas under holders = the nodes with a row.
THEOREM Refinement == Spec => RefinesReplicas
<1> DEFINE H == [r \in Reading |-> Holders(r)]
<1>1. Init => Replicas!Init
  BY DEF Init, Replicas!Init, Holders
<1>2. IInv /\ [Next]_vars => [Replicas!Next]_H
  <2> SUFFICES ASSUME IInv, [Next]_vars PROVE Replicas!Next \/ H' = H
    OBVIOUS
  <2> USE DEF IInv, TypeOK
  <2>1. ASSUME NEW n \in Node, NEW r \in Reading, owner[r] = NoNode,
               table' = [table EXCEPT ![n][r] = "unsynced"]
        PROVE  Replicas!Produce(r, n)
    <3>1. Holders(r) = {}
      BY <2>1 DEF RowsInv, RowOK
    <3>2. Holders(r)' = {n}
      BY <2>1, <3>1 DEF Holders
    <3>3. \A q \in Reading \ {r} : Holders(q)' = Holders(q)
      BY <2>1 DEF Holders
    <3> QED BY <3>1, <3>2, <3>3 DEF Replicas!Produce
  <2>2. ASSUME NEW n \in Node, NEW r \in Reading, owner[r] \in Node, n \notin Holders(r),
               NEW flag \in {"synced", "unsynced"}, table' = [table EXCEPT ![n][r] = flag]
        PROVE  Replicas!Replicate(r, n)
    <3>1. Holders(r) # {}
      BY <2>2, NodeAssumption DEF RowsInv, RowOK
    <3>2. Holders(r)' = Holders(r) \union {n}
      BY <2>2 DEF Holders
    <3>3. \A q \in Reading \ {r} : Holders(q)' = Holders(q)
      BY <2>2 DEF Holders
    <3> QED BY <2>2, <3>1, <3>2, <3>3 DEF Replicas!Replicate
  <2>3. ASSUME NEW n \in Node, NEW r \in Reading, n \in Holders(r),
               NEW flag \in {"synced", "unsynced"}, table' = [table EXCEPT ![n][r] = flag]
        PROVE  H' = H
    BY <2>3 DEF Holders
  <2>4. table' = table => H' = H
    BY DEF Holders
  <2> QED BY <2>1, <2>2, <2>3, <2>4, TableStep DEF Replicas!Next
<1> QED BY <1>1, <1>2, Invariance, PTL DEF Spec, RefinesReplicas, Replicas!Spec
=============================================================================
