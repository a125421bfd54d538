----------------------------- MODULE DhtProofs -----------------------------
(***************************************************************************)
(* Proofs about how nodes find each other.  KBucket: the order of a        *)
(* k-bucket survives every interleaving of add and evict_stale, and it     *)
(* holds the last peers that were heard as long as the two do not overlap, *)
(* for any ids, bucket size, age and clock.  Kademlia: who answers pings   *)
(* is not evicted, for any nodes, any time-out and any faults.             *)
(* PeerExchange: what the TCP exchange registers, for any nodes and        *)
(* crashes.                                                                *)
(***************************************************************************)
EXTENDS KBucket, Kademlia, PeerExchange, TLAPS

\* list.pop(i) closes the gap: what was behind i moves one place forward.
LEMMA PopLaw ==
  ASSUME NEW S, NEW s \in Seq(S), NEW i \in 1..Len(s)
  PROVE  /\ RemoveAt(s, i) \in Seq(S)
         /\ Len(RemoveAt(s, i)) = Len(s) - 1
         /\ \A m \in 1..(Len(s) - 1) :
              RemoveAt(s, i)[m] = IF m < i THEN s[m] ELSE s[m + 1]
<1>0. \A a, b \in Seq(S) : \A k \in 1 .. (Len(a) + Len(b)) :
        (a \o b)[k] = IF k <= Len(a) THEN a[k] ELSE b[k - Len(a)]
  OBVIOUS
<1>1. SubSeq(s, 1, i - 1) \in Seq(S) /\ Len(SubSeq(s, 1, i - 1)) = i - 1
  OBVIOUS
<1>2. SubSeq(s, i + 1, Len(s)) \in Seq(S) /\ Len(SubSeq(s, i + 1, Len(s))) = Len(s) - i
  OBVIOUS
<1>3. RemoveAt(s, i) \in Seq(S) /\ Len(RemoveAt(s, i)) = Len(s) - 1
  <2>1. \A a, b \in Seq(S) : a \o b \in Seq(S) /\ Len(a \o b) = Len(a) + Len(b)
    OBVIOUS
  <2>2. (i - 1) + (Len(s) - i) = Len(s) - 1
    OBVIOUS
  <2> QED BY <1>1, <1>2, <2>1, <2>2 DEF RemoveAt
<1>4. ASSUME NEW m \in 1..(Len(s) - 1)
      PROVE  RemoveAt(s, i)[m] = IF m < i THEN s[m] ELSE s[m + 1]
  <2>1. CASE m < i
    <3>1. m \in 1 .. (i - 1)
      BY <2>1
    <3>2. RemoveAt(s, i)[m] = SubSeq(s, 1, i - 1)[m]
      BY <1>0, <1>1, <1>2, <3>1 DEF RemoveAt
    <3>3. SubSeq(s, 1, i - 1)[m] = s[m]
      BY <3>1
    <3> QED BY <3>2, <3>3, <2>1
  <2>2. CASE m >= i
    <3>1. RemoveAt(s, i)[m] = SubSeq(s, i + 1, Len(s))[m - (i - 1)]
      <4>1. PICK a, b : a = SubSeq(s, 1, i - 1) /\ b = SubSeq(s, i + 1, Len(s))
        OBVIOUS
      <4>2. a \in Seq(S) /\ b \in Seq(S) /\ Len(a) = i - 1 /\ Len(b) = Len(s) - i
        BY <1>1, <1>2, <4>1
      <4>3. m \in 1 .. (Len(a) + Len(b)) /\ ~(m <= Len(a))
        BY <2>2, <4>2
      <4>4. (a \o b)[m] = b[m - Len(a)]
        BY <1>0, <4>2, <4>3
      <4> QED BY <4>1, <4>2, <4>4 DEF RemoveAt
    <3>2. SubSeq(s, i + 1, Len(s))[m - (i - 1)] = s[i + 1 + (m - (i - 1)) - 1]
      BY <2>2
    <3> QED BY <3>1, <3>2, <2>2
  <2> QED BY <2>1, <2>2
<1> QED BY <1>3, <1>4

\* list.pop(0) is Tail.
LEMMA PopHeadLaw ==
  ASSUME NEW S, NEW s \in Seq(S), s # <<>>
  PROVE  /\ Tail(s) \in Seq(S)
         /\ Len(Tail(s)) = Len(s) - 1
         /\ \A m \in 1..(Len(s) - 1) : Tail(s)[m] = s[m + 1]
OBVIOUS

LEMMA AppendLaw ==
  ASSUME NEW S, NEW s \in Seq(S), NEW e \in S
  PROVE  /\ Append(s, e) \in Seq(S)
         /\ Len(Append(s, e)) = Len(s) + 1
         /\ Append(s, e)[Len(s) + 1] = e
         /\ \A m \in 1..Len(s) : Append(s, e)[m] = s[m]
OBVIOUS

LEMMA SeenNat ==
  ASSUME NEW s \in Seq(PeerEntry), NEW j \in DOMAIN s
  PROVE  s[j] \in PeerEntry /\ s[j].seen \in Nat
<1>1. s[j] \in PeerEntry
  OBVIOUS
<1> QED BY <1>1 DEF PeerEntry

LEMMA Initially == BucketInit => BucketInv
<1> SUFFICES ASSUME BucketInit PROVE BucketInv
  OBVIOUS
<1>1. DOMAIN <<>> = {}
  OBVIOUS
<1>2. BucketTypeOK
  <2>1. adding \in [id : Id \union {Nobody}, seen : Nat]
    BY DEF BucketInit, Nothing
  <2>2. <<>> \in Seq(PeerEntry)
    OBVIOUS
  <2>3. TRUE \in BOOLEAN /\ FALSE \in BOOLEAN
    OBVIOUS
  <2>4. nodes \in Seq(PeerEntry) /\ kept \in Seq(PeerEntry) /\ heard \in Seq(PeerEntry)
    BY <2>2 DEF BucketInit
  <2>5. clock \in Nat /\ now \in Nat /\ pos \in Nat /\ next \in Nat \ {0}
    BY DEF BucketInit
  <2> QED BY <2>1, <2>3, <2>4, <2>5 DEF BucketInit, BucketTypeOK
<1>3. nodes = <<>> /\ kept = <<>> /\ Latest = 0 /\ clock = 0
  BY DEF BucketInit, Latest
<1>4. OrderInv
  BY <1>1, <1>3 DEF OrderInv, Sorted, NotAfter
<1>5. AddingInv
  BY DEF BucketInit, AddingInv
<1> QED BY <1>2, <1>4, <1>5 DEF BucketInv

LEMMA Stutters == ASSUME BucketInv, UNCHANGED bucketVars PROVE BucketInv'
BY DEF bucketVars, adderVars, evictorVars, BucketInv, BucketTypeOK, AddingInv,
   OrderInv, Sorted, NotAfter, Latest, PeerEntry

\* A sequence that lost one element keeps its order and its bound, and what was
\* not after its elements from index m on still is not.
LEMMA PopKeepsOrder ==
  ASSUME NEW s \in Seq(PeerEntry), NEW r \in Seq(PeerEntry), NEW k \in Seq(PeerEntry),
         NEW m \in Nat, NEW t \in Nat,
         Sorted(s), NotAfter(s, t),
         \A i \in DOMAIN k, j \in DOMAIN s : m <= j => k[i].seen <= s[j].seen,
         Len(r) = Len(s) - 1,
         NEW p \in 1..Len(s),
         \A j \in 1..(Len(s) - 1) : r[j] = IF j < p THEN s[j] ELSE s[j + 1]
  PROVE  /\ Sorted(r) /\ NotAfter(r, t)
         /\ \A i \in DOMAIN k, j \in DOMAIN r : m <= j => k[i].seen <= r[j].seen
<1> DEFINE At(j) == IF j < p THEN j ELSE j + 1
<1>1. \A j \in DOMAIN r : At(j) \in DOMAIN s /\ r[j] = s[At(j)] /\ j <= At(j)
  OBVIOUS
<1>2. \A i, j \in DOMAIN r : i <= j => At(i) <= At(j)
  OBVIOUS
<1>3. \A j \in DOMAIN s : s[j].seen \in Nat
  BY SeenNat
<1>4. \A i \in DOMAIN k : k[i].seen \in Nat
  BY SeenNat
<1> HIDE DEF At
<1>5. Sorted(r)
  BY <1>1, <1>2 DEF Sorted
<1>6. NotAfter(r, t)
  BY <1>1 DEF NotAfter
<1>7. ASSUME NEW i \in DOMAIN k, NEW j \in DOMAIN r, m <= j
      PROVE  k[i].seen <= r[j].seen
  <2>1. At(j) \in DOMAIN s /\ At(j) \in Nat /\ j \in Nat /\ m <= At(j)
    BY <1>1, <1>7
  <2> QED BY <2>1, <1>1
<1> QED BY <1>5, <1>6, <1>7

\* A sequence that gained the latest element keeps its order and its bound.
LEMMA AppendKeepsOrder ==
  ASSUME NEW s \in Seq(PeerEntry), NEW e \in PeerEntry, NEW t \in Nat,
         Sorted(s), NotAfter(s, e.seen), e.seen <= t
  PROVE  Sorted(Append(s, e)) /\ NotAfter(Append(s, e), t)
<1>1. /\ Append(s, e) \in Seq(PeerEntry)
      /\ Len(Append(s, e)) = Len(s) + 1
      /\ Append(s, e)[Len(s) + 1] = e
      /\ \A m \in 1..Len(s) : Append(s, e)[m] = s[m]
  BY AppendLaw
<1>2. \A j \in 1..Len(s) : s[j].seen \in Nat
  BY SeenNat
<1>3. e.seen \in Nat
  BY DEF PeerEntry
<1> DEFINE r == Append(s, e)
<1> HIDE DEF r
<1>4. DOMAIN r = 1..(Len(s) + 1) /\ Len(s) \in Nat
  BY <1>1 DEF r
<1>5. \A j \in 1..Len(s) : r[j].seen = s[j].seen /\ s[j].seen <= e.seen
  BY <1>1 DEF r, NotAfter
<1>6. r[Len(s) + 1].seen = e.seen
  BY <1>1 DEF r
<1>7. Sorted(r)
  <2> SUFFICES ASSUME NEW i \in 1..(Len(s) + 1), NEW j \in 1..(Len(s) + 1), i <= j
               PROVE  r[i].seen <= r[j].seen
    BY <1>4 DEF Sorted
  <2>1. CASE j <= Len(s)
    BY <2>1, <1>5, <1>4 DEF Sorted
  <2>2. CASE j = Len(s) + 1
    <3>1. CASE i = Len(s) + 1
      BY <3>1, <2>2, <1>6, <1>3
    <3>2. CASE i \in 1..Len(s)
      BY <3>2, <2>2, <1>5, <1>6
    <3> QED BY <3>1, <3>2, <1>4
  <2> QED BY <2>1, <2>2, <1>4
<1>8. NotAfter(r, t)
  BY <1>2, <1>3, <1>4, <1>5, <1>6 DEF NotAfter
<1> QED BY <1>7, <1>8 DEF r

-----------------------------------------------------------------------------
(* Every step keeps the invariant *)

\* A step of add that takes the element at p out of self.nodes.
LEMMA TakesOut ==
  ASSUME BucketInv, NEW p \in 1..Len(nodes),
         nodes' \in Seq(PeerEntry), Len(nodes') = Len(nodes) - 1,
         \A j \in 1..(Len(nodes) - 1) :
           nodes'[j] = IF j < p THEN nodes[j] ELSE nodes[j + 1],
         adder # "idle", adder # "bound", adder' = "popped", pos' = 0,
         UNCHANGED <<clock, adding, orphaned, evictorVars, heard, overlapped>>
  PROVE  BucketInv'
<1> USE DEF BucketInv
<1>1. BucketTypeOK'
  BY DEF BucketTypeOK, evictorVars
<1>2. Latest' = Latest /\ Latest = clock /\ Latest \in Nat
  BY DEF Latest, BucketTypeOK
<1>3. nodes \in Seq(PeerEntry) /\ kept \in Seq(PeerEntry) /\ next \in Nat
  BY DEF BucketTypeOK
<1>4. /\ Sorted(nodes) /\ NotAfter(nodes, Latest)
      /\ \A i \in DOMAIN kept, j \in DOMAIN nodes : next <= j => kept[i].seen <= nodes[j].seen
  BY DEF OrderInv
<1>5. /\ Sorted(nodes') /\ NotAfter(nodes', Latest)
      /\ \A i \in DOMAIN kept, j \in DOMAIN nodes' : next <= j => kept[i].seen <= nodes'[j].seen
  BY <1>2, <1>3, <1>4, PopKeepsOrder
<1>6. kept' = kept /\ next' = next /\ clock' = clock
  BY DEF evictorVars
<1>7. AddingInv'
  BY DEF AddingInv
<1> QED BY <1>1, <1>2, <1>5, <1>6, <1>7 DEF OrderInv

\* A step that leaves both lists, next and Latest alone.
LEMMA KeepsLists ==
  ASSUME BucketInv, BucketTypeOK', AddingInv', UNCHANGED <<nodes, kept, next>>,
         Latest <= Latest', Latest' <= clock'
  PROVE  BucketInv'
<1>1. Latest \in Nat /\ Latest' \in Nat
  BY DEF BucketInv, BucketTypeOK, Latest
<1>2. nodes \in Seq(PeerEntry) /\ kept \in Seq(PeerEntry)
  BY DEF BucketInv, BucketTypeOK
<1>3. \A s \in Seq(PeerEntry) : NotAfter(s, Latest) => NotAfter(s, Latest')
  BY <1>1, SeenNat DEF NotAfter
<1>4. NotAfter(nodes, Latest') /\ NotAfter(kept, Latest')
  BY <1>2, <1>3 DEF BucketInv, OrderInv
<1> QED BY <1>4 DEF BucketInv, OrderInv

LEMMA TickKeeps == ASSUME BucketInv, Tick PROVE BucketInv'
<1>1. BucketTypeOK' /\ AddingInv' /\ UNCHANGED <<nodes, kept, next>>
  BY DEF BucketInv, BucketTypeOK, AddingInv, Tick, adderVars, evictorVars
<1>2. Latest <= Latest' /\ Latest' <= clock'
  BY DEF BucketInv, BucketTypeOK, OrderInv, Tick, Latest, adderVars
<1> QED BY <1>1, <1>2, KeepsLists

LEMMA ScanKeeps == ASSUME BucketInv, NEW id \in Id, Scan(id) PROVE BucketInv'
<1>1. pos' \in Nat
  BY DEF BucketInv, BucketTypeOK, Scan
<1>2. heard' \in Seq(PeerEntry) /\ overlapped' \in BOOLEAN
  <2>1. <<>> \in Seq(PeerEntry)
    OBVIOUS
  <2>2. (evictor # "idle") \in BOOLEAN
    OBVIOUS
  <2>3. heard' \in Seq(PeerEntry)
    BY <2>1 DEF BucketInv, BucketTypeOK, Scan, Overlaps
  <2>4. overlapped' \in BOOLEAN
    BY DEF BucketInv, BucketTypeOK, Scan, Overlaps
  <2> QED BY <2>3, <2>4
<1>3. adding' \in [id : Id \union {Nobody}, seen : Nat] /\ adding' \in PeerEntry
  BY DEF Scan, PeerEntry
<1>4. BucketTypeOK' /\ AddingInv' /\ UNCHANGED <<nodes, kept, next>>
  BY <1>1, <1>2, <1>3 DEF BucketInv, BucketTypeOK, AddingInv, Scan, evictorVars
<1>5. Latest <= Latest' /\ Latest' <= clock'
  BY DEF BucketInv, BucketTypeOK, Scan, Latest
<1> QED BY <1>4, <1>5, KeepsLists

LEMMA QuietKeeps ==
  ASSUME BucketInv, PopFails \/ HasRoom \/ IsFull \/ Stamp
  PROVE  BucketInv'
<1>1. CASE PopFails
  <2>1. adding' \in [id : Id \union {Nobody}, seen : Nat]
    BY <1>1 DEF PopFails, Nothing
  <2>2. BucketTypeOK' /\ AddingInv' /\ UNCHANGED <<nodes, kept, next>>
    BY <1>1, <2>1 DEF BucketInv, BucketTypeOK, AddingInv, PopFails, evictorVars
  <2>3. Latest <= Latest' /\ Latest' <= clock'
    BY <1>1 DEF BucketInv, BucketTypeOK, PopFails, Latest
  <2> QED BY <2>2, <2>3, KeepsLists
<1>2. CASE HasRoom
  <2>2. BucketTypeOK' /\ AddingInv' /\ UNCHANGED <<nodes, kept, next>>
    BY <1>2 DEF BucketInv, BucketTypeOK, AddingInv, HasRoom, evictorVars
  <2>3. Latest <= Latest' /\ Latest' <= clock'
    BY <1>2 DEF BucketInv, BucketTypeOK, HasRoom, Latest
  <2> QED BY <2>2, <2>3, KeepsLists
<1>4. CASE IsFull
  <2>2. BucketTypeOK' /\ AddingInv' /\ UNCHANGED <<nodes, kept, next>>
    BY <1>4 DEF BucketInv, BucketTypeOK, AddingInv, IsFull, evictorVars
  <2>3. Latest <= Latest' /\ Latest' <= clock'
    BY <1>4 DEF BucketInv, BucketTypeOK, IsFull, Latest
  <2> QED BY <2>2, <2>3, KeepsLists
<1>3. CASE Stamp
  <2>1. adding' \in [id : Id \union {Nobody}, seen : Nat] /\ adding'.seen = clock
        /\ adding' \in PeerEntry
    BY <1>3 DEF BucketInv, BucketTypeOK, AddingInv, PeerEntry, Stamp
  <2>2. BucketTypeOK' /\ AddingInv' /\ UNCHANGED <<nodes, kept, next>>
    BY <1>3, <2>1 DEF BucketInv, BucketTypeOK, AddingInv, Stamp, evictorVars
  <2>3. Latest <= Latest' /\ Latest' <= clock'
    BY <1>3, <2>1 DEF BucketInv, BucketTypeOK, Stamp, Latest
  <2> QED BY <2>2, <2>3, KeepsLists
<1> QED BY <1>1, <1>2, <1>3, <1>4

LEMMA PopsKeep == ASSUME BucketInv, PopFound \/ PopHead PROVE BucketInv'
<1> nodes \in Seq(PeerEntry)
  BY DEF BucketInv, BucketTypeOK
<1>1. CASE PopFound
  <2>1. pos \in 1..Len(nodes)
    BY <1>1 DEF PopFound, BucketInv, BucketTypeOK
  <2>2. nodes' = RemoveAt(nodes, pos) /\ adder = "scanned" /\ adder' = "popped" /\ pos' = 0
        /\ UNCHANGED <<clock, adding, orphaned, evictorVars, heard, overlapped>>
    BY <1>1 DEF PopFound
  <2> QED BY <2>1, <2>2, PopLaw, TakesOut
<1>2. CASE PopHead
  <2>1. nodes # <<>> /\ 1 \in 1..Len(nodes)
    BY <1>2 DEF PopHead
  <2>2. nodes' = Tail(nodes) /\ adder = "full" /\ adder' = "popped" /\ pos' = 0
        /\ UNCHANGED <<clock, adding, orphaned, evictorVars, heard, overlapped>>
    BY <1>2 DEF PopHead, BucketInv, BucketTypeOK
  <2>3. /\ nodes' \in Seq(PeerEntry) /\ Len(nodes') = Len(nodes) - 1
        /\ \A j \in 1..(Len(nodes) - 1) : nodes'[j] = IF j < 1 THEN nodes[j] ELSE nodes[j + 1]
    BY <2>1, <2>2, PopHeadLaw
  <2> QED BY <2>1, <2>2, <2>3, TakesOut
<1> QED BY <1>1, <1>2

\* append: on the live list the new entry is the latest, on a replaced one it
\* is lost; either way stamps from now on are no earlier.
LEMMA AppendKeeps == ASSUME BucketInv, AppendEntry PROVE BucketInv'
<1>1. /\ nodes \in Seq(PeerEntry) /\ kept \in Seq(PeerEntry) /\ heard \in Seq(PeerEntry)
      /\ adding \in PeerEntry /\ adding.seen \in Nat /\ clock \in Nat /\ next \in Nat
  BY DEF BucketInv, BucketTypeOK, AddingInv, AppendEntry
<1>2. /\ Latest = adding.seen /\ Latest' = clock /\ Latest <= clock
      /\ clock' = clock /\ kept' = kept /\ next' = next /\ adder' = "idle"
      /\ nodes' = IF orphaned THEN nodes ELSE Append(nodes, adding)
  BY DEF BucketInv, OrderInv, AppendEntry, Latest, evictorVars
<1>3. /\ Sorted(nodes) /\ Sorted(kept) /\ NotAfter(nodes, adding.seen) /\ NotAfter(kept, adding.seen)
      /\ \A i \in DOMAIN kept, j \in DOMAIN nodes : next <= j => kept[i].seen <= nodes[j].seen
  BY <1>2 DEF BucketInv, OrderInv
<1>4. BucketTypeOK'
  <2>1. heard' \in Seq(PeerEntry)
    <3> DEFINE at == {i \in DOMAIN heard : heard[i].id = adding.id}
    <3>1. Forgotten \in Seq(PeerEntry)
      <4>1. CASE at = {}
        <5>1. Forgotten = heard
          BY <4>1 DEF Forgotten
        <5> QED BY <5>1, <1>1
      <4>2. CASE at # {}
        <5>1. (CHOOSE i \in at : TRUE) \in 1..Len(heard)
          BY <4>2, <1>1
        <5>2. RemoveAt(heard, CHOOSE i \in at : TRUE) \in Seq(PeerEntry)
          BY <5>1, <1>1, PopLaw
        <5>3. Forgotten = RemoveAt(heard, CHOOSE i \in at : TRUE)
          BY <4>2 DEF Forgotten
        <5> QED BY <5>2, <5>3
      <4> QED BY <4>1, <4>2
    <3>2. Remembered \in Seq(PeerEntry)
      BY <3>1, <1>1, AppendLaw DEF Remembered
    <3> QED BY <3>2, <1>1 DEF AppendEntry
  <2>2. nodes' \in Seq(PeerEntry)
    BY <1>1, <1>2, AppendLaw
  <2>3. adding' \in [id : Id \union {Nobody}, seen : Nat]
    BY DEF AppendEntry, Nothing
  <2>4. orphaned' \in BOOLEAN
    BY DEF AppendEntry
  <2> QED BY <2>1, <2>2, <2>3, <2>4 DEF BucketInv, BucketTypeOK, AppendEntry, evictorVars
<1>5. \A s \in Seq(PeerEntry) : NotAfter(s, adding.seen) => NotAfter(s, clock)
  BY <1>1, <1>2, SeenNat DEF NotAfter
<1>6. Sorted(nodes') /\ NotAfter(nodes', clock)
  BY <1>1, <1>2, <1>3, <1>5, AppendKeepsOrder
<1>7. ASSUME NEW i \in DOMAIN kept, NEW j \in DOMAIN nodes', next <= j
      PROVE  kept[i].seen <= nodes'[j].seen
  <2>1. CASE j \in DOMAIN nodes
    <3>1. nodes'[j] = nodes[j]
      BY <2>1, <1>1, <1>2, AppendLaw
    <3> QED BY <3>1, <2>1, <1>3, <1>7
  <2>2. CASE j \notin DOMAIN nodes
    <3>1. nodes'[j] = adding
      BY <2>2, <1>1, <1>2, <1>7, AppendLaw
    <3> QED BY <3>1, <1>3 DEF NotAfter
  <2> QED BY <2>1, <2>2
<1>8. NotAfter(kept', Latest') /\ Sorted(kept')
  BY <1>1, <1>2, <1>3, <1>5
<1>9. AddingInv'
  BY <1>2 DEF AddingInv
<1>10. clock <= clock
  BY <1>1
<1>11. OrderInv'
  BY <1>2, <1>6, <1>7, <1>8, <1>10 DEF OrderInv
<1> QED BY <1>4, <1>9, <1>11 DEF BucketInv

LEMMA StartEvictionKeeps == ASSUME BucketInv, StartEviction PROVE BucketInv'
<1>1. /\ clock' = clock /\ nodes' = nodes /\ kept' = <<>> /\ next' = 1 /\ now' = clock
      /\ adder' = adder /\ adding' = adding /\ evictor' = "visiting" /\ pos' = pos
      /\ orphaned' = orphaned
  BY DEF StartEviction, adderVars
<1>2. <<>> \in Seq(PeerEntry) /\ DOMAIN <<>> = {}
  OBVIOUS
<1>3. heard' \in Seq(PeerEntry) /\ overlapped' \in BOOLEAN
  <2>1. heard' \in Seq(PeerEntry)
    BY <1>2 DEF BucketInv, BucketTypeOK, StartEviction, Overlaps
  <2>2. overlapped' \in BOOLEAN
    BY DEF BucketInv, BucketTypeOK, StartEviction, Overlaps
  <2> QED BY <2>1, <2>2
<1>4. BucketTypeOK'
  BY <1>1, <1>2, <1>3 DEF BucketInv, BucketTypeOK
<1>5. Latest' = Latest
  BY <1>1 DEF Latest
<1>6. Sorted(kept') /\ NotAfter(kept', Latest')
  BY <1>1, <1>2 DEF Sorted, NotAfter
<1>7. OrderInv'
  BY <1>1, <1>2, <1>5, <1>6 DEF BucketInv, OrderInv
<1>8. AddingInv'
  BY <1>1 DEF BucketInv, AddingInv
<1> QED BY <1>4, <1>7, <1>8 DEF BucketInv

\* The element visited is not newer than what is still to visit.
LEMMA VisitKeeps == ASSUME BucketInv, Visit PROVE BucketInv'
<1>1. /\ clock' = clock /\ nodes' = nodes /\ next' = next + 1 /\ now' = now
      /\ adder' = adder /\ adding' = adding /\ evictor' = evictor /\ pos' = pos
      /\ orphaned' = orphaned /\ heard' = heard /\ overlapped' = overlapped
      /\ kept' = IF Fresh(nodes[next]) THEN Append(kept, nodes[next]) ELSE kept
  BY DEF Visit, adderVars
<1>2. /\ nodes \in Seq(PeerEntry) /\ kept \in Seq(PeerEntry) /\ next \in Nat \ {0}
      /\ next \in DOMAIN nodes
  BY DEF BucketInv, BucketTypeOK, Visit
<1>3. nodes[next] \in PeerEntry /\ nodes[next].seen \in Nat
  BY <1>2, SeenNat
<1>4. kept' \in Seq(PeerEntry)
  BY <1>1, <1>2, <1>3, AppendLaw
<1>5. BucketTypeOK'
  <2>1. next' \in Nat \ {0}
    BY <1>1, <1>2
  <2> QED BY <1>1, <1>4, <2>1 DEF BucketInv, BucketTypeOK
<1>6. Latest' = Latest /\ Latest \in Nat
  BY <1>1 DEF Latest, BucketInv, BucketTypeOK
<1>7. /\ Sorted(nodes) /\ Sorted(kept) /\ NotAfter(nodes, Latest) /\ NotAfter(kept, Latest)
      /\ \A i \in DOMAIN kept, j \in DOMAIN nodes : next <= j => kept[i].seen <= nodes[j].seen
  BY DEF BucketInv, OrderInv
<1>8. NotAfter(kept, nodes[next].seen) /\ nodes[next].seen <= Latest
  BY <1>2, <1>7 DEF NotAfter
<1>9. Sorted(kept') /\ NotAfter(kept', Latest)
  BY <1>1, <1>2, <1>3, <1>6, <1>7, <1>8, AppendKeepsOrder
<1>10. ASSUME NEW i \in DOMAIN kept', NEW j \in DOMAIN nodes, next + 1 <= j
       PROVE  kept'[i].seen <= nodes[j].seen
  <2>1. next <= j /\ j \in Nat
    BY <1>2, <1>10
  <2>2. CASE i \in DOMAIN kept
    <3>1. kept'[i] = kept[i]
      BY <2>2, <1>1, <1>2, <1>3, AppendLaw
    <3> QED BY <3>1, <2>1, <2>2, <1>7
  <2>3. CASE i \notin DOMAIN kept
    <3>1. kept'[i] = nodes[next]
      BY <2>3, <1>1, <1>2, <1>3, <1>10, AppendLaw
    <3> QED BY <3>1, <2>1, <1>2, <1>7 DEF Sorted
  <2> QED BY <2>2, <2>3
<1>11. OrderInv'
  BY <1>1, <1>6, <1>7, <1>9, <1>10 DEF BucketInv, OrderInv
<1>12. AddingInv'
  BY <1>1 DEF BucketInv, AddingInv
<1> QED BY <1>5, <1>11, <1>12 DEF BucketInv

LEMMA ReplaceKeeps == ASSUME BucketInv, Replace PROVE BucketInv'
<1>1. /\ clock' = clock /\ nodes' = kept /\ next' = 1 /\ now' = now /\ kept' = <<>>
      /\ adder' = adder /\ adding' = adding /\ evictor' = "idle" /\ pos' = pos
      /\ heard' = heard /\ overlapped' = overlapped
  BY DEF Replace
<1>2. <<>> \in Seq(PeerEntry) /\ DOMAIN <<>> = {}
  OBVIOUS
<1>3. orphaned' \in BOOLEAN
  BY DEF Replace
<1>4. BucketTypeOK'
  BY <1>1, <1>2, <1>3 DEF BucketInv, BucketTypeOK
<1>5. Latest' = Latest
  BY <1>1 DEF Latest
<1>6. Sorted(kept') /\ NotAfter(kept', Latest')
  BY <1>1, <1>2 DEF Sorted, NotAfter
<1>7. OrderInv'
  BY <1>1, <1>2, <1>5, <1>6 DEF BucketInv, OrderInv
<1>8. AddingInv'
  BY <1>1 DEF BucketInv, AddingInv
<1> QED BY <1>4, <1>7, <1>8 DEF BucketInv

-----------------------------------------------------------------------------
(* The theorems *)

\* BucketInv is an invariant of every interleaving of add and evict_stale.
THEOREM Invariance == BucketSpec => []BucketInv
<1>1. BucketInv /\ [BucketNext]_bucketVars => BucketInv'
  <2> SUFFICES ASSUME BucketInv, [BucketNext]_bucketVars PROVE BucketInv'
    OBVIOUS
  <2>1. CASE UNCHANGED bucketVars
    BY <2>1, Stutters
  <2>2. CASE Tick
    BY <2>2, TickKeeps
  <2>3. CASE Add
    <3>1. CASE \E id \in Id : Scan(id)
      BY <3>1, ScanKeeps
    <3>2. CASE PopFound \/ PopHead
      BY <3>2, PopsKeep
    <3>3. CASE PopFails \/ HasRoom \/ IsFull \/ Stamp
      BY <3>3, QuietKeeps
    <3>4. CASE AppendEntry
      BY <3>4, AppendKeeps
    <3> QED BY <2>3, <3>1, <3>2, <3>3, <3>4 DEF Add
  <2>4. CASE Evict
    BY <2>4, StartEvictionKeeps, VisitKeeps, ReplaceKeeps DEF Evict
  <2> QED BY <2>1, <2>2, <2>3, <2>4 DEF BucketNext
<1> QED BY <1>1, Initially, PTL DEF BucketSpec

\* The variables of the bucket keep their types.
THEOREM TypeCorrect == BucketSpec => []BucketTypeOK
<1>1. BucketInv => BucketTypeOK
  BY DEF BucketInv
<1> QED BY <1>1, Invariance, PTL

\* The bucket stays in least-recently-seen order although no lock protects it.
THEOREM OrderSurvivesRaces == BucketSpec => []OldestFirst
<1>1. BucketInv => OldestFirst
  BY DEF BucketInv, OrderInv, OldestFirst
<1> QED BY <1>1, Invariance, PTL

-----------------------------------------------------------------------------
(* What the bucket holds of what was heard *)

LEMMA LenNat == ASSUME NEW S, NEW s \in Seq(S) PROVE Len(s) \in Nat /\ DOMAIN s = 1 .. Len(s)
OBVIOUS

LEMMA HoldsIs ==
  ASSUME NEW n \in Seq(PeerEntry), NEW h \in Seq(PeerEntry), NEW room \in {0, 1}, NEW t,
         HoldsLast(n, h, room, t)
  PROVE  /\ Len(n) \in Nat /\ Len(h) \in Nat /\ DOMAIN n = 1 .. Len(n)
         /\ Len(n) <= Len(h) /\ Len(h) - Len(n) \in Nat /\ Len(n) + room <= K
         /\ \A j \in 1 .. Len(n) : n[j] = h[(Len(h) - Len(n)) + j]
         /\ \A j \in 1 .. Len(h) - Len(n) :
              Len(h) + room - j >= K \/ h[j].seen + MaxAge < t
<1>1. Len(n) \in Nat /\ Len(h) \in Nat /\ DOMAIN n = 1 .. Len(n)
  BY LenNat
<1>2. /\ Len(n) + room <= K /\ Len(n) <= Len(h)
      /\ \A j \in DOMAIN n : n[j] = h[(Len(h) - Len(n)) + j]
      /\ \A j \in 1 .. Len(h) - Len(n) :
           Len(h) + room - j >= K \/ h[j].seen + MaxAge < t
  BY Zenon DEF HoldsLast, IsSuffixOf
<1>3. Len(h) - Len(n) \in Nat
  BY <1>1, <1>2
<1> QED BY <1>1, <1>2, <1>3

\* An entry that is found is taken out of both lists,
LEMMA HoldsFound ==
  ASSUME NEW n \in Seq(PeerEntry), NEW h \in Seq(PeerEntry), NEW t, HoldsLast(n, h, 0, t),
         NEW p \in 1 .. Len(n), NEW i, i = Len(h) - Len(n) + p
  PROVE  /\ i \in 1 .. Len(h) /\ h[i] = n[p]
         /\ HoldsLast(RemoveAt(n, p), RemoveAt(h, i), 1, t)
<1> USE KAssumption
<1> DEFINE c == Len(h) - Len(n)
           n2 == RemoveAt(n, p)
           h2 == RemoveAt(h, i)
<1>1. /\ Len(n) \in Nat /\ Len(h) \in Nat /\ Len(n) <= Len(h) /\ Len(n) <= K
      /\ \A j \in 1 .. Len(n) : n[j] = h[c + j]
      /\ \A j \in 1 .. c : Len(h) - j >= K \/ h[j].seen + MaxAge < t
  BY LenNat DEF HoldsLast, IsSuffixOf
<1>2. i \in 1 .. Len(h) /\ h[i] = n[p] /\ c \in Nat /\ i = c + p
  BY <1>1
<1>3. /\ Len(n2) = Len(n) - 1 /\ DOMAIN n2 = 1 .. Len(n) - 1
      /\ \A j \in 1 .. Len(n) - 1 : n2[j] = IF j < p THEN n[j] ELSE n[j + 1]
  BY PopLaw, LenNat
<1>4. /\ Len(h2) = Len(h) - 1
      /\ \A j \in 1 .. Len(h) - 1 : h2[j] = IF j < i THEN h[j] ELSE h[j + 1]
  BY <1>2, PopLaw
<1> HIDE DEF n2, h2
<1>5. Len(h2) - Len(n2) = c
  BY <1>1, <1>3, <1>4
<1>6. \A j \in DOMAIN n2 : n2[j] = h2[c + j]
  <2> TAKE j \in DOMAIN n2
  <2>1. j \in 1 .. Len(n) - 1 /\ c + j \in 1 .. Len(h) - 1 /\ (j < p <=> c + j < i)
    BY <1>1, <1>2, <1>3
  <2>2. CASE j < p
    <3>1. n2[j] = n[j]
      BY <1>3, <2>1, <2>2
    <3>2. h2[c + j] = h[c + j]
      BY <1>4, <2>1, <2>2
    <3>3. n[j] = h[c + j]
      BY <1>1, <2>1
    <3> QED BY <3>1, <3>2, <3>3
  <2>3. CASE ~(j < p)
    <3>1. n2[j] = n[j + 1] /\ j + 1 \in 1 .. Len(n)
      BY <1>1, <1>3, <2>1, <2>3
    <3>2. h2[c + j] = h[(c + j) + 1]
      BY <1>4, <2>1, <2>3
    <3>3. (c + j) + 1 = c + (j + 1)
      BY <1>2, <2>1
    <3> QED BY <1>1, <3>1, <3>2, <3>3
  <2> QED BY <2>2, <2>3
<1>7. \A j \in 1 .. c : Len(h2) + 1 - j >= K \/ h2[j].seen + MaxAge < t
  <2> TAKE j \in 1 .. c
  <2>1. j < i /\ j \in 1 .. Len(h) - 1
    BY <1>1, <1>2
  <2>2. h2[j] = h[j]
    BY <1>4, <2>1
  <2>3. Len(h2) + 1 - j = Len(h) - j
    BY <1>1, <1>2, <1>4
  <2> QED BY <1>1, <2>2, <2>3
<1>8. Len(n2) <= Len(h2) /\ Len(n2) + 1 <= K
  BY <1>1, <1>3, <1>4
<1>9. HoldsLast(n2, h2, 1, t)
  BY <1>5, <1>6, <1>7, <1>8 DEF HoldsLast, IsSuffixOf
<1> QED BY <1>2, <1>9 DEF n2, h2

\* one that fell out of the bucket before out of what was heard:
LEMMA ForgetsSuffix ==
  ASSUME NEW n \in Seq(PeerEntry), NEW h \in Seq(PeerEntry), IsSuffixOf(n, h),
         NEW i \in 1 .. Len(h) - Len(n)
  PROVE  /\ IsSuffixOf(n, RemoveAt(h, i)) /\ Len(RemoveAt(h, i)) = Len(h) - 1
         /\ \A j \in 1 .. Len(h) - 1 : RemoveAt(h, i)[j] = IF j < i THEN h[j] ELSE h[j + 1]
<1> DEFINE c == Len(h) - Len(n)
           h2 == RemoveAt(h, i)
<1>1. /\ Len(n) \in Nat /\ Len(h) \in Nat /\ Len(n) <= Len(h)
      /\ \A j \in 1 .. Len(n) : n[j] = h[c + j]
      /\ DOMAIN n = 1 .. Len(n)
  BY LenNat DEF IsSuffixOf
<1>2. c \in Nat /\ i \in 1 .. Len(h)
  BY <1>1
<1>3. /\ Len(h2) = Len(h) - 1
      /\ \A j \in 1 .. Len(h) - 1 : h2[j] = IF j < i THEN h[j] ELSE h[j + 1]
  BY <1>2, PopLaw
<1> HIDE DEF h2
<1>4. Len(h2) - Len(n) = c - 1 /\ Len(n) <= Len(h2)
  BY <1>1, <1>2, <1>3
<1>5. \A j \in DOMAIN n : n[j] = h2[(c - 1) + j]
  <2> TAKE j \in DOMAIN n
  <2>1. (c - 1) + j \in 1 .. Len(h) - 1 /\ ~((c - 1) + j < i)
    BY <1>1, <1>2
  <2>2. h2[(c - 1) + j] = h[((c - 1) + j) + 1] /\ ((c - 1) + j) + 1 = c + j
    BY <1>1, <1>2, <1>3, <2>1
  <2> QED BY <1>1, <2>2
<1>6. IsSuffixOf(n, h2)
  BY <1>4, <1>5 DEF IsSuffixOf
<1> QED BY <1>3, <1>6 DEF h2

\* there is room,
LEMMA HoldsWithRoom ==
  ASSUME NEW n \in Seq(PeerEntry), NEW h \in Seq(PeerEntry), NEW t, HoldsLast(n, h, 0, t),
         Len(n) < K
  PROVE  /\ HoldsLast(n, h, 1, t)
         /\ \A i \in 1 .. Len(h) - Len(n) : HoldsLast(n, RemoveAt(h, i), 1, t)
<1> USE KAssumption
<1> DEFINE c == Len(h) - Len(n)
<1>1. /\ Len(n) \in Nat /\ Len(h) \in Nat /\ Len(n) <= Len(h) /\ Len(n) + 1 <= K
      /\ IsSuffixOf(n, h) /\ c \in Nat
      /\ \A j \in 1 .. c : Len(h) - j >= K \/ h[j].seen + MaxAge < t
  BY LenNat DEF HoldsLast, IsSuffixOf
<1>2. HoldsLast(n, h, 1, t)
  BY <1>1 DEF HoldsLast
<1>3. ASSUME NEW i \in 1 .. c PROVE HoldsLast(n, RemoveAt(h, i), 1, t)
  <2> DEFINE h2 == RemoveAt(h, i)
  <2>1. /\ IsSuffixOf(n, h2) /\ Len(h2) = Len(h) - 1
        /\ \A j \in 1 .. Len(h) - 1 : h2[j] = IF j < i THEN h[j] ELSE h[j + 1]
    BY <1>1, <1>3, ForgetsSuffix
  <2> HIDE DEF h2
  <2>2. ASSUME NEW j \in 1 .. Len(h2) - Len(n)
        PROVE  Len(h2) + 1 - j >= K \/ h2[j].seen + MaxAge < t
    <3>1. j \in 1 .. Len(h) - 1 /\ j \in 1 .. c /\ j + 1 \in 1 .. c
          /\ Len(h2) + 1 - j = Len(h) - j
      BY <1>1, <2>1
    <3>2. CASE j < i
      BY <1>1, <2>1, <3>1, <3>2
    <3>3. CASE ~(j < i)
      <4>1. h2[j] = h[j + 1]
        BY <2>1, <3>1, <3>3
      <4>2. Len(h) - (j + 1) >= K \/ h[j + 1].seen + MaxAge < t
        BY <1>1, <3>1
      <4> QED BY <1>1, <3>1, <4>1, <4>2
    <3> QED BY <3>2, <3>3
  <2>3. HoldsLast(n, h2, 1, t)
    BY <1>1, <2>1, <2>2 DEF HoldsLast
  <2> QED BY <2>3 DEF h2
<1> QED BY <1>2, <1>3

\* or the oldest one makes room,
LEMMA HoldsWithout ==
  ASSUME NEW n \in Seq(PeerEntry), NEW h \in Seq(PeerEntry), NEW t, HoldsLast(n, h, 0, t),
         Len(n) = K
  PROVE  /\ HoldsLast(Tail(n), h, 1, t)
         /\ \A i \in 1 .. Len(h) - Len(n) : HoldsLast(Tail(n), RemoveAt(h, i), 1, t)
<1> USE KAssumption
<1> DEFINE c == Len(h) - Len(n)
           m == Tail(n)
<1>1. /\ Len(n) \in Nat /\ Len(h) \in Nat /\ Len(n) <= Len(h) /\ c \in Nat
      /\ \A j \in 1 .. Len(n) : n[j] = h[c + j]
  BY LenNat DEF HoldsLast, IsSuffixOf
<1>2. /\ n # <<>> /\ m \in Seq(PeerEntry) /\ Len(m) = K - 1
      /\ \A j \in 1 .. K - 1 : m[j] = n[j + 1]
      /\ DOMAIN m = 1 .. K - 1
  BY PopHeadLaw, LenNat
<1> HIDE DEF m
<1>3. IsSuffixOf(m, h)
  <2>1. Len(m) <= Len(h) /\ Len(h) - Len(m) = c + 1
    BY <1>1, <1>2
  <2>2. \A j \in DOMAIN m : m[j] = h[(c + 1) + j]
    <3> TAKE j \in DOMAIN m
    <3>1. j \in 1 .. Len(n) - 1
      BY <1>2
    <3>0. j + 1 \in 1 .. Len(n) /\ c + (j + 1) = (c + 1) + j /\ j \in 1 .. K - 1
      BY <1>1, <3>1
    <3>2. m[j] = n[j + 1] /\ n[j + 1] = h[c + (j + 1)]
      BY <1>1, <1>2, <3>0
    <3> QED BY <3>0, <3>2
  <2> QED BY <2>1, <2>2 DEF IsSuffixOf
<1>4. \A j \in 1 .. Len(h) - Len(m) : Len(h) + 1 - j >= K
  BY <1>1, <1>2
<1>5. HoldsLast(m, h, 1, t)
  BY <1>2, <1>3, <1>4 DEF HoldsLast
<1>6. ASSUME NEW i \in 1 .. c PROVE HoldsLast(m, RemoveAt(h, i), 1, t)
  <2>1. i \in 1 .. Len(h) - Len(m)
    BY <1>1, <1>2
  <2>2. IsSuffixOf(m, RemoveAt(h, i)) /\ Len(RemoveAt(h, i)) = Len(h) - 1
    BY <1>2, <1>3, <2>1, ForgetsSuffix
  <2>3. \A j \in 1 .. Len(RemoveAt(h, i)) - Len(m) : Len(RemoveAt(h, i)) + 1 - j >= K
    BY <1>1, <1>2, <2>2
  <2> QED BY <1>2, <2>2, <2>3 DEF HoldsLast
<1> QED BY <1>5, <1>6 DEF m

\* and the new entry comes last.
LEMMA HoldsAppended ==
  ASSUME NEW n \in Seq(PeerEntry), NEW h \in Seq(PeerEntry), NEW t, HoldsLast(n, h, 1, t),
         NEW e \in PeerEntry
  PROVE  HoldsLast(Append(n, e), Append(h, e), 0, t)
<1> USE KAssumption
<1> DEFINE c == Len(h) - Len(n)
           n2 == Append(n, e)
           h2 == Append(h, e)
<1>1. /\ Len(n) \in Nat /\ Len(h) \in Nat /\ Len(n) <= Len(h) /\ Len(n) + 1 <= K
      /\ \A j \in 1 .. Len(n) : n[j] = h[c + j]
      /\ \A j \in 1 .. c : Len(h) + 1 - j >= K \/ h[j].seen + MaxAge < t
  BY LenNat DEF HoldsLast, IsSuffixOf
<1>2. /\ Len(n2) = Len(n) + 1 /\ DOMAIN n2 = 1 .. Len(n) + 1 /\ n2[Len(n) + 1] = e
      /\ \A j \in 1 .. Len(n) : n2[j] = n[j]
  BY AppendLaw, LenNat
<1>3. /\ Len(h2) = Len(h) + 1 /\ h2[Len(h) + 1] = e
      /\ \A j \in 1 .. Len(h) : h2[j] = h[j]
  BY AppendLaw
<1> HIDE DEF n2, h2
<1>4. Len(h2) - Len(n2) = c /\ Len(n2) <= Len(h2) /\ Len(n2) + 0 <= K
  BY <1>1, <1>2, <1>3
<1>5. \A j \in DOMAIN n2 : n2[j] = h2[c + j]
  <2> TAKE j \in DOMAIN n2
  <2>1. CASE j = Len(n) + 1
    <3>1. c + j = Len(h) + 1
      BY <1>1, <2>1
    <3> QED BY <1>2, <1>3, <2>1, <3>1
  <2>2. CASE j \in 1 .. Len(n)
    <3>1. c + j \in 1 .. Len(h)
      BY <1>1, <2>2
    <3> QED BY <1>1, <1>2, <1>3, <2>2, <3>1
  <2> QED BY <1>1, <1>2, <2>1, <2>2
<1>6. \A j \in 1 .. c : Len(h2) + 0 - j >= K \/ h2[j].seen + MaxAge < t
  <2> TAKE j \in 1 .. c
  <2>1. j \in 1 .. Len(h) /\ Len(h2) + 0 - j = Len(h) + 1 - j
    BY <1>1, <1>3
  <2> QED BY <1>1, <1>3, <2>1
<1>7. HoldsLast(n2, h2, 0, t)
  BY <1>4, <1>5, <1>6 DEF HoldsLast, IsSuffixOf
<1> QED BY <1>7 DEF n2, h2

\* A bucket that is left with the end of its list, whose rest is stale, holds what it has to.
LEMMA HoldsEvicted ==
  ASSUME NEW n \in Seq(PeerEntry), NEW h \in Seq(PeerEntry), NEW t, HoldsLast(n, h, 0, t),
         NEW k \in Seq(PeerEntry), NEW d \in Nat, Len(n) = d + Len(k),
         \A i \in DOMAIN k : k[i] = n[d + i],
         \A i \in 1 .. d : n[i].seen + MaxAge < t
  PROVE  HoldsLast(k, h, 0, t)
<1> USE KAssumption
<1> DEFINE c == Len(h) - Len(n)
<1>1. /\ Len(n) \in Nat /\ Len(h) \in Nat /\ Len(n) <= Len(h) /\ Len(n) <= K
      /\ \A j \in 1 .. Len(n) : n[j] = h[c + j]
      /\ \A j \in 1 .. c : Len(h) - j >= K \/ h[j].seen + MaxAge < t
  <2>1. 0 \in {0, 1}
    OBVIOUS
  <2>2. /\ Len(n) \in Nat /\ Len(h) \in Nat /\ Len(n) <= Len(h) /\ Len(n) + 0 <= K
        /\ \A j \in 1 .. Len(n) : n[j] = h[c + j]
        /\ \A j \in 1 .. c : Len(h) + 0 - j >= K \/ h[j].seen + MaxAge < t
    BY <2>1, HoldsIs
  <2> QED BY <2>2
<1>0. Len(k) \in Nat /\ DOMAIN k = 1 .. Len(k) /\ c \in Nat
  BY <1>1, LenNat
<1>2. Len(h) - Len(k) = c + d /\ Len(k) <= Len(h) /\ Len(k) + 0 <= K
  BY <1>0, <1>1
<1>3. \A j \in DOMAIN k : k[j] = h[(c + d) + j]
  <2> TAKE j \in DOMAIN k
  <2>1. d + j \in 1 .. Len(n) /\ c + (d + j) = (c + d) + j
    BY <1>0, <1>1
  <2> QED BY <1>0, <1>1, <2>1
<1>4. \A j \in 1 .. c + d : Len(h) + 0 - j >= K \/ h[j].seen + MaxAge < t
  <2> TAKE j \in 1 .. c + d
  <2>1. CASE j \in 1 .. c
    BY <1>0, <1>1, <2>1
  <2>2. CASE j > c
    <3>1. j - c \in 1 .. d /\ j - c \in 1 .. Len(n) /\ c + (j - c) = j
      BY <1>0, <1>1, <2>2
    <3> QED BY <1>0, <1>1, <3>1
  <2> QED BY <1>0, <1>1, <2>1, <2>2
<1> QED BY <1>2, <1>3, <1>4 DEF HoldsLast, IsSuffixOf

\* Time makes more of what was heard stale.
LEMMA HoldsLater ==
  ASSUME NEW n, NEW h \in Seq(PeerEntry), NEW room, NEW t \in Nat, NEW u \in Nat, t <= u,
         Len(n) \in Nat, HoldsLast(n, h, room, t)
  PROVE  HoldsLast(n, h, room, u)
<1>1. \A j \in 1 .. Len(h) - Len(n) : h[j].seen \in Nat
  BY SeenNat, LenNat
<1> QED BY <1>1, AgeAssumption DEF HoldsLast

-----------------------------------------------------------------------------
(* Every step keeps it *)

\* What was heard without the peer that is being added
LEMMA ForgottenIs ==
  ASSUME BucketTypeOK, HeardOnce
  PROVE  /\ Forgotten \in Seq(PeerEntry)
         /\ (\A i \in DOMAIN heard : heard[i].id # adding.id) => Forgotten = heard
         /\ \A i \in DOMAIN heard : heard[i].id = adding.id => Forgotten = RemoveAt(heard, i)
         /\ \A j \in DOMAIN Forgotten : Forgotten[j].id # adding.id
         /\ \A j, k \in DOMAIN Forgotten : Forgotten[j].id = Forgotten[k].id => j = k
<1> DEFINE at == {i \in DOMAIN heard : heard[i].id = adding.id}
<1>1. heard \in Seq(PeerEntry) /\ DOMAIN heard = 1 .. Len(heard) /\ Len(heard) \in Nat
  BY LenNat DEF BucketTypeOK
<1>2. CASE \A i \in DOMAIN heard : heard[i].id # adding.id
  <2>1. at = {}
    BY <1>2
  <2>2. Forgotten = heard
    BY <2>1 DEF Forgotten
  <2> QED BY <1>1, <1>2, <2>2 DEF HeardOnce
<1>3. ASSUME NEW i \in DOMAIN heard, heard[i].id = adding.id
      PROVE  /\ Forgotten = RemoveAt(heard, i) /\ Forgotten \in Seq(PeerEntry)
             /\ \A j \in DOMAIN Forgotten : Forgotten[j].id # adding.id
             /\ \A j, k \in DOMAIN Forgotten : Forgotten[j].id = Forgotten[k].id => j = k
  <2>1. at = {i}
    BY <1>3 DEF HeardOnce
  <2>2. Forgotten = RemoveAt(heard, i)
    <3>1. at # {} /\ \A x \in at : x = i
      BY <2>1
    <3>2. (CHOOSE x \in at : TRUE) = i
      BY <2>1
    <3> QED BY <3>1, <3>2 DEF Forgotten
  <2> DEFINE f == RemoveAt(heard, i)
             old(j) == IF j < i THEN j ELSE j + 1
  <2>3. /\ f \in Seq(PeerEntry) /\ Len(f) = Len(heard) - 1 /\ DOMAIN f = 1 .. Len(heard) - 1
        /\ \A j \in 1 .. Len(heard) - 1 : f[j] = IF j < i THEN heard[j] ELSE heard[j + 1]
    BY <1>1, <1>3, PopLaw, LenNat
  <2> HIDE DEF f
  <2>4. \A j \in DOMAIN f : old(j) \in DOMAIN heard /\ f[j] = heard[old(j)] /\ old(j) # i
    BY <1>1, <1>3, <2>3
  <2>5. \A j, k \in DOMAIN f : old(j) = old(k) => j = k
    BY <1>1, <1>3, <2>3
  <2> HIDE DEF old
  <2>6. \A j \in DOMAIN f : f[j].id # adding.id
    BY <1>3, <2>4 DEF HeardOnce
  <2>7. \A j, k \in DOMAIN f : f[j].id = f[k].id => j = k
    BY <2>4, <2>5 DEF HeardOnce
  <2> QED BY <2>2, <2>3, <2>6, <2>7 DEF f
<1> QED BY <1>2, <1>3

\* A peer that is not in the bucket fell out of it before, or was not heard.
LEMMA ForgottenBefore ==
  ASSUME BucketTypeOK, HeardOnce, HoldsLast(nodes, heard, 0, now), adding.id \notin Ids(nodes)
  PROVE  \/ Forgotten = heard
         \/ \E i \in 1 .. Len(heard) - Len(nodes) : Forgotten = RemoveAt(heard, i)
<1>1. nodes \in Seq(PeerEntry) /\ heard \in Seq(PeerEntry) /\ 0 \in {0, 1}
      /\ DOMAIN heard = 1 .. Len(heard)
  BY LenNat DEF BucketTypeOK
<1>2. /\ Len(nodes) \in Nat /\ Len(heard) \in Nat /\ DOMAIN nodes = 1 .. Len(nodes)
      /\ Len(heard) - Len(nodes) \in Nat
      /\ \A j \in 1 .. Len(nodes) : nodes[j] = heard[(Len(heard) - Len(nodes)) + j]
  BY <1>1, HoldsIs
<1>3. ASSUME NEW i \in DOMAIN heard, heard[i].id = adding.id
      PROVE  i \in 1 .. Len(heard) - Len(nodes) /\ Forgotten = RemoveAt(heard, i)
  <2>1. ASSUME i > Len(heard) - Len(nodes) PROVE FALSE
    <3> DEFINE j == i - (Len(heard) - Len(nodes))
    <3>1. j \in 1 .. Len(nodes) /\ (Len(heard) - Len(nodes)) + j = i
      BY <1>1, <1>2, <2>1
    <3>2. nodes[j].id = adding.id /\ j \in DOMAIN nodes
      BY <1>2, <1>3, <3>1
    <3> QED BY <3>2 DEF Ids
  <2>2. i \in 1 .. Len(heard) - Len(nodes)
    BY <1>1, <1>2, <2>1
  <2> QED BY <1>3, <2>2, ForgottenIs
<1> QED BY <1>3, ForgottenIs

LEMMA ForgottenKept ==
  ASSUME heard' = heard, adding'.id = adding.id
  PROVE  Forgotten' = Forgotten
BY DEF Forgotten

\* Steps of add while evict_stale is not running
LEMMA AddHeard ==
  ASSUME BucketInv, HeardInv, Add, ~overlapped'
  PROVE  HeardInv'
<1>0. BucketTypeOK /\ AddingInv /\ now <= clock
  BY DEF BucketInv, HeardInv
<1>1. ~overlapped /\ clock' = clock /\ UNCHANGED evictorVars
  <2>1. ASSUME NEW id \in Id, Scan(id)
        PROVE  ~overlapped /\ clock' = clock /\ UNCHANGED evictorVars
    <3>1. clock' = clock /\ UNCHANGED evictorVars
      BY <2>1 DEF Scan
    <3>2. ~overlapped
      BY <2>1 DEF Scan, Overlaps
    <3> QED BY <3>1, <3>2
  <2>2. CASE ~ \E id \in Id : Scan(id)
    BY <2>2 DEF Add, PopFound, PopFails, HasRoom, IsFull, PopHead, Stamp, AppendEntry
  <2> QED BY <2>1, <2>2
<1>2. ~orphaned /\ HeardOnce /\ AddHolds /\ (adder = "idle" \/ evictor = "idle")
  BY <1>1 DEF HeardInv
<1>3. evictor = "idle" /\ evictor' = "idle"
  <2>1. evictor = "idle"
    BY <1>2 DEF Add, Scan, Overlaps, PopFound, PopFails, HasRoom, IsFull, PopHead, Stamp,
                AppendEntry
  <2> QED BY <1>1, <2>1 DEF evictorVars
<1>4. now' = now
  BY <1>1 DEF evictorVars
<1>5. nodes \in Seq(PeerEntry) /\ heard \in Seq(PeerEntry) /\ Len(nodes) \in Nat
      /\ DOMAIN nodes = 1 .. Len(nodes)
  BY <1>0, LenNat DEF BucketTypeOK
<1>6. SUFFICES ~orphaned' /\ HeardOnce' /\ AddHolds'
  BY <1>0, <1>1, <1>3, <1>4 DEF HeardInv
<1>7. CASE heard' = heard /\ orphaned' = orphaned /\ ~AppendEntry
  <2>1. ~orphaned' /\ HeardOnce'
    BY <1>2, <1>7 DEF HeardOnce
  <2>2. ASSUME NEW id \in Id, Scan(id) PROVE AddHolds'
    <3>1. HoldsLast(nodes, heard, 0, now)
      BY <1>2, <2>2 DEF AddHolds, Scan
    <3>2. IF pos' = 0 THEN id \notin Ids(nodes) ELSE pos' \in DOMAIN nodes /\ nodes[pos'].id = id
      <4>1. CASE \E i \in DOMAIN nodes : FirstAt(nodes, id, i) /\ pos' = i
        BY <1>5, <4>1 DEF FirstAt
      <4>2. CASE id \notin Ids(nodes) /\ pos' = 0
        BY <4>2
      <4> QED BY <2>2, <4>1, <4>2 DEF Scan
    <3>3. adder' = "scanned" /\ nodes' = nodes /\ adding'.id = id
      BY <2>2 DEF Scan
    <3> QED BY <1>4, <1>7, <3>1, <3>2, <3>3 DEF AddHolds
  <2>3. ASSUME PopFound PROVE AddHolds'
    <3>1. HoldsLast(nodes, heard, 0, now) /\ pos \in 1 .. Len(nodes) /\ nodes[pos].id = adding.id
      BY <1>2, <1>5, <2>3 DEF AddHolds, PopFound
    <3>2. PICK i : i = Len(heard) - Len(nodes) + pos
      OBVIOUS
    <3>3. i \in 1 .. Len(heard) /\ heard[i] = nodes[pos]
          /\ HoldsLast(RemoveAt(nodes, pos), RemoveAt(heard, i), 1, now)
      BY <1>5, <3>1, <3>2, HoldsFound
    <3>4. Forgotten = RemoveAt(heard, i)
      BY <1>0, <1>2, <1>5, <3>1, <3>3, ForgottenIs, LenNat
    <3>5. Forgotten' = Forgotten /\ nodes' = RemoveAt(nodes, pos) /\ adder' = "popped"
      BY <1>7, <2>3, ForgottenKept DEF PopFound
    <3>6. HoldsLast(nodes', Forgotten', 1, now')
      BY <1>4, <3>3, <3>4, <3>5
    <3> QED BY <3>5, <3>6 DEF AddHolds
  <2>4. ASSUME PopFails PROVE AddHolds'
    <3>1. HoldsLast(nodes, heard, 0, now) /\ adder' = "idle" /\ nodes' = nodes
      BY <1>2, <2>4 DEF AddHolds, PopFails
    <3>2. HoldsLast(nodes', heard', 0, now')
      BY <1>4, <1>7, <3>1
    <3> QED BY <3>1, <3>2 DEF AddHolds
  <2>5. ASSUME HasRoom PROVE AddHolds'
    <3>1. HoldsLast(nodes, heard, 0, now) /\ adding.id \notin Ids(nodes) /\ Len(nodes) < K
      BY <1>2, <2>5 DEF AddHolds, HasRoom
    <3>2. HoldsLast(nodes, Forgotten, 1, now)
      BY <1>0, <1>2, <1>5, <3>1, ForgottenBefore, HoldsWithRoom
    <3>3. Forgotten' = Forgotten /\ nodes' = nodes /\ adder' = "popped"
      BY <1>7, <2>5, ForgottenKept DEF HasRoom
    <3>4. HoldsLast(nodes', Forgotten', 1, now')
      BY <1>4, <3>2, <3>3
    <3> QED BY <3>3, <3>4 DEF AddHolds
  <2>6. ASSUME IsFull PROVE AddHolds'
    <3>1. HoldsLast(nodes, heard, 0, now) /\ adding.id \notin Ids(nodes) /\ pos = 0
          /\ Len(nodes) >= K
      BY <1>2, <2>6 DEF AddHolds, IsFull
    <3>2. Len(nodes) = K
      <4>1. Len(nodes) <= K
        BY <1>5, <3>1 DEF HoldsLast
      <4>2. Len(nodes) \in Nat /\ K \in Nat /\ Len(nodes) >= K
        BY <1>5, <3>1, KAssumption
      <4> QED BY <4>1, <4>2
    <3>3. /\ adder' = "full" /\ UNCHANGED <<nodes, adding, pos>>
      BY <2>6 DEF IsFull
    <3>4. HoldsLast(nodes', heard', 0, now')
      BY <1>4, <1>7, <3>1, <3>3
    <3> QED BY <3>1, <3>2, <3>3, <3>4 DEF AddHolds
  <2>7. ASSUME PopHead PROVE AddHolds'
    <3>1. HoldsLast(nodes, heard, 0, now) /\ adding.id \notin Ids(nodes) /\ Len(nodes) = K
      BY <1>2, <2>7 DEF AddHolds, PopHead
    <3>2. HoldsLast(Tail(nodes), Forgotten, 1, now)
      BY <1>0, <1>2, <1>5, <3>1, ForgottenBefore, HoldsWithout
    <3>3. Forgotten' = Forgotten /\ nodes' = Tail(nodes) /\ adder' = "popped"
      BY <1>7, <2>7, ForgottenKept DEF PopHead
    <3>4. HoldsLast(nodes', Forgotten', 1, now')
      BY <1>4, <3>2, <3>3
    <3> QED BY <3>3, <3>4 DEF AddHolds
  <2>8. ASSUME Stamp PROVE AddHolds'
    <3>1. HoldsLast(nodes, Forgotten, 1, now)
      BY <1>2, <2>8 DEF AddHolds, Stamp
    <3>2. adding'.id = adding.id
      BY <1>0, <2>8 DEF Stamp, BucketTypeOK
    <3>3. Forgotten' = Forgotten /\ nodes' = nodes /\ adder' = "bound"
      BY <1>7, <2>8, <3>2, ForgottenKept DEF Stamp
    <3>4. HoldsLast(nodes', Forgotten', 1, now')
      BY <1>4, <3>1, <3>3
    <3> QED BY <3>3, <3>4 DEF AddHolds
  <2> QED BY <2>1, <2>2, <2>3, <2>4, <2>5, <2>6, <2>7, <2>8, <1>7 DEF Add
<1>8. CASE AppendEntry
  <2>1. HoldsLast(nodes, Forgotten, 1, now) /\ adder' = "idle" /\ ~orphaned'
    BY <1>2, <1>8 DEF AddHolds, AppendEntry
  <2>2. nodes' = Append(nodes, adding) /\ heard' = Append(Forgotten, adding)
        /\ adding \in PeerEntry
    BY <1>0, <1>1, <1>2, <1>8 DEF AppendEntry, Remembered, AddingInv
  <2>3. /\ Forgotten \in Seq(PeerEntry)
        /\ \A j \in DOMAIN Forgotten : Forgotten[j].id # adding.id
        /\ \A j, k \in DOMAIN Forgotten : Forgotten[j].id = Forgotten[k].id => j = k
    BY <1>0, <1>2, ForgottenIs
  <2>4. HoldsLast(nodes', heard', 0, now)
    BY <1>5, <2>1, <2>2, <2>3, HoldsAppended
  <2>5. HeardOnce'
    <3>1. /\ DOMAIN heard' = 1 .. Len(Forgotten) + 1 /\ Len(Forgotten) \in Nat
          /\ DOMAIN Forgotten = 1 .. Len(Forgotten)
          /\ heard'[Len(Forgotten) + 1] = adding
          /\ \A j \in 1 .. Len(Forgotten) : heard'[j] = Forgotten[j]
      BY <2>2, <2>3, AppendLaw, LenNat
    <3>2. \A j \in 1 .. Len(Forgotten) : heard'[j].id # adding.id
      BY <2>3, <3>1
    <3>3. \A j, k \in 1 .. Len(Forgotten) : heard'[j].id = heard'[k].id => j = k
      BY <2>3, <3>1
    <3>4. \A j \in DOMAIN heard' : j \in 1 .. Len(Forgotten) \/ j = Len(Forgotten) + 1
      BY <3>1
    <3> QED BY <3>1, <3>2, <3>3, <3>4 DEF HeardOnce
  <2> QED BY <1>4, <2>1, <2>4, <2>5 DEF AddHolds
<1>9. AppendEntry \/ (heard' = heard /\ orphaned' = orphaned)
  BY <1>3 DEF Add, Scan, Overlaps, PopFound, PopFails, HasRoom, IsFull, PopHead, Stamp
<1> QED BY <1>7, <1>8, <1>9

\* Steps of evict_stale while add is not running
LEMMA StartHeard ==
  ASSUME BucketInv, HeardInv, StartEviction
  PROVE  HeardInv'
<1>0. BucketTypeOK /\ now <= clock /\ now' = clock /\ clock' = clock
  BY DEF BucketInv, HeardInv, StartEviction
<1>1. clock \in Nat /\ now \in Nat /\ heard \in Seq(PeerEntry) /\ nodes \in Seq(PeerEntry)
      /\ Len(nodes) \in Nat
  BY <1>0, LenNat DEF BucketTypeOK
<1>2. ASSUME ~overlapped'
      PROVE  /\ adder' = "idle" \/ evictor' = "idle"
             /\ ~orphaned' /\ HeardOnce' /\ AddHolds'
             /\ evictor' = "visiting" => KeptLast'
  <2>1. ~overlapped /\ adder = "idle" /\ heard' = heard
    BY <1>2 DEF StartEviction, Overlaps
  <2>2. ~orphaned /\ HeardOnce /\ HoldsLast(nodes, heard, 0, now)
    BY <2>1 DEF HeardInv, AddHolds
  <2>3. UNCHANGED <<nodes, adder, adding, pos, orphaned>> /\ kept' = <<>> /\ next' = 1
    BY DEF StartEviction, adderVars
  <2>4. HoldsLast(nodes', heard', 0, now')
    <3>1. HoldsLast(nodes, heard, 0, clock)
      BY <1>0, <1>1, <2>2, HoldsLater
    <3> QED BY <1>0, <2>1, <2>3, <3>1
  <2>5. AddHolds'
    BY <2>1, <2>3, <2>4 DEF AddHolds
  <2>6. KeptLast'
    <3>1. Len(kept') = 0 /\ DOMAIN kept' = {}
      BY <2>3
    <3> QED BY <1>1, <2>3, <3>1 DEF KeptLast
  <2>7. HeardOnce'
    BY <2>1, <2>2 DEF HeardOnce
  <2> QED BY <2>1, <2>2, <2>3, <2>5, <2>6, <2>7
<1>3. now' <= clock'
  BY <1>0, <1>1
<1> QED BY <1>2, <1>3 DEF HeardInv

LEMMA VisitHeard ==
  ASSUME BucketInv, HeardInv, Visit
  PROVE  HeardInv'
<1>0. BucketTypeOK /\ OrderInv
  BY DEF BucketInv
<1>1. /\ nodes \in Seq(PeerEntry) /\ kept \in Seq(PeerEntry) /\ next \in Nat \ {0} /\ now \in Nat
      /\ Len(nodes) \in Nat /\ Len(kept) \in Nat
      /\ DOMAIN nodes = 1 .. Len(nodes) /\ DOMAIN kept = 1 .. Len(kept)
  BY <1>0, LenNat DEF BucketTypeOK
<1>2. /\ UNCHANGED <<clock, nodes, adder, adding, pos, orphaned, evictor, now, heard, overlapped>>
      /\ evictor = "visiting" /\ next <= Len(nodes) /\ next' = next + 1
      /\ kept' = IF Fresh(nodes[next]) THEN Append(kept, nodes[next]) ELSE kept
  BY DEF Visit, adderVars
<1>4. ASSUME ~overlapped PROVE KeptLast'
  <2> DEFINE d == next - 1 - Len(kept)
  <2>1. /\ next - 1 <= Len(nodes) /\ d >= 0
        /\ \A i \in DOMAIN kept : kept[i] = nodes[d + i] /\ Fresh(kept[i])
        /\ \A i \in 1 .. d : ~Fresh(nodes[i])
    BY <1>2, <1>4 DEF HeardInv, KeptLast
  <2>2. next \in DOMAIN nodes /\ d \in Nat /\ d + Len(kept) = next - 1 /\ next' - 1 = next
    BY <1>1, <1>2, <2>1
  <2>3. CASE Fresh(nodes[next])
    <3>1. /\ kept' = Append(kept, nodes[next]) /\ nodes[next] \in PeerEntry
      BY <1>1, <1>2, <2>2, <2>3
    <3>2. /\ Len(kept') = Len(kept) + 1 /\ DOMAIN kept' = 1 .. Len(kept) + 1
          /\ kept'[Len(kept) + 1] = nodes[next]
          /\ \A i \in 1 .. Len(kept) : kept'[i] = kept[i]
      BY <1>1, <3>1, AppendLaw, LenNat
    <3>3. next' - 1 - Len(kept') = d
      BY <1>1, <2>2, <3>2
    <3>4. ASSUME NEW i \in DOMAIN kept' PROVE kept'[i] = nodes[d + i] /\ Fresh(kept'[i])
      <4>1. CASE i \in DOMAIN kept
        BY <1>1, <2>1, <3>2, <4>1
      <4>2. CASE i = Len(kept) + 1
        <5>1. d + i = next
          BY <1>1, <2>2, <4>2
        <5> QED BY <2>3, <3>2, <4>2, <5>1
      <4> QED BY <1>1, <3>2, <4>1, <4>2
    <3>5. /\ next' - 1 <= Len(nodes')
          /\ \A i \in DOMAIN kept' : kept'[i] = nodes'[d + i] /\ now' <= kept'[i].seen + MaxAge
          /\ \A i \in 1 .. d : ~(now' <= nodes'[i].seen + MaxAge)
      <4>1. next' - 1 <= Len(nodes')
        BY <1>2, <2>2
      <4>2. \A i \in DOMAIN kept' : kept'[i] = nodes'[d + i] /\ now' <= kept'[i].seen + MaxAge
        BY <1>2, <3>4 DEF Fresh
      <4>3. \A i \in 1 .. d : ~(now' <= nodes'[i].seen + MaxAge)
        BY <1>2, <2>1 DEF Fresh
      <4> QED BY <4>1, <4>2, <4>3
    <3> QED BY <2>2, <3>3, <3>5 DEF KeptLast, Fresh
  <2>4. CASE ~Fresh(nodes[next])
    <3>1. kept' = kept
      BY <1>2, <2>4
    <3>2. Len(kept) = 0
      <4>1. ASSUME Len(kept) # 0 PROVE FALSE
        <5>1. Len(kept) \in DOMAIN kept /\ d + Len(kept) \in DOMAIN nodes
          BY <1>1, <2>1, <2>2, <4>1
        <5>2. Fresh(nodes[next - 1]) /\ next - 1 \in DOMAIN nodes
          BY <2>1, <2>2, <5>1
        <5>3. nodes[next - 1].seen <= nodes[next].seen
          BY <1>0, <1>1, <2>2, <5>2 DEF OrderInv, Sorted
        <5>4. nodes[next - 1].seen \in Nat /\ nodes[next].seen \in Nat
          BY <1>1, <2>2, <5>2, SeenNat
        <5> QED BY <1>1, <2>4, <5>2, <5>3, <5>4, AgeAssumption DEF Fresh
      <4> QED BY <4>1
    <3>3. d = next - 1 /\ next' - 1 - Len(kept') = next
      BY <1>1, <2>2, <3>1, <3>2
    <3>4. \A i \in 1 .. next : ~Fresh(nodes[i])
      <4>1. \A i \in 1 .. next : i \in 1 .. next - 1 \/ i = next
        BY <1>1
      <4> QED BY <2>1, <2>4, <3>3, <4>1
    <3>5. DOMAIN kept' = {}
      BY <1>1, <3>1, <3>2
    <3>6. \A i \in 1 .. next : ~(now' <= nodes'[i].seen + MaxAge)
      BY <1>2, <3>4 DEF Fresh
    <3>7. next' - 1 <= Len(nodes') /\ next >= 0
      BY <1>1, <1>2, <2>2
    <3> QED BY <3>3, <3>5, <3>6, <3>7 DEF KeptLast, Fresh
  <2> QED BY <2>3, <2>4
<1>5. Forgotten' = Forgotten
  BY <1>2, ForgottenKept
<1>6. AddHolds => AddHolds'
  BY <1>2, <1>5 DEF AddHolds
<1>7. HeardOnce => HeardOnce'
  BY <1>2 DEF HeardOnce
<1> QED BY <1>2, <1>4, <1>6, <1>7 DEF HeardInv

LEMMA ReplaceHeard ==
  ASSUME BucketInv, HeardInv, Replace
  PROVE  HeardInv'
<1>1. /\ nodes \in Seq(PeerEntry) /\ kept \in Seq(PeerEntry) /\ heard \in Seq(PeerEntry)
      /\ next \in Nat \ {0} /\ now \in Nat
      /\ Len(nodes) \in Nat /\ Len(kept) \in Nat
      /\ DOMAIN nodes = 1 .. Len(nodes) /\ DOMAIN kept = 1 .. Len(kept)
  BY LenNat DEF BucketInv, BucketTypeOK
<1>2. /\ UNCHANGED <<clock, adder, adding, pos, now, heard, overlapped>>
      /\ nodes' = kept /\ orphaned' = (adder = "bound") /\ evictor' = "idle"
      /\ evictor = "visiting" /\ next > Len(nodes)
  BY DEF Replace
<1>3. ASSUME ~overlapped PROVE ~orphaned' /\ HeardOnce' /\ AddHolds'
  <2>1. /\ adder = "idle" /\ HeardOnce /\ HoldsLast(nodes, heard, 0, now) /\ KeptLast
    BY <1>2, <1>3 DEF HeardInv, AddHolds
  <2> DEFINE d == next - 1 - Len(kept)
  <2>2. /\ d \in Nat /\ Len(nodes) = d + Len(kept)
        /\ \A i \in DOMAIN kept : kept[i] = nodes[d + i]
        /\ \A i \in 1 .. d : ~Fresh(nodes[i])
    BY <1>1, <1>2, <2>1 DEF KeptLast
  <2> HIDE DEF d
  <2>3. \A i \in 1 .. d : nodes[i].seen + MaxAge < now
    <3> TAKE i \in 1 .. d
    <3>1. i \in DOMAIN nodes
      BY <1>1, <2>2
    <3>2. nodes[i].seen \in Nat /\ ~(now <= nodes[i].seen + MaxAge)
      BY <1>1, <2>2, <3>1, SeenNat DEF Fresh
    <3> QED BY <1>1, <3>2, AgeAssumption
  <2>4. HoldsLast(kept, heard, 0, now)
    BY <1>1, <2>1, <2>2, <2>3, HoldsEvicted
  <2>5. HoldsLast(nodes', heard', 0, now') /\ adder' = "idle"
    BY <1>2, <2>1, <2>4
  <2>6. HeardOnce'
    BY <1>2, <2>1 DEF HeardOnce
  <2> QED BY <1>2, <2>1, <2>5, <2>6 DEF AddHolds
<1> QED BY <1>2, <1>3 DEF HeardInv

\* Steps that change none of it
LEMMA QuietHeard ==
  ASSUME BucketInv, HeardInv, Tick \/ UNCHANGED bucketVars
  PROVE  HeardInv'
<1>1. UNCHANGED <<nodes, adder, adding, pos, orphaned, evictor, now, next, kept, heard, overlapped>>
  BY DEF Tick, bucketVars, adderVars, evictorVars
<1>2. clock \in Nat /\ now \in Nat /\ now <= clock
  BY DEF BucketInv, BucketTypeOK, HeardInv
<1>3. clock' = clock \/ clock' = clock + 1
  BY DEF Tick, bucketVars
<1>4. now' <= clock'
  BY <1>1, <1>2, <1>3
<1>5. Forgotten' = Forgotten
  BY <1>1, ForgottenKept
<1>6. AddHolds => AddHolds'
  BY <1>1, <1>5 DEF AddHolds
<1>7. HeardOnce => HeardOnce'
  BY <1>1 DEF HeardOnce
<1>8. KeptLast => KeptLast'
  BY <1>1 DEF KeptLast, Fresh
<1> QED BY <1>1, <1>4, <1>6, <1>7, <1>8 DEF HeardInv

\* What the bucket holds of what was heard, as long as add and evict_stale do not overlap:
\* after every step of either, the end of it, but for peers that were stale.
THEOREM HeardInvariance == BucketSpec => []HeardInv
<1>1. BucketInit => HeardInv
  <2> SUFFICES ASSUME BucketInit PROVE HeardInv
    OBVIOUS
  <2>1. /\ now = 0 /\ clock = 0 /\ adder = "idle" /\ evictor = "idle" /\ ~orphaned
        /\ nodes = <<>> /\ heard = <<>>
    BY DEF BucketInit
  <2>2. Len(<<>>) = 0 /\ DOMAIN <<>> = {} /\ 1 .. 0 - 0 = {} /\ 0 + 0 <= K
    BY KAssumption
  <2>3. HoldsLast(nodes, heard, 0, now)
    BY <2>1, <2>2 DEF HoldsLast, IsSuffixOf
  <2>4. HeardOnce
    BY <2>1, <2>2 DEF HeardOnce
  <2> QED BY <2>1, <2>3, <2>4 DEF HeardInv, AddHolds
<1>2. BucketInv /\ HeardInv /\ [BucketNext]_bucketVars => HeardInv'
  <2> SUFFICES ASSUME BucketInv, HeardInv, [BucketNext]_bucketVars PROVE HeardInv'
    OBVIOUS
  <2>1. CASE Add /\ ~overlapped'
    BY <2>1, AddHeard
  <2>2. CASE Add /\ overlapped'
    <3>1. UNCHANGED <<clock, now>>
      BY <2>2 DEF Add, Scan, PopFound, PopFails, HasRoom, IsFull, PopHead, Stamp, AppendEntry,
                  evictorVars
    <3> QED BY <2>2, <3>1 DEF HeardInv
  <2>3. CASE Evict
    BY <2>3, StartHeard, VisitHeard, ReplaceHeard DEF Evict
  <2>4. CASE Tick \/ UNCHANGED bucketVars
    BY <2>4, QuietHeard
  <2> QED BY <2>1, <2>2, <2>3, <2>4 DEF BucketNext
<1> QED BY <1>1, <1>2, Invariance, PTL DEF BucketSpec

\* As long as add and evict_stale never overlapped, a bucket at rest holds the most recently
\* heard peers in the order they were heard, whatever its size and the age of a stale peer
\* (kbucket.py:43-71).
THEOREM BucketHoldsLastK == BucketSpec => []LastKHeard
<1>1. BucketInv /\ HeardInv => LastKHeard
  <2> SUFFICES ASSUME BucketTypeOK, HeardInv, ~overlapped, adder = "idle"
               PROVE  /\ Len(nodes) <= K
                      /\ IsSuffixOf(nodes, heard)
                      /\ \A i \in DOMAIN heard :
                           (clock <= heard[i].seen + MaxAge /\ Len(heard) - i < K)
                             => heard[i] \in Range(nodes)
    BY DEF BucketInv, LastKHeard
  <2>1. HoldsLast(nodes, heard, 0, now) /\ now <= clock
    BY DEF HeardInv, AddHolds
  <2>2. clock \in Nat /\ now \in Nat /\ heard \in Seq(PeerEntry) /\ nodes \in Seq(PeerEntry)
        /\ DOMAIN heard = 1 .. Len(heard) /\ 0 \in {0, 1}
    BY LenNat DEF BucketTypeOK
  <2>3. /\ Len(nodes) \in Nat /\ Len(heard) \in Nat /\ DOMAIN nodes = 1 .. Len(nodes)
        /\ Len(heard) - Len(nodes) \in Nat /\ Len(nodes) + 0 <= K
        /\ \A j \in 1 .. Len(nodes) : nodes[j] = heard[(Len(heard) - Len(nodes)) + j]
        /\ \A j \in 1 .. Len(heard) - Len(nodes) :
             Len(heard) + 0 - j >= K \/ heard[j].seen + MaxAge < now
    BY <2>1, <2>2, HoldsIs
  <2>4. Len(nodes) <= K
    BY <2>3
  <2>5. IsSuffixOf(nodes, heard)
    BY <2>1 DEF HoldsLast
  <2>6. ASSUME NEW i \in DOMAIN heard, clock <= heard[i].seen + MaxAge, Len(heard) - i < K
        PROVE  heard[i] \in Range(nodes)
    <3>1. heard[i].seen \in Nat /\ i \in 1 .. Len(heard)
      BY <2>2, SeenNat
    <3>2. ~(heard[i].seen + MaxAge < now)
      BY <2>1, <2>2, <2>6, <3>1, AgeAssumption
    <3>3. i \notin 1 .. Len(heard) - Len(nodes)
      BY <2>3, <2>6, <3>1, <3>2, KAssumption
    <3> DEFINE j == i - (Len(heard) - Len(nodes))
    <3>4. j \in 1 .. Len(nodes) /\ (Len(heard) - Len(nodes)) + j = i
      BY <2>3, <3>1, <3>3
    <3>5. nodes[j] = heard[i] /\ j \in DOMAIN nodes
      BY <2>3, <3>4
    <3> QED BY <3>5 DEF Range
  <2> QED BY <2>4, <2>5, <2>6
<1> QED BY <1>1, Invariance, HeardInvariance, PTL

-----------------------------------------------------------------------------
(* Kademlia *)

\* What the theorems about the DHT assume: the seed and the keys looked up are nodes.
DhtAssumption ==
  /\ Seed \in DhtNode /\ Lookups \subseteq DhtNode
  /\ StaleRounds \in Nat /\ DhtFaults \in Nat

LEMMA MsgType ==
  ASSUME NEW kind \in Kind, NEW n \in DhtNode, NEW p \in DhtNode, NEW arg \in SUBSET DhtNode
  PROVE  Msg(kind, n, p, arg) \in Message
<1>1. (kind \in {"PONG", "FIND_NODE", "ANNOUNCE"}) \in BOOLEAN
  OBVIOUS
<1> QED BY <1>1 DEF Msg, Message

LEMMA RepliesType ==
  ASSUME DhtTypeOK, NEW m \in net
  PROVE  Replies(m) \subseteq Message
<1>1. m \in Message
  BY DEF DhtTypeOK
<1>2. m.kind \in Kind /\ m.from \in DhtNode /\ m.to \in DhtNode /\ m.arg \in SUBSET DhtNode
  BY <1>1 DEF Message
<1>3. /\ Table(m.to) \in SUBSET DhtNode /\ TableWith(m.to, m.from) \in SUBSET DhtNode
      /\ {m.to} \in SUBSET DhtNode
  BY <1>2 DEF Table, TableWith
<1>4. /\ Msg("PONG", m.to, m.from, {}) \in Message
      /\ Msg("VALUE", m.to, m.from, m.arg) \in Message
      /\ \A q \in DhtNode : Msg("FIND_NODE", m.to, q, {m.to}) \in Message
  BY <1>2, <1>3, MsgType DEF Kind
<1>5. \A b \in BOOLEAN : Found(m.to, m.from, TableWith(m.to, m.from), b) \in Message
  BY <1>2, <1>3 DEF Found, Message, Kind
<1>6. \A q \in m.arg \ {m.to} : q \in DhtNode
  BY <1>2
<1> HIDE DEF Message
<1> QED BY <1>4, <1>5, <1>6 DEF Replies

\* A node that handles a message
LEMMA HandleTypes ==
  ASSUME DhtAssumption, DhtTypeOK, NEW m \in net, Handle(m)
  PROVE  /\ m \in Message /\ m.from \in DhtNode /\ m.to \in DhtNode
         /\ Named(m) \in SUBSET DhtNode
         /\ age' \in [DhtNode -> [DhtNode -> 0 .. Absent]] /\ missed' \in [DhtNode -> [DhtNode -> Nat]]
         /\ knownPeers' \in [DhtNode -> SUBSET DhtNode] /\ storage' \in [DhtNode -> SUBSET DhtNode]
         /\ UNCHANGED <<dhtStatus, phase>>
         /\ \A n, p \in DhtNode :
              /\ n = m.to /\ p \in ({m.from} \union Named(m)) \ {n} =>
                   age'[n][p] = 0 /\ missed'[n][p] = 0
              /\ ~(n = m.to /\ p \in ({m.from} \union Named(m)) \ {n}) =>
                   age'[n][p] = age[n][p] /\ missed'[n][p] = missed[n][p]
<1>1. m \in Message
  BY DEF DhtTypeOK
<1>2. m.from \in DhtNode /\ m.to \in DhtNode /\ m.arg \in SUBSET DhtNode
  BY <1>1 DEF Message
<1>3. Named(m) \in SUBSET DhtNode
  BY <1>2 DEF Named
<1> DEFINE n == m.to
           met == {m.from} \union Named(m)
<1>4. /\ age' = [age EXCEPT ![n] = [p \in DhtNode |-> IF p \in met \ {n} THEN 0 ELSE age[n][p]]]
      /\ missed' = [missed EXCEPT ![n] = [p \in DhtNode |-> IF p \in met \ {n} THEN 0 ELSE missed[n][p]]]
  BY DEF Handle, Adds
<1>5. age \in [DhtNode -> [DhtNode -> 0 .. Absent]] /\ missed \in [DhtNode -> [DhtNode -> Nat]]
      /\ 0 \in 0 .. Absent /\ knownPeers \in [DhtNode -> SUBSET DhtNode] /\ storage \in [DhtNode -> SUBSET DhtNode]
  BY DEF DhtTypeOK, DhtAssumption, Absent
<1>6. /\ [p \in DhtNode |-> IF p \in met \ {n} THEN 0 ELSE age[n][p]] \in [DhtNode -> 0 .. Absent]
      /\ [p \in DhtNode |-> IF p \in met \ {n} THEN 0 ELSE missed[n][p]] \in [DhtNode -> Nat]
  BY <1>2, <1>5
<1>7. age' \in [DhtNode -> [DhtNode -> 0 .. Absent]] /\ missed' \in [DhtNode -> [DhtNode -> Nat]]
  BY <1>4, <1>5, <1>6
<1>8. \A k, p \in DhtNode :
        /\ k = n /\ p \in met \ {n} => age'[k][p] = 0 /\ missed'[k][p] = 0
        /\ ~(k = n /\ p \in met \ {n}) =>
             age'[k][p] = age[k][p] /\ missed'[k][p] = missed[k][p]
  BY <1>4, <1>5
<1>9. knownPeers' \in [DhtNode -> SUBSET DhtNode]
  BY <1>2, <1>3, <1>5 DEF Handle
<1>10. storage' \in [DhtNode -> SUBSET DhtNode]
  BY <1>2, <1>5 DEF Handle
<1>11. UNCHANGED <<dhtStatus, phase>>
  BY DEF Handle
<1> QED BY <1>1, <1>2, <1>3, <1>7, <1>8, <1>9, <1>10, <1>11

\* What Vanishes does to the pings that were missed
LEMMA VanishesIs ==
  ASSUME DhtTypeOK, NEW m \in net, Vanishes(m)
  PROVE  /\ missed' \in [DhtNode -> [DhtNode -> Nat]] /\ net' = net \ {m}
         /\ UNCHANGED <<dhtStatus, age, knownPeers, storage, phase>>
         /\ \A n, p \in DhtNode :
              missed'[n][p] = IF Between(m, n, p) /\ age[n][p] # 0 /\ ~Awaits(n, p)'
                              THEN missed[n][p] + 1 ELSE missed[n][p]
<1>1. missed \in [DhtNode -> [DhtNode -> Nat]]
  BY DEF DhtTypeOK
<1>2. \A n, p \in DhtNode :
        missed'[n][p] = IF Between(m, n, p) /\ age[n][p] # 0 /\ ~Awaits(n, p)'
                        THEN missed[n][p] + 1 ELSE missed[n][p]
  BY DEF Vanishes, Awaits
<1>3. missed' = [n \in DhtNode |-> [p \in DhtNode |-> missed'[n][p]]]
  BY DEF Vanishes
<1>4. \A n, p \in DhtNode : missed'[n][p] \in Nat
  <2> TAKE n, p \in DhtNode
  <2>1. missed[n][p] \in Nat
    BY <1>1
  <2> QED BY <1>2, <2>1
<1>5. missed' \in [DhtNode -> [DhtNode -> Nat]]
  BY <1>3, <1>4
<1> QED BY <1>2, <1>5 DEF Vanishes

\* One round
LEMMA OlderIs ==
  ASSUME DhtAssumption, DhtTypeOK, NEW n \in DhtNode,
         NEW late \in SUBSET {p \in DhtNode : age[n][p] = StaleRounds - 2}
  PROVE  /\ Older(n, late) \in [DhtNode -> 0 .. Absent]
         /\ \A p \in DhtNode :
              LET a == age[n][p]
                  b == Older(n, late)[p]
              IN  /\ a = Absent => b = Absent
                  /\ a # Absent => \/ b = StaleRounds /\ a >= StaleRounds - 2
                                   \/ b = a + 1 /\ b < StaleRounds
<1>1. \A p \in DhtNode : age[n][p] \in 0 .. StaleRounds + 1
  BY DEF DhtTypeOK, Absent
<1>2. StaleRounds \in Nat /\ Absent = StaleRounds + 1
  BY DEF DhtAssumption, Absent
<1>3. ASSUME NEW p \in DhtNode
      PROVE  LET a == age[n][p]
                 b == Older(n, late)[p]
             IN  /\ a = Absent => b = Absent
                 /\ a # Absent => \/ b = StaleRounds /\ a >= StaleRounds - 2
                                  \/ b = a + 1 /\ b < StaleRounds
  <2>1. Older(n, late)[p] = CASE ~InTable(n, p) -> Absent
                    [] p \in late -> StaleRounds
                    [] OTHER -> IF age[n][p] < StaleRounds THEN age[n][p] + 1 ELSE StaleRounds
    BY DEF Older
  <2>2. p \in late => age[n][p] = StaleRounds - 2
    OBVIOUS
  <2>3. CASE age[n][p] = Absent
    <3>1. ~InTable(n, p)
      BY <2>3 DEF InTable
    <3>2. p \notin late
      BY <1>2, <2>2, <2>3
    <3>3. Older(n, late)[p] = Absent
      BY <2>1, <3>1, <3>2
    <3> QED BY <2>3, <3>3
  <2>4. CASE age[n][p] # Absent /\ p \in late
    <3>1. Older(n, late)[p] = StaleRounds
      BY <2>1, <2>4 DEF InTable
    <3> QED BY <1>1, <1>2, <2>2, <2>4, <3>1
  <2>5. CASE age[n][p] # Absent /\ p \notin late
    <3>1. Older(n, late)[p] = IF age[n][p] < StaleRounds THEN age[n][p] + 1 ELSE StaleRounds
      BY <2>1, <2>5 DEF InTable
    <3>2. age[n][p] \in 0 .. StaleRounds
      BY <1>1, <1>2, <2>5
    <3>3. CASE age[n][p] + 1 < StaleRounds
      BY <1>2, <3>1, <3>2, <3>3
    <3>4. CASE ~(age[n][p] + 1 < StaleRounds)
      BY <1>2, <3>1, <3>2, <3>4
    <3> QED BY <3>3, <3>4
  <2> QED BY <2>3, <2>4, <2>5
<1>4. \A p \in DhtNode : Older(n, late)[p] \in 0 .. Absent
  BY <1>1, <1>2, <1>3
<1>5. Older(n, late) = [p \in DhtNode |-> Older(n, late)[p]]
  BY DEF Older
<1> QED BY <1>3, <1>4, <1>5

\* The messages of an entry are messages.
LEMMA DhtTypes ==
  ASSUME DhtAssumption, DhtTypeOK, DhtNext
  PROVE  DhtTypeOK'
<1> USE DEF DhtTypeOK
<1>a. /\ \A n \in DhtNode : Table(n) \in SUBSET DhtNode
      /\ "asleep" \in {"asleep", "evicting"} /\ "evicting" \in {"asleep", "evicting"}
      /\ 0 \in 0 .. Absent /\ Absent \in 0 .. Absent
  BY DEF Table, DhtAssumption, Absent
<1>b. \A kind \in Kind, n, p \in DhtNode, arg \in SUBSET DhtNode : Msg(kind, n, p, arg) \in Message
  BY MsgType
<1>c. {"FIND_NODE", "FIND_VALUE", "ANNOUNCE", "STORE", "PING"} \subseteq Kind
  BY DEF Kind
<1>1. ASSUME NEW n \in DhtNode, Start(n) PROVE DhtTypeOK'
  <2>1. Msg("FIND_NODE", n, Seed, {n}) \in Message
    BY <1>b, <1>c DEF DhtAssumption
  <2>2. net' \subseteq Message
    BY <1>1, <2>1 DEF Start
  <2>3. dhtStatus' \in [DhtNode -> {"new", "up", "gone"}]
    BY <1>1 DEF Start
  <2>4. age' \in [DhtNode -> [DhtNode -> 0 .. Absent]]
    <3>1. [p \in DhtNode |-> Absent] \in [DhtNode -> 0 .. Absent]
      BY <1>a
    <3> QED BY <1>1, <3>1 DEF Start
  <2>5. missed' \in [DhtNode -> [DhtNode -> Nat]]
    <3>1. [p \in DhtNode |-> 0] \in [DhtNode -> Nat]
      OBVIOUS
    <3> QED BY <1>1, <3>1 DEF Start
  <2>6. knownPeers' \in [DhtNode -> SUBSET DhtNode] /\ storage' \in [DhtNode -> SUBSET DhtNode]
    BY <1>1 DEF Start
  <2>7. phase' \in [DhtNode -> {"asleep", "evicting"}] /\ dhtFaults' \in Nat
    BY <1>1, <1>a DEF Start
  <2> QED BY <2>2, <2>3, <2>4, <2>5, <2>6, <2>7
<1>2. ASSUME NEW n \in DhtNode, Leave(n) PROVE DhtTypeOK'
  BY <1>2 DEF Leave, DhtFault
<1>3. ASSUME NEW n \in DhtNode, Refresh(n) PROVE DhtTypeOK'
  <2>1. PICK late \in SUBSET {p \in DhtNode : age[n][p] = StaleRounds - 2} :
          /\ age' = [age EXCEPT ![n] = Older(n, late)]
          /\ net' = net \union {Msg("ANNOUNCE", n, p, {}) : p \in Table(n)}
                        \union {Msg("STORE", n, p, {n}) : p \in Table(n)}
                        \union {Msg("PING", n, p, {}) :
                                  p \in {q \in DhtNode : Older(n, late)[q] < StaleRounds}}
    BY <1>3 DEF Refresh
  <2>2. age' \in [DhtNode -> [DhtNode -> 0 .. Absent]]
    <3>1. Older(n, late) \in [DhtNode -> 0 .. Absent]
      BY OlderIs
    <3> QED BY <2>1, <3>1
  <2>3. net' \subseteq Message
    <3>1. \A p \in DhtNode : /\ Msg("ANNOUNCE", n, p, {}) \in Message
                             /\ Msg("STORE", n, p, {n}) \in Message
                             /\ Msg("PING", n, p, {}) \in Message
      BY <1>b, <1>c
    <3> QED BY <1>a, <2>1, <3>1
  <2>4. storage' \in [DhtNode -> SUBSET DhtNode]
    BY <1>3 DEF Refresh
  <2>5. phase' \in [DhtNode -> {"asleep", "evicting"}]
    BY <1>3, <1>a DEF Refresh
  <2> QED BY <1>3, <2>2, <2>3, <2>4, <2>5 DEF Refresh
<1>4. ASSUME NEW n \in DhtNode, EvictStale(n) PROVE DhtTypeOK'
  <2>1. age' = [age EXCEPT ![n] =
                  [p \in DhtNode |-> IF age[n][p] = StaleRounds THEN Absent ELSE age[n][p]]]
    BY <1>4 DEF EvictStale
  <2>2. [p \in DhtNode |-> IF age[n][p] = StaleRounds THEN Absent ELSE age[n][p]] \in [DhtNode -> 0 .. Absent]
    BY <1>a
  <2>3. age' \in [DhtNode -> [DhtNode -> 0 .. Absent]]
    BY <2>1, <2>2
  <2>4. phase' \in [DhtNode -> {"asleep", "evicting"}]
    BY <1>4, <1>a DEF EvictStale
  <2> QED BY <1>4, <2>3, <2>4 DEF EvictStale
<1>5. ASSUME NEW n \in DhtNode, NEW key \in Lookups, FindPeer(n, key) PROVE DhtTypeOK'
  <2>1. \A p \in DhtNode : Msg("FIND_VALUE", n, p, {key}) \in Message
    BY <1>b, <1>c DEF DhtAssumption
  <2>2. net' \subseteq Message
    BY <1>5, <1>a, <2>1 DEF FindPeer
  <2> QED BY <1>5, <2>2 DEF FindPeer
<1>6. ASSUME NEW m \in net, Receive(m) \/ ReceiveTwice(m) PROVE DhtTypeOK'
  <2>1. Handle(m) /\ net' \subseteq net \union Replies(m) /\ dhtFaults' \in Nat
    BY <1>6 DEF Receive, ReceiveTwice, DhtFault
  <2>2. net' \subseteq Message
    BY <2>1, RepliesType
  <2>3. /\ age' \in [DhtNode -> [DhtNode -> 0 .. Absent]] /\ missed' \in [DhtNode -> [DhtNode -> Nat]]
        /\ knownPeers' \in [DhtNode -> SUBSET DhtNode] /\ storage' \in [DhtNode -> SUBSET DhtNode]
        /\ UNCHANGED <<dhtStatus, phase>>
    BY <2>1, HandleTypes
  <2> QED BY <2>1, <2>2, <2>3
<1>7. ASSUME NEW m \in net, Lose(m) \/ Undeliverable(m) PROVE DhtTypeOK'
  <2>1. Vanishes(m) /\ dhtFaults' \in Nat
    BY <1>7 DEF Lose, Undeliverable, DhtFault
  <2> QED BY <2>1, VanishesIs
<1> QED BY <1>1, <1>2, <1>3, <1>4, <1>5, <1>6, <1>7 DEF DhtNext

-----------------------------------------------------------------------------
\* What MissedInv says of one entry
EntryOK(a, count, awaits) ==
  /\ a \in 1 .. StaleRounds - 1 => a <= count + (IF awaits THEN 1 ELSE 0)
  /\ a = StaleRounds => count >= StaleRounds - 2

\* Every step keeps what is known of the missed pings.
LEMMA MissedStep ==
  ASSUME DhtAssumption, DhtTypeOK, MissedInv, DhtNext
  PROVE  /\ \A n \in DhtNode : age'[n][n] = Absent
         /\ \A n, p \in DhtNode : EntryOK(age'[n][p], missed'[n][p], Awaits(n, p)')
<1>0. /\ age \in [DhtNode -> [DhtNode -> 0 .. Absent]] /\ missed \in [DhtNode -> [DhtNode -> Nat]]
      /\ StaleRounds \in Nat /\ Absent = StaleRounds + 1
      /\ net \subseteq Message
  BY DEF DhtTypeOK, DhtAssumption, Absent
<1>1. /\ \A n \in DhtNode : age[n][n] = Absent
      /\ \A n, p \in DhtNode : EntryOK(age[n][p], missed[n][p], Awaits(n, p))
  BY DEF MissedInv, EntryOK
\* Entries stay, no ping is missed, and what is under way still is.
<1>a. ASSUME NEW n \in DhtNode, NEW p \in DhtNode,
             age'[n][p] = age[n][p], missed'[n][p] = missed[n][p], net \subseteq net'
      PROVE  EntryOK(age'[n][p], missed'[n][p], Awaits(n, p)')
  <2>1. Awaits(n, p) => Awaits(n, p)'
    BY <1>a DEF Awaits, Between
  <2>2. EntryOK(age[n][p], missed[n][p], Awaits(n, p)) /\ missed[n][p] \in Nat
        /\ age[n][p] \in 0 .. Absent
    BY <1>0, <1>1
  <2> QED BY <1>0, <1>a, <2>1, <2>2 DEF EntryOK
<1>b. \A count \in Nat, awaits \in BOOLEAN : EntryOK(Absent, count, awaits)
  BY <1>0 DEF EntryOK
<1>c. \A count \in Nat, awaits \in BOOLEAN : EntryOK(0, count, awaits)
  BY <1>0 DEF EntryOK
<1>d. \A n, p \in DhtNode : Awaits(n, p) \in BOOLEAN /\ Awaits(n, p)' \in BOOLEAN
  BY DEF Awaits
<1>2. ASSUME NEW k \in DhtNode, Start(k)
      PROVE  /\ \A n \in DhtNode : age'[n][n] = Absent
             /\ \A n, p \in DhtNode : EntryOK(age'[n][p], missed'[n][p], Awaits(n, p)')
  <2>1. \A p \in DhtNode : age'[k][p] = Absent /\ missed'[k][p] = 0
    BY <1>0, <1>2 DEF Start
  <2>2. \A n \in DhtNode \ {k} : age'[n] = age[n] /\ missed'[n] = missed[n]
    BY <1>0, <1>2 DEF Start
  <2>3. net \subseteq net'
    BY <1>2 DEF Start
  <2>4. ASSUME NEW n \in DhtNode, NEW p \in DhtNode
        PROVE  EntryOK(age'[n][p], missed'[n][p], Awaits(n, p)')
    <3>1. CASE n = k
      BY <1>b, <1>d, <2>1, <3>1
    <3>2. CASE n # k
      BY <1>a, <2>2, <2>3, <3>2
    <3> QED BY <3>1, <3>2
  <2> QED BY <1>1, <2>1, <2>2, <2>4
<1>3. ASSUME NEW k \in DhtNode, Leave(k) \/ \E key \in Lookups : FindPeer(k, key)
      PROVE  /\ \A n \in DhtNode : age'[n][n] = Absent
             /\ \A n, p \in DhtNode : EntryOK(age'[n][p], missed'[n][p], Awaits(n, p)')
  <2>1. age' = age /\ missed' = missed /\ net \subseteq net'
    BY <1>3 DEF Leave, FindPeer
  <2> QED BY <1>1, <1>a, <2>1
<1>4. ASSUME NEW k \in DhtNode, Refresh(k)
      PROVE  /\ \A n \in DhtNode : age'[n][n] = Absent
             /\ \A n, p \in DhtNode : EntryOK(age'[n][p], missed'[n][p], Awaits(n, p)')
  <2>1. PICK late \in SUBSET {p \in DhtNode : age[k][p] = StaleRounds - 2} :
          /\ age' = [age EXCEPT ![k] = Older(k, late)]
          /\ net' = net \union {Msg("ANNOUNCE", k, p, {}) : p \in Table(k)}
                        \union {Msg("STORE", k, p, {k}) : p \in Table(k)}
                        \union {Msg("PING", k, p, {}) :
                                  p \in {q \in DhtNode : Older(k, late)[q] < StaleRounds}}
    BY <1>4 DEF Refresh
  <2>2. missed' = missed /\ net \subseteq net' /\ Settled(k)
    BY <1>4, <2>1 DEF Refresh
  <2>3. \A n \in DhtNode \ {k} : age'[n] = age[n]
    BY <1>0, <2>1
  <2>4. \A p \in DhtNode : age'[k][p] = Older(k, late)[p]
    BY <1>0, <2>1
  <2>5. \A p \in DhtNode : Older(k, late)[p] < StaleRounds => Awaits(k, p)'
    <3> SUFFICES ASSUME NEW p \in DhtNode, Older(k, late)[p] < StaleRounds PROVE Awaits(k, p)'
      OBVIOUS
    <3>1. Msg("PING", k, p, {}) \in net'
      BY <2>1
    <3>2. Between(Msg("PING", k, p, {}), k, p)
      BY DEF Between, Msg
    <3> QED BY <3>1, <3>2 DEF Awaits
  <2>6. ASSUME NEW p \in DhtNode PROVE EntryOK(age'[k][p], missed'[k][p], Awaits(k, p)')
    <3>1. ~Awaits(k, p)
      BY <2>2 DEF Settled, Awaits
    <3>2. /\ age[k][p] = Absent => Older(k, late)[p] = Absent
          /\ age[k][p] # Absent =>
               \/ Older(k, late)[p] = StaleRounds /\ age[k][p] >= StaleRounds - 2
               \/ Older(k, late)[p] = age[k][p] + 1 /\ Older(k, late)[p] < StaleRounds
      BY OlderIs
    <3>3. EntryOK(age[k][p], missed[k][p], FALSE)
      BY <1>1, <1>d, <3>1
    <3>4. missed[k][p] \in Nat /\ age[k][p] \in 0 .. StaleRounds + 1
      BY <1>0
    <3>5. CASE age[k][p] = Absent
      BY <1>b, <1>d, <2>2, <2>4, <3>2, <3>4, <3>5
    <3>6. CASE Older(k, late)[p] = StaleRounds /\ age[k][p] >= StaleRounds - 2 /\ age[k][p] # Absent
      <4>1. missed[k][p] >= StaleRounds - 2
        <5>1. CASE age[k][p] = 0
          BY <1>0, <3>4, <3>6, <5>1
        <5>2. CASE age[k][p] # 0
          <6>0. StaleRounds \in Nat /\ Absent = StaleRounds + 1
            BY <1>0
          <6>1. age[k][p] \in 1 .. StaleRounds - 1 \/ age[k][p] = StaleRounds
            <7>1. age[k][p] # 0 /\ age[k][p] # StaleRounds + 1 /\ age[k][p] \in 0 .. StaleRounds + 1
              BY <3>4, <3>6, <5>2, <6>0
            <7> QED BY <6>0, <7>1
          <6>2. CASE age[k][p] \in 1 .. StaleRounds - 1
            <7>1. age[k][p] <= missed[k][p] + 0
              BY <3>3, <6>2 DEF EntryOK
            <7> QED BY <1>0, <3>4, <3>6, <7>1
          <6>3. CASE age[k][p] = StaleRounds
            BY <3>3, <6>3 DEF EntryOK
          <6> QED BY <6>1, <6>2, <6>3
        <5> QED BY <5>1, <5>2
      <4>2. StaleRounds \notin 1 .. StaleRounds - 1
        BY <1>0
      <4> QED BY <2>2, <2>4, <3>6, <4>1, <4>2 DEF EntryOK
    <3>7. CASE Older(k, late)[p] = age[k][p] + 1 /\ Older(k, late)[p] < StaleRounds
      <4>1. age[k][p] <= missed[k][p]
        <5>1. CASE age[k][p] = 0
          BY <3>4, <5>1
        <5>2. CASE age[k][p] # 0
          BY <1>0, <3>3, <3>4, <3>7, <5>2 DEF EntryOK
        <5> QED BY <5>1, <5>2
      <4>2. age'[k][p] = age[k][p] + 1 /\ missed'[k][p] = missed[k][p] /\ Awaits(k, p)'
            /\ age[k][p] + 1 < StaleRounds
        BY <2>2, <2>4, <2>5, <3>7
      <4> QED BY <1>0, <3>4, <4>1, <4>2 DEF EntryOK
    <3> QED BY <3>2, <3>5, <3>6, <3>7
  <2>7. \A n \in DhtNode : age'[n][n] = Absent
    <3>1. age'[k][k] = Absent
      BY <1>1, <2>4, OlderIs
    <3> QED BY <1>1, <2>3, <3>1
  <2>8. ASSUME NEW n \in DhtNode, NEW p \in DhtNode
        PROVE  EntryOK(age'[n][p], missed'[n][p], Awaits(n, p)')
    <3>1. CASE n = k
      BY <2>6, <3>1
    <3>2. CASE n # k
      BY <1>a, <2>2, <2>3, <3>2
    <3> QED BY <3>1, <3>2
  <2> QED BY <2>7, <2>8
<1>5. ASSUME NEW k \in DhtNode, EvictStale(k)
      PROVE  /\ \A n \in DhtNode : age'[n][n] = Absent
             /\ \A n, p \in DhtNode : EntryOK(age'[n][p], missed'[n][p], Awaits(n, p)')
  <2>1. missed' = missed /\ net' = net
    BY <1>5 DEF EvictStale
  <2>2. \A n, p \in DhtNode : age'[n][p] = age[n][p] \/ age'[n][p] = Absent
    BY <1>0, <1>5 DEF EvictStale
  <2>3. ASSUME NEW n \in DhtNode, NEW p \in DhtNode
        PROVE  EntryOK(age'[n][p], missed'[n][p], Awaits(n, p)')
    <3>1. CASE age'[n][p] = age[n][p]
      BY <1>a, <2>1, <3>1
    <3>2. CASE age'[n][p] = Absent
      BY <1>0, <1>b, <1>d, <2>1, <3>2
    <3> QED BY <2>2, <3>1, <3>2
  <2> QED BY <1>1, <2>2, <2>3
<1>6. ASSUME NEW m \in net, Receive(m) \/ ReceiveTwice(m)
      PROVE  /\ \A n \in DhtNode : age'[n][n] = Absent
             /\ \A n, p \in DhtNode : EntryOK(age'[n][p], missed'[n][p], Awaits(n, p)')
  <2>1. Handle(m) /\ (net \ {m}) \union Replies(m) \subseteq net'
    BY <1>6 DEF Receive, ReceiveTwice
  <2> DEFINE met == {m.from} \union Named(m)
  <2>2. /\ m.from \in DhtNode /\ m.to \in DhtNode
        /\ \A n, p \in DhtNode :
             /\ n = m.to /\ p \in met \ {n} => age'[n][p] = 0 /\ missed'[n][p] = 0
             /\ ~(n = m.to /\ p \in met \ {n}) =>
                  age'[n][p] = age[n][p] /\ missed'[n][p] = missed[n][p]
    BY <2>1, HandleTypes
  <2>3. \A n \in DhtNode : age'[n][n] = Absent
    BY <1>1, <2>2
  <2>4. ASSUME NEW n \in DhtNode, NEW p \in DhtNode
        PROVE  EntryOK(age'[n][p], missed'[n][p], Awaits(n, p)')
    <3>1. CASE n = m.to /\ p \in met \ {n}
      BY <1>c, <1>d, <2>2, <3>1
    <3>2. CASE ~(n = m.to /\ p \in met \ {n}) /\ n = p
      BY <1>0, <1>b, <1>d, <2>2, <2>3, <3>2
    <3>3. CASE ~(n = m.to /\ p \in met \ {n}) /\ n # p
      <4>1. ~(m.kind = "PONG" /\ m.from = p /\ m.to = n)
        BY <3>3
      <4>2. Awaits(n, p) => Awaits(n, p)'
        <5> SUFFICES ASSUME NEW x \in net, Between(x, n, p) PROVE Awaits(n, p)'
          BY DEF Awaits
        <5>1. CASE x # m
          <6>1. x \in net'
            BY <2>1, <5>1
          <6> QED BY <6>1 DEF Awaits, Between
        <5>2. CASE x = m
          <6>1. m.kind = "PING" /\ m.from = n /\ m.to = p
            BY <4>1, <5>2 DEF Between
          <6>2. Msg("PONG", p, n, {}) \in net'
            BY <2>1, <6>1 DEF Replies
          <6>3. Between(Msg("PONG", p, n, {}), n, p)
            BY DEF Between, Msg
          <6> QED BY <6>2, <6>3 DEF Awaits
        <5> QED BY <5>1, <5>2
      <4>3. age'[n][p] = age[n][p] /\ missed'[n][p] = missed[n][p]
        BY <2>2, <3>3
      <4>4. EntryOK(age[n][p], missed[n][p], Awaits(n, p)) /\ missed[n][p] \in Nat
            /\ age[n][p] \in 0 .. Absent
        BY <1>0, <1>1
      <4> QED BY <1>0, <4>2, <4>3, <4>4 DEF EntryOK
    <3> QED BY <3>1, <3>2, <3>3
  <2> QED BY <2>3, <2>4
<1>7. ASSUME NEW m \in net, Lose(m) \/ Undeliverable(m)
      PROVE  /\ \A n \in DhtNode : age'[n][n] = Absent
             /\ \A n, p \in DhtNode : EntryOK(age'[n][p], missed'[n][p], Awaits(n, p)')
  <2>1. Vanishes(m)
    BY <1>7 DEF Lose, Undeliverable
  <2>2. /\ net' = net \ {m} /\ age' = age
        /\ \A n, p \in DhtNode :
             missed'[n][p] = IF Between(m, n, p) /\ age[n][p] # 0 /\ ~Awaits(n, p)'
                             THEN missed[n][p] + 1 ELSE missed[n][p]
    BY <2>1, VanishesIs
  <2>3. ASSUME NEW n \in DhtNode, NEW p \in DhtNode
        PROVE  EntryOK(age'[n][p], missed'[n][p], Awaits(n, p)')
    <3>1. EntryOK(age[n][p], missed[n][p], Awaits(n, p)) /\ missed[n][p] \in Nat
          /\ age[n][p] \in 0 .. Absent
      BY <1>0, <1>1
    <3>2. CASE age[n][p] = 0
      <4>1. missed'[n][p] = missed[n][p] /\ age'[n][p] = 0
        BY <2>2, <3>2
      <4> QED BY <1>c, <1>d, <3>1, <4>1
    <3>3. CASE Awaits(n, p) /\ ~Awaits(n, p)' /\ age[n][p] # 0
      <4>1. Between(m, n, p)
        BY <2>2, <3>3 DEF Awaits, Between
      <4>2. missed'[n][p] = missed[n][p] + 1
        BY <2>2, <3>3, <4>1
      <4> QED BY <1>0, <2>2, <3>1, <3>3, <4>2 DEF EntryOK
    <3>4. CASE Awaits(n, p) => Awaits(n, p)'
      <4>1. missed'[n][p] >= missed[n][p] /\ missed'[n][p] \in Nat
        BY <2>2, <3>1
      <4> QED BY <1>0, <2>2, <3>1, <3>4, <4>1 DEF EntryOK
    <3> QED BY <3>2, <3>3, <3>4
  <2> QED BY <1>1, <2>2, <2>3
<1> QED BY <1>2, <1>3, <1>4, <1>5, <1>6, <1>7 DEF DhtNext

\* An entry that is silent for n refreshes was sent n pings that it did not answer, but for
\* one whose answer may still come.
THEOREM DhtInvariance == DhtAssumption /\ DhtSpec => []DhtIInv
<1> SUFFICES ASSUME DhtAssumption PROVE DhtSpec => []DhtIInv
  OBVIOUS
<1>1. DhtInit => DhtIInv
  <2> SUFFICES ASSUME DhtInit PROVE DhtIInv
    OBVIOUS
  <2>1. /\ Absent = StaleRounds + 1 /\ Absent \in 0 .. Absent /\ StaleRounds \in Nat
        /\ Absent # StaleRounds /\ Absent \notin 1 .. StaleRounds - 1
    BY DEF DhtAssumption, Absent
  <2>2. DhtTypeOK
    BY <2>1 DEF DhtInit, DhtTypeOK
  <2>3. MissedInv
    BY <2>1 DEF DhtInit, MissedInv
  <2> QED BY <2>2, <2>3 DEF DhtIInv
<1>2. DhtIInv /\ [DhtNext]_dhtVars => DhtIInv'
  <2> SUFFICES ASSUME DhtIInv, [DhtNext]_dhtVars PROVE DhtIInv'
    OBVIOUS
  <2>1. CASE UNCHANGED dhtVars
    <3>1. DhtTypeOK'
      BY <2>1 DEF DhtIInv, DhtTypeOK, dhtVars
    <3>2. age' = age /\ missed' = missed /\ net' = net
      BY <2>1 DEF dhtVars
    <3>3. MissedInv'
      BY <3>2 DEF DhtIInv, MissedInv, Awaits, Between
    <3> QED BY <3>1, <3>3 DEF DhtIInv
  <2>2. CASE DhtNext
    <3>1. DhtTypeOK'
      BY <2>2, DhtTypes DEF DhtIInv
    <3>2. /\ \A n \in DhtNode : age'[n][n] = Absent
          /\ \A n, p \in DhtNode : EntryOK(age'[n][p], missed'[n][p], Awaits(n, p)')
      BY <2>2, MissedStep DEF DhtIInv
    <3>3. MissedInv'
      BY <3>2 DEF MissedInv, EntryOK
    <3> QED BY <3>1, <3>3 DEF DhtIInv
  <2> QED BY <2>1, <2>2
<1> QED BY <1>1, <1>2, PTL DEF DhtSpec

\* Nobody who answers is evicted: an entry leaves a table only after all pings of at least
\* StaleRounds - 2 refreshes stayed without a PONG, however many nodes there are and
\* whatever is lost, doubled and restarted (kademlia_node.py:198-222, kbucket.py:61-64).
THEOREM WhoAnswersStays == DhtAssumption /\ DhtSpec => AnsweringPeersStay
<1> SUFFICES ASSUME DhtAssumption PROVE DhtSpec => AnsweringPeersStay
  OBVIOUS
<1>1. DhtIInv /\ [DhtNext]_dhtVars =>
        [\A n, p \in DhtNode :
           (EvictStale(n) /\ InTable(n, p) /\ ~InTable(n, p)') => missed[n][p] >= StaleRounds - 2]_dhtVars
  <2> SUFFICES ASSUME DhtIInv, NEW n \in DhtNode, NEW p \in DhtNode,
                      EvictStale(n), InTable(n, p), ~InTable(n, p)'
               PROVE  missed[n][p] >= StaleRounds - 2
    OBVIOUS
  <2>1. age \in [DhtNode -> [DhtNode -> 0 .. Absent]]
    BY DEF DhtIInv, DhtTypeOK
  <2>2. age'[n][p] = IF age[n][p] = StaleRounds THEN Absent ELSE age[n][p]
    BY <2>1 DEF EvictStale
  <2>3. age[n][p] = StaleRounds
    BY <2>2 DEF InTable
  <2> QED BY <2>3 DEF DhtIInv, MissedInv
<1> QED BY <1>1, DhtInvariance, PTL DEF DhtSpec, AnsweringPeersStay

-----------------------------------------------------------------------------
(* PeerExchange: types *)

LEMMA SetEntryTypes ==
  ASSUME ExchangeTypeOK, NEW n \in Node, NEW p \in Node \union Far, NEW e \in Entry,
         SetEntry(n, p, e)
  PROVE  /\ entry' \in [Node -> [Node \union Far -> Entry]]
         /\ grown' \subseteq reading
         /\ entry'[n][p] = e
         /\ \A m \in Node, q \in Node \union Far :
              ~(m = n /\ q = p) => entry'[m][q] = entry[m][q]
<1>1. entry \in [Node -> [Node \union Far -> Entry]] /\ grown \subseteq reading
  BY DEF ExchangeTypeOK
<1>2. entry' = [entry EXCEPT ![n][p] = e] /\ grown' \subseteq grown \union reading
  BY DEF SetEntry
<1> QED BY <1>1, <1>2

\* A node that ends keeps nothing, and no other loses or gains anything.
LEMMA EndsTypes ==
  ASSUME ExchangeTypeOK, NEW n \in Node, Ends(n)
  PROVE  /\ up' = up \ {n} /\ reading' \subseteq up' /\ grown' \subseteq reading'
         /\ remaining' \in [Node -> SUBSET Node] /\ calling' \in [Node -> Node \union {NoNode}]
         /\ delivered' \subseteq handlers' /\ handlers' \subseteq handlers
         /\ known' \in [Node -> SUBSET Node]
         /\ entry' \in [Node -> [Node \union Far -> Entry]]
<1> USE DEF ExchangeTypeOK
<1>1. [p \in Node \union Far |-> "none"] \in [Node \union Far -> Entry]
  BY DEF Entry
<1>2. entry' \in [Node -> [Node \union Far -> Entry]]
  BY <1>1 DEF Ends
<1>3. /\ remaining' \in [Node -> SUBSET Node] /\ calling' \in [Node -> Node \union {NoNode}]
      /\ known' \in [Node -> SUBSET Node]
  BY DEF Ends
<1>4. /\ up' = up \ {n} /\ reading' = reading \ {n} /\ grown' = grown \ {n}
      /\ delivered' \subseteq handlers' /\ handlers' \subseteq handlers
  BY DEF Ends
<1> QED BY <1>2, <1>3, <1>4

LEMMA ExchangeTypes ==
  ASSUME MaxFaults \in Nat, ExchangeTypeOK, RegisteredInv, [ExchangeNext]_exchangeVars
  PROVE  ExchangeTypeOK'
<1> USE DEF ExchangeTypeOK
<1>0. Mishap => faults' \in 0 .. MaxFaults
  BY DEF Mishap
<1>1. CASE UNCHANGED exchangeVars
  BY <1>1 DEF exchangeVars
<1>2. ASSUME NEW n \in Node, StartNode(n) PROVE ExchangeTypeOK'
  BY <1>2 DEF StartNode
<1>3. ASSUME NEW n \in Node, CrashNode(n) \/ SnapshotRaises(n) PROVE ExchangeTypeOK'
  <2>1. Ends(n) /\ faults' \in 0 .. MaxFaults /\ raised' \subseteq Node
    BY <1>0, <1>3 DEF CrashNode, SnapshotRaises
  <2>2. /\ up' = up \ {n} /\ reading' \subseteq up' /\ grown' \subseteq reading'
        /\ remaining' \in [Node -> SUBSET Node] /\ calling' \in [Node -> Node \union {NoNode}]
        /\ delivered' \subseteq handlers' /\ handlers' \subseteq handlers
        /\ known' \in [Node -> SUBSET Node]
        /\ entry' \in [Node -> [Node \union Far -> Entry]]
    BY <2>1, EndsTypes
  <2> QED BY <2>1, <2>2
<1>4. ASSUME NEW n \in Node, CallFails(n) PROVE ExchangeTypeOK'
  <2>1. faults' \in 0 .. MaxFaults /\ calling' \in [Node -> Node \union {NoNode}]
    BY <1>0, <1>4 DEF CallFails
  <2> QED BY <1>4, <2>1 DEF CallFails
<1>5. ASSUME NEW n \in Node, CallSucceeds(n) PROVE ExchangeTypeOK'
  <2>1. PICK p : p = calling[n]
    OBVIOUS
  <2>2. p \in Node /\ SetEntry(n, p, "exchanged") /\ "exchanged" \in Entry
    BY <1>5, <2>1 DEF CallSucceeds, Entry
  <2>3. entry' \in [Node -> [Node \union Far -> Entry]] /\ grown' \subseteq reading
    BY <2>2, SetEntryTypes
  <2>4. /\ calling' \in [Node -> Node \union {NoNode}] /\ remaining' \in [Node -> SUBSET Node]
        /\ known' \in [Node -> SUBSET Node]
    BY <1>5, <2>1, <2>2 DEF CallSucceeds
  <2>5. delivered' \subseteq handlers /\ UNCHANGED <<up, handlers, reading, raised, faults>>
    BY <1>5 DEF CallSucceeds
  <2> QED BY <2>3, <2>4, <2>5
<1>6. ASSUME NEW n \in Node, BeginSnapshot(n) \/ EndSnapshot(n) PROVE ExchangeTypeOK'
  BY <1>6 DEF BeginSnapshot, EndSnapshot
<1>7. ASSUME NEW n \in Node, NEW p \in Node, Connect(n, p) PROVE ExchangeTypeOK'
  <2>1. handlers' \subseteq Node \X Node /\ delivered \subseteq handlers'
    BY <1>7 DEF Connect
  <2>2. calling' \in [Node -> Node \union {NoNode}]
    BY <1>7 DEF Connect
  <2>3. UNCHANGED <<up, remaining, delivered, known, entry, reading, grown, raised, faults>>
    BY <1>7 DEF Connect
  <2> QED BY <2>1, <2>2, <2>3
<1>8. ASSUME NEW n \in Node, NEW p \in Node, ServeClient(n, p) PROVE ExchangeTypeOK'
  <2>1. SetEntry(p, n, "exchanged") /\ "exchanged" \in Entry
    BY <1>8 DEF ServeClient, Entry
  <2>2. entry' \in [Node -> [Node \union Far -> Entry]] /\ grown' \subseteq reading
    BY <2>1, SetEntryTypes
  <2>3. /\ known' \in [Node -> SUBSET Node]
        /\ delivered' \subseteq handlers' /\ handlers' \subseteq handlers
        /\ UNCHANGED <<up, remaining, calling, reading, raised, faults>>
    BY <1>8 DEF ServeClient
  <2> QED BY <2>2, <2>3
<1>9. ASSUME NEW n \in Node, NEW p \in Node, HandlerEnds(n, p) PROVE ExchangeTypeOK'
  <2>1. faults' \in 0 .. MaxFaults
    BY <1>0, <1>9 DEF HandlerEnds
  <2> QED BY <1>9, <2>1 DEF HandlerEnds
<1>10. ASSUME NEW n \in Node, NEW p \in Node \union Far, NEW e \in Heard, Hear(n, p, e)
       PROVE  ExchangeTypeOK'
  <2>1. e \in Entry /\ SetEntry(n, p, e)
    BY <1>10 DEF Hear, Entry
  <2>2. entry' \in [Node -> [Node \union Far -> Entry]] /\ grown' \subseteq reading
    BY <2>1, SetEntryTypes
  <2> QED BY <1>10, <2>2 DEF Hear
<1> QED BY <1>1, <1>2, <1>3, <1>4, <1>5, <1>6, <1>7, <1>8, <1>9, <1>10 DEF ExchangeNext

-----------------------------------------------------------------------------
(* PeerExchange: what is registered *)

\* A node that is up registers a peer.
LEMMA RegisterKeeps ==
  ASSUME ExchangeTypeOK, RegisteredInv, NEW n \in up, NEW p \in Node,
         SetEntry(n, p, "exchanged"), known' = [known EXCEPT ![n] = known[n] \union {p}],
         remaining' \in [Node -> SUBSET Node],
         \A m \in Node \ up : remaining'[m] = {} /\ calling'[m] = NoNode,
         handlers' \subseteq handlers, up' = up
  PROVE  RegisteredInv'
<1>0. n \in Node /\ "exchanged" \in Entry
  BY DEF Entry, ExchangeTypeOK
<1>1. /\ entry'[n][p] = "exchanged" /\ n \in Node
      /\ \A m \in Node, q \in Node \union Far : ~(m = n /\ q = p) => entry'[m][q] = entry[m][q]
  BY <1>0, SetEntryTypes
<1>2. \A m \in Node : m # n => known'[m] = known[m]
  BY DEF ExchangeTypeOK
<1>3. known'[n] = known[n] \union {p}
  BY <1>1 DEF ExchangeTypeOK
<1>4. \A m \in Node \ up' : /\ known'[m] = {} /\ remaining'[m] = {} /\ calling'[m] = NoNode
                            /\ \A q \in Node \union Far : entry'[m][q] = "none"
  BY <1>1, <1>2 DEF RegisteredInv
<1>5. ASSUME NEW m \in Node, NEW q \in known'[m]
      PROVE  entry'[m][q] \in {"capability", "exchanged"}
  <2>1. q \in Node
    BY <1>1, <1>2, <1>3, <1>5 DEF ExchangeTypeOK
  <2>2. CASE m = n /\ q = p
    BY <1>1, <2>2
  <2>3. CASE ~(m = n /\ q = p)
    <3>1. q \in known[m]
      BY <1>2, <1>3, <1>5, <2>3
    <3> QED BY <1>1, <2>1, <2>3, <3>1 DEF RegisteredInv
  <2> QED BY <2>2, <2>3
<1> QED BY <1>4, <1>5 DEF RegisteredInv

LEMMA EndsKeeps ==
  ASSUME ExchangeTypeOK, RegisteredInv, NEW n \in Node, Ends(n)
  PROVE  RegisteredInv'
<1>1. /\ up' = up \ {n} /\ handlers' = {h \in handlers : h[2] # n}
      /\ remaining' = [remaining EXCEPT ![n] = {}] /\ calling' = [calling EXCEPT ![n] = NoNode]
      /\ known' = [known EXCEPT ![n] = {}]
      /\ entry' = [entry EXCEPT ![n] = [p \in Node \union Far |-> "none"]]
  BY DEF Ends
<1>2. /\ remaining'[n] = {} /\ calling'[n] = NoNode /\ known'[n] = {}
      /\ \A p \in Node \union Far : entry'[n][p] = "none"
  BY <1>1 DEF ExchangeTypeOK
<1>3. \A m \in Node : m # n => /\ remaining'[m] = remaining[m] /\ calling'[m] = calling[m]
                               /\ known'[m] = known[m] /\ entry'[m] = entry[m]
  BY <1>1 DEF ExchangeTypeOK
<1> QED BY <1>1, <1>2, <1>3 DEF RegisteredInv

LEMMA RegisteredStep ==
  ASSUME ExchangeTypeOK, RegisteredInv, [ExchangeNext]_exchangeVars
  PROVE  RegisteredInv'
<1>1. CASE UNCHANGED exchangeVars
  BY <1>1 DEF exchangeVars, RegisteredInv
<1>2. ASSUME NEW n \in Node, StartNode(n) PROVE RegisteredInv'
  BY <1>2 DEF StartNode, RegisteredInv, ExchangeTypeOK
<1>3. ASSUME NEW n \in Node, CrashNode(n) \/ SnapshotRaises(n) PROVE RegisteredInv'
  BY <1>3, EndsKeeps DEF CrashNode, SnapshotRaises
<1>4. ASSUME NEW n \in Node, CallFails(n) PROVE RegisteredInv'
  BY <1>4 DEF CallFails, RegisteredInv, ExchangeTypeOK
<1>5. ASSUME NEW n \in Node, CallSucceeds(n) PROVE RegisteredInv'
  <2>1. PICK p : p = calling[n]
    OBVIOUS
  <2>2. p \in Node /\ n \in up /\ SetEntry(n, p, "exchanged")
    BY <1>5, <2>1 DEF CallSucceeds, ExchangeTypeOK, RegisteredInv
  <2>3. /\ known' = [known EXCEPT ![n] = known[n] \union {p}]
        /\ remaining' = [remaining EXCEPT ![n] = remaining[n] \ {p}]
        /\ calling' = [calling EXCEPT ![n] = NoNode] /\ handlers' = handlers /\ up' = up
    BY <1>5, <2>1 DEF CallSucceeds
  <2>4. /\ remaining' \in [Node -> SUBSET Node]
        /\ \A m \in Node \ up : remaining'[m] = {} /\ calling'[m] = NoNode
    BY <2>2, <2>3 DEF ExchangeTypeOK, RegisteredInv
  <2> QED BY <2>2, <2>3, <2>4, RegisterKeeps
<1>6. ASSUME NEW n \in Node, BeginSnapshot(n) \/ EndSnapshot(n) PROVE RegisteredInv'
  BY <1>6 DEF BeginSnapshot, EndSnapshot, RegisteredInv
<1>7. ASSUME NEW n \in Node, NEW p \in Node, Connect(n, p) PROVE RegisteredInv'
  BY <1>7 DEF Connect, RegisteredInv, ExchangeTypeOK
<1>8. ASSUME NEW n \in Node, NEW p \in Node, ServeClient(n, p) PROVE RegisteredInv'
  <2>1. p \in up
    <3>1. <<n, p>> \in handlers
      BY <1>8 DEF ServeClient, ExchangeTypeOK
    <3> QED BY <3>1 DEF RegisteredInv
  <2>2. /\ SetEntry(p, n, "exchanged") /\ known' = [known EXCEPT ![p] = known[p] \union {n}]
        /\ handlers' \subseteq handlers /\ up' = up /\ UNCHANGED <<remaining, calling>>
    BY <1>8 DEF ServeClient
  <2>3. /\ remaining' \in [Node -> SUBSET Node]
        /\ \A m \in Node \ up : remaining'[m] = {} /\ calling'[m] = NoNode
    BY <2>2 DEF ExchangeTypeOK, RegisteredInv
  <2> QED BY <2>1, <2>2, <2>3, RegisterKeeps
<1>9. ASSUME NEW n \in Node, NEW p \in Node, HandlerEnds(n, p) PROVE RegisteredInv'
  BY <1>9 DEF HandlerEnds, RegisteredInv
<1>10. ASSUME NEW n \in Node, NEW p \in Node \union Far, NEW e \in Heard, Hear(n, p, e)
       PROVE  RegisteredInv'
  <2>1. /\ n \in up /\ e \in Entry /\ SetEntry(n, p, e)
        /\ e = "capability" \/ (e = "address" /\ entry[n][p] = "none")
        /\ UNCHANGED <<up, remaining, calling, handlers, known>>
    BY <1>10 DEF Hear, Entry
  <2>2. /\ entry'[n][p] = e
        /\ \A m \in Node, q \in Node \union Far : ~(m = n /\ q = p) => entry'[m][q] = entry[m][q]
    BY <2>1, SetEntryTypes
  <2>3. ASSUME NEW m \in Node, NEW q \in known[m]
        PROVE  entry'[m][q] \in {"capability", "exchanged"}
    <3>1. q \in Node /\ entry[m][q] \in {"capability", "exchanged"}
      BY DEF ExchangeTypeOK, RegisteredInv
    <3> QED BY <2>1, <2>2, <3>1
  <2>4. \A m \in Node \ up : \A q \in Node \union Far : entry'[m][q] = "none"
    BY <2>1, <2>2 DEF RegisteredInv
  <2> QED BY <2>1, <2>3, <2>4 DEF RegisteredInv
<1> QED BY <1>1, <1>2, <1>3, <1>4, <1>5, <1>6, <1>7, <1>8, <1>9, <1>10 DEF ExchangeNext

-----------------------------------------------------------------------------
(* PeerExchange: theorems *)

\* ExchangeIInv is an invariant of any nodes, whatever the DHT brings and whoever crashes.
THEOREM ExchangeInvariance == MaxFaults \in Nat /\ ExchangeSpec => []ExchangeIInv
<1> SUFFICES ASSUME MaxFaults \in Nat PROVE ExchangeSpec => []ExchangeIInv
  OBVIOUS
<1>1. ExchangeInit => ExchangeIInv
  <2> SUFFICES ASSUME ExchangeInit PROVE ExchangeIInv
    OBVIOUS
  <2>1. ExchangeTypeOK
    BY DEF ExchangeInit, ExchangeTypeOK, Entry
  <2>2. RegisteredInv
    BY DEF ExchangeInit, RegisteredInv
  <2> QED BY <2>1, <2>2 DEF ExchangeIInv
<1>2. ExchangeIInv /\ [ExchangeNext]_exchangeVars => ExchangeIInv'
  BY ExchangeTypes, RegisteredStep DEF ExchangeIInv
<1> QED BY <1>1, <1>2, PTL DEF ExchangeSpec

\* The values that the exchange's variables can have.
THEOREM ExchangeTypeCorrect == MaxFaults \in Nat /\ ExchangeSpec => []ExchangeTypeOK
<1>1. ExchangeIInv => ExchangeTypeOK
  BY DEF ExchangeIInv
<1> QED BY <1>1, ExchangeInvariance, PTL

\* No worker that the exchange registered has an address that a task could be sent to,
\* although each is among the worker peers: for any nodes, what the run exchange_route
\* finds is so in every state (peer_server.py:42-62, task_distributor.py:51-71).
THEOREM NoRegisteredHasAddress ==
  MaxFaults \in Nat /\ ExchangeSpec => []RegisteredHasNoAddress
<1>1. ExchangeIInv => RegisteredHasNoAddress
  BY DEF ExchangeIInv, RegisteredInv, RegisteredHasNoAddress, WorkerPeers, HasAddress
<1> QED BY <1>1, ExchangeInvariance, PTL
=============================================================================
