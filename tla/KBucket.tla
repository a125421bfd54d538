------------------------------- MODULE KBucket -------------------------------
(***************************************************************************)
(* One k-bucket of the routing table (src/swarm/kbucket.py) and the two    *)
(* threads of a KademliaNode that change it without a lock: the listen     *)
(* thread, which calls add for the sender of every datagram, and the       *)
(* refresh thread, which calls evict_stale.  A step is the code between    *)
(* two places where CPython may switch threads.  evict_stale iterates over *)
(* the live list and then replaces the attribute, so a thread that has     *)
(* bound self.nodes.append before that appends to a list nobody reads.     *)
(***************************************************************************)
EXTENDS Naturals, Sequences, SequencesExt

CONSTANTS
  Id,             \* node ids of this bucket's range, the own id not among them
  Nobody,         \* stands for no id
  K,              \* entries per bucket (20)
  MaxAge,         \* STALE_TIMEOUT, in refresh intervals (3)
  MaxTime         \* bound on the clock

ASSUME IdAssumption == Nobody \notin Id
ASSUME KAssumption == K \in Nat \ {0}
ASSUME AgeAssumption == MaxAge \in Nat /\ MaxTime \in Nat

VARIABLES
  clock,
  nodes,          \* the list self.nodes refers to, oldest at the head
  adder,          \* where add is in the listen thread
  adding,         \* the id and the stamp add works with
  pos,            \* the index its scan found, 0 if none
  orphaned,       \* self.nodes was replaced after add bound its append
  evictor,        \* where evict_stale is in the refresh thread
  now,            \* its time.time(), the last one's when idle
  next,           \* the index its comprehension visits next
  kept,           \* the list the comprehension builds
  heard,          \* history: what a list that never drops a peer would hold
  overlapped      \* history: add and evict_stale ever ran at the same time;
                  \* heard is not kept from then on

bucketVars == <<clock, nodes, adder, adding, pos, orphaned, evictor, now, next, kept,
          heard, overlapped>>
adderVars == <<adder, adding, pos, orphaned>>
evictorVars == <<evictor, now, next, kept>>

PeerEntry == [id : Id, seen : Nat]
Nothing == [id |-> Nobody, seen |-> 0]
Ids(s) == {s[i].id : i \in DOMAIN s}

BucketTypeOK ==
  /\ clock \in Nat
  /\ nodes \in Seq(PeerEntry)
  /\ adder \in {"idle", "scanned", "full", "popped", "bound"}
  /\ adding \in [id : Id \union {Nobody}, seen : Nat]
  /\ pos \in Nat
  /\ orphaned \in BOOLEAN
  /\ evictor \in {"idle", "visiting"}
  /\ now \in Nat
  /\ next \in Nat \ {0}
  /\ kept \in Seq(PeerEntry)
  /\ heard \in Seq(PeerEntry)
  /\ overlapped \in BOOLEAN

BucketInit ==
  /\ clock = 0
  /\ nodes = <<>>
  /\ adder = "idle"
  /\ adding = Nothing
  /\ pos = 0
  /\ orphaned = FALSE
  /\ evictor = "idle"
  /\ now = 0
  /\ next = 1
  /\ kept = <<>>
  /\ heard = <<>>
  /\ overlapped = FALSE

Tick ==
  /\ clock < MaxTime
  /\ clock' = clock + 1
  /\ UNCHANGED <<nodes, adderVars, evictorVars, heard, overlapped>>

Overlaps(busy) ==
  /\ overlapped' = (overlapped \/ busy)
  /\ heard' = IF busy THEN <<>> ELSE heard

-----------------------------------------------------------------------------
(* add, in the listen thread *)

FirstAt(s, id, i) == s[i].id = id /\ \A j \in 1..(i - 1) : s[j].id # id

\* Only this thread changes the list object it scans: one step.
Scan(id) ==
  /\ adder = "idle"
  /\ adder' = "scanned"
  /\ adding' = [id |-> id, seen |-> 0]
  /\ \/ \E i \in DOMAIN nodes : FirstAt(nodes, id, i) /\ pos' = i
     \/ id \notin Ids(nodes) /\ pos' = 0
  /\ Overlaps(evictor # "idle")
  /\ UNCHANGED <<clock, nodes, orphaned, evictorVars>>

\* self.nodes.pop(i), on whatever list self.nodes is by now
PopFound ==
  /\ adder = "scanned" /\ pos # 0 /\ pos <= Len(nodes)
  /\ nodes' = RemoveAt(nodes, pos)
  /\ adder' = "popped"
  /\ pos' = 0
  /\ UNCHANGED <<clock, adding, orphaned, evictorVars, heard, overlapped>>

\* The index is gone: IndexError leaves add, and _listen_loop drops the datagram.
PopFails ==
  /\ \/ adder = "scanned" /\ pos > Len(nodes)
     \/ adder = "full" /\ nodes = <<>>
  /\ adder' = "idle"
  /\ adding' = Nothing
  /\ pos' = 0
  /\ UNCHANGED <<clock, nodes, orphaned, evictorVars, heard, overlapped>>

HasRoom ==
  /\ adder = "scanned" /\ pos = 0 /\ Len(nodes) < K
  /\ adder' = "popped"
  /\ UNCHANGED <<clock, nodes, adding, pos, orphaned, evictorVars, heard, overlapped>>

IsFull ==
  /\ adder = "scanned" /\ pos = 0 /\ Len(nodes) >= K
  /\ adder' = "full"
  /\ UNCHANGED <<clock, nodes, adding, pos, orphaned, evictorVars, heard, overlapped>>

\* Mutation: the newest entry makes room instead of the oldest.
PopHeadTail ==
  /\ adder = "full" /\ nodes # <<>>
  /\ nodes' = SubSeq(nodes, 1, Len(nodes) - 1)
  /\ adder' = "popped"
  /\ pos' = 0
  /\ UNCHANGED <<clock, adding, orphaned, evictorVars, heard, overlapped>>

PopHead ==
  /\ adder = "full" /\ nodes # <<>>
  /\ nodes' = Tail(nodes)
  /\ adder' = "popped"
  /\ pos' = 0
  /\ UNCHANGED <<clock, adding, orphaned, evictorVars, heard, overlapped>>

\* self.nodes.append is bound, then time.time() is called.
Stamp ==
  /\ adder = "popped"
  /\ adder' = "bound"
  /\ adding' = [adding EXCEPT !.seen = clock]
  /\ UNCHANGED <<clock, nodes, pos, orphaned, evictorVars, heard, overlapped>>

\* History: an id's entry moves to the tail.
Forgotten ==
  LET at == {i \in DOMAIN heard : heard[i].id = adding.id}
  IN  IF at = {} THEN heard ELSE RemoveAt(heard, CHOOSE i \in at : TRUE)

Remembered == Append(Forgotten, adding)

\* Mutation: the entry goes to the head.
AppendEntryHead ==
  /\ adder = "bound"
  /\ nodes' = IF orphaned THEN nodes ELSE <<adding>> \o nodes
  /\ heard' = IF overlapped THEN heard ELSE Remembered
  /\ adder' = "idle"
  /\ adding' = Nothing
  /\ orphaned' = FALSE
  /\ UNCHANGED <<clock, pos, evictorVars, overlapped>>

AppendEntry ==
  /\ adder = "bound"
  /\ nodes' = IF orphaned THEN nodes ELSE Append(nodes, adding)
  /\ heard' = IF overlapped THEN heard ELSE Remembered
  /\ adder' = "idle"
  /\ adding' = Nothing
  /\ orphaned' = FALSE
  /\ UNCHANGED <<clock, pos, evictorVars, overlapped>>

Add == \/ \E id \in Id : Scan(id)
       \/ PopFound \/ PopFails \/ HasRoom \/ IsFull \/ PopHead \/ Stamp \/ AppendEntry

-----------------------------------------------------------------------------
(* evict_stale, in the refresh thread *)

\* A unit of the clock is REFRESH_INTERVAL, the sleep between two evictions.
StartEviction ==
  /\ evictor = "idle"
  /\ now < clock
  /\ evictor' = "visiting"
  /\ now' = clock
  /\ next' = 1
  /\ kept' = <<>>
  /\ Overlaps(adder # "idle")
  /\ UNCHANGED <<clock, nodes, adderVars>>

\* Written with a sum: an entry stamped after now has a negative age.
Fresh(e) == now <= e.seen + MaxAge

\* One iteration of the comprehension, by index over the live list.
Visit ==
  /\ evictor = "visiting" /\ next <= Len(nodes)
  /\ kept' = IF Fresh(nodes[next]) THEN Append(kept, nodes[next]) ELSE kept
  /\ next' = next + 1
  /\ UNCHANGED <<clock, nodes, adderVars, evictor, now, heard, overlapped>>

\* The comprehension ends and self.nodes is replaced without a switch between.
Replace ==
  /\ evictor = "visiting" /\ next > Len(nodes)
  /\ nodes' = kept
  /\ orphaned' = (adder = "bound")
  /\ evictor' = "idle"
  /\ kept' = <<>>
  /\ next' = 1
  /\ UNCHANGED <<clock, adder, adding, pos, now, heard, overlapped>>

Evict == StartEviction \/ Visit \/ Replace

BucketNext == Tick \/ Add \/ Evict

BucketSpec == BucketInit /\ [][BucketNext]_bucketVars

-----------------------------------------------------------------------------
(* Properties *)

Sorted(s) == \A i, j \in DOMAIN s : i <= j => s[i].seen <= s[j].seen

\* Whatever the two threads do to each other, the head of the list is never
\* newer than the tail ("oldest at head, newest at tail", kbucket.py:29), so a
\* full bucket always drops the peer it has not heard for the longest.
OldestFirst == Sorted(nodes)

IsSuffixOf(s, t) ==
  /\ Len(s) <= Len(t)
  /\ \A i \in DOMAIN s : s[i] = t[Len(t) - Len(s) + i]

\* The strengthening that makes OldestFirst inductive: entries are stamped in
\* the order add finishes, and what evict_stale kept so far is older than what
\* it has yet to visit, even after the listen thread took entries out before it.
Latest == IF adder = "bound" THEN adding.seen ELSE clock

NotAfter(s, t) == \A i \in DOMAIN s : s[i].seen <= t

OrderInv ==
  /\ Sorted(nodes)
  /\ Sorted(kept)
  /\ NotAfter(nodes, Latest)
  /\ NotAfter(kept, Latest)
  /\ Latest <= clock
  /\ \A i \in DOMAIN kept, j \in DOMAIN nodes :
       next <= j => kept[i].seen <= nodes[j].seen

AddingInv == adder # "idle" => adding \in PeerEntry

BucketInv == BucketTypeOK /\ AddingInv /\ OrderInv

\* As long as add and evict_stale never overlapped, a bucket at rest holds the
\* most recently heard peers in the order they were heard: it forgets no peer
\* that is recent and among the last K, keeps no second entry of a peer, and
\* never has more than K entries.
LastKHeard ==
  (~overlapped /\ adder = "idle" /\ evictor = "idle") =>
    /\ Len(nodes) <= K
    /\ IsSuffixOf(nodes, heard)
    /\ \A i \in DOMAIN heard :
         (clock <= heard[i].seen + MaxAge /\ Len(heard) - i < K) => heard[i] \in Range(nodes)

\* The strengthening that makes LastKHeard inductive.  n holds the last of h, with
\* room places still free, but for peers that were stale at time t.
HoldsLast(n, h, room, t) ==
  /\ Len(n) + room <= K
  /\ IsSuffixOf(n, h)
  /\ \A i \in 1 .. Len(h) - Len(n) :
       Len(h) + room - i >= K \/ h[i].seen + MaxAge < t

\* What evict_stale kept is the end of what it visited, the rest of which is stale.
KeptLast ==
  LET d == next - 1 - Len(kept)
  IN  /\ next - 1 <= Len(nodes) /\ d >= 0
      /\ \A i \in DOMAIN kept : kept[i] = nodes[d + i] /\ Fresh(kept[i])
      /\ \A i \in 1 .. d : ~Fresh(nodes[i])

HeardOnce == \A i, j \in DOMAIN heard : heard[i].id = heard[j].id => i = j

\* An add that has not overlapped anything: pos still is where its peer's entry is, and
\* once it has made room, nodes lacks the new entry alone.
AddHolds ==
  /\ adder \in {"idle", "scanned", "full"} => HoldsLast(nodes, heard, 0, now)
  /\ adder \in {"scanned", "full"} =>
       IF pos = 0 THEN adding.id \notin Ids(nodes)
       ELSE pos \in DOMAIN nodes /\ nodes[pos].id = adding.id
  /\ adder = "full" => pos = 0 /\ Len(nodes) = K
  /\ adder \in {"popped", "bound"} => HoldsLast(nodes, Forgotten, 1, now)

HeardInv ==
  /\ now <= clock
  /\ ~overlapped =>
       /\ adder = "idle" \/ evictor = "idle"
       /\ ~orphaned
       /\ HeardOnce
       /\ AddHolds
       /\ evictor = "visiting" => KeptLast

\* What kbucket.py:62 says of evict_stale: a peer seen within max_age stays in
\* the table.
EvictsOnlyStale ==
  [][\A i \in DOMAIN nodes :
       (Replace /\ now <= nodes[i].seen + MaxAge) => nodes[i].id \in Ids(nodes')]_bucketVars
=============================================================================
