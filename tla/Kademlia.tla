------------------------------ MODULE Kademlia ------------------------------
(***************************************************************************)
(* The DHT nodes of src/swarm/kademlia_node.py: what their routing tables, *)
(* known_peers and storage hold while datagrams are lost and doubled and   *)
(* nodes leave and come back.  Time is counted in refresh intervals of the *)
(* node that keeps the entry; the race of the listen and refresh threads   *)
(* inside one bucket is module KBucket.  A capability record stands for    *)
(* itself, and every table is smaller than K, so find_closest returns all  *)
(* of it.                                                                  *)
(***************************************************************************)
EXTENDS Naturals, FiniteSets

CONSTANTS
  DhtNode,           \* the nodes of the swarm
  Seed,           \* the node whose address the others bootstrap from
  StaleRounds,    \* the refresh at which a silent entry is certainly older
                  \* than STALE_TIMEOUT: heard in round 0, 4 intervals of 30 s
  DhtFaults,      \* bound on lost and doubled datagrams and on leaves
  Lookups,        \* the keys find_peer is called with
  Refreshing      \* bound: the nodes whose first refresh the instance reaches

Absent == StaleRounds + 1

VARIABLES
  dhtStatus,      \* whether the process of n runs
  age,            \* age[n][p]: refreshes of n since it last added p
  knownPeers,     \* knownPeers[n]: the keys of known_peers
  storage,        \* storage[n]: the keys of storage
  phase,          \* where the refresh thread of n is
  net,            \* datagrams under way
  missed,         \* history: pings of n to p that stayed without a PONG since
                  \* n last added p
  dhtFaults

dhtVars == <<dhtStatus, age, knownPeers, storage, phase, net, missed, dhtFaults>>

Kind == {"PING", "PONG", "FIND_NODE", "FOUND_NODES", "STORE", "FIND_VALUE",
         "VALUE", "ANNOUNCE"}
Message == [kind : Kind, from : DhtNode, to : DhtNode, arg : SUBSET DhtNode, cap : BOOLEAN]

DhtTypeOK ==
  /\ dhtStatus \in [DhtNode -> {"new", "up", "gone"}]
  /\ age \in [DhtNode -> [DhtNode -> 0..Absent]]
  /\ knownPeers \in [DhtNode -> SUBSET DhtNode]
  /\ storage \in [DhtNode -> SUBSET DhtNode]
  /\ phase \in [DhtNode -> {"asleep", "evicting"}]
  /\ net \subseteq Message
  /\ missed \in [DhtNode -> [DhtNode -> Nat]]
  /\ dhtFaults \in Nat

DhtInit ==
  /\ dhtStatus = [n \in DhtNode |-> IF n = Seed THEN "up" ELSE "new"]
  /\ age = [n \in DhtNode |-> [p \in DhtNode |-> Absent]]
  /\ knownPeers = [n \in DhtNode |-> {}]
  /\ storage = [n \in DhtNode |-> {}]
  /\ phase = [n \in DhtNode |-> "asleep"]
  /\ net = {}
  /\ missed = [n \in DhtNode |-> [p \in DhtNode |-> 0]]
  /\ dhtFaults = 0

DhtFault == dhtFaults < DhtFaults /\ dhtFaults' = dhtFaults + 1

InTable(n, p) == age[n][p] # Absent
Table(n) == {p \in DhtNode : InTable(n, p)}

Msg(kind, n, p, arg) ==
  [kind |-> kind, from |-> n, to |-> p, arg |-> arg,
   cap |-> kind \in {"PONG", "FIND_NODE", "ANNOUNCE"}]

Found(n, p, closest, withCap) ==
  [kind |-> "FOUND_NODES", from |-> n, to |-> p, arg |-> closest, cap |-> withCap]

-----------------------------------------------------------------------------
(* Joining and leaving *)

\* Mutation: the bootstrap address is never asked.
StartSilent(n) ==
  /\ dhtStatus[n] # "up"
  /\ dhtStatus' = [dhtStatus EXCEPT ![n] = "up"]
  /\ age' = [age EXCEPT ![n] = [p \in DhtNode |-> Absent]]
  /\ knownPeers' = [knownPeers EXCEPT ![n] = {}]
  /\ storage' = [storage EXCEPT ![n] = {}]
  /\ phase' = [phase EXCEPT ![n] = "asleep"]
  /\ missed' = [missed EXCEPT ![n] = [p \in DhtNode |-> 0]]
  /\ UNCHANGED <<net, dhtFaults>>

\* start: the FIND_NODE to the bootstrap address is sent once.
Start(n) ==
  /\ dhtStatus[n] # "up"
  /\ dhtStatus' = [dhtStatus EXCEPT ![n] = "up"]
  /\ age' = [age EXCEPT ![n] = [p \in DhtNode |-> Absent]]
  /\ knownPeers' = [knownPeers EXCEPT ![n] = {}]
  /\ storage' = [storage EXCEPT ![n] = {}]
  /\ phase' = [phase EXCEPT ![n] = "asleep"]
  /\ missed' = [missed EXCEPT ![n] = [p \in DhtNode |-> 0]]
  /\ net' = IF n = Seed THEN net ELSE net \union {Msg("FIND_NODE", n, Seed, {n})}
  /\ UNCHANGED dhtFaults

Leave(n) ==
  /\ DhtFault
  /\ dhtStatus[n] = "up"
  /\ dhtStatus' = [dhtStatus EXCEPT ![n] = "gone"]
  /\ UNCHANGED <<age, knownPeers, storage, phase, net, missed>>

-----------------------------------------------------------------------------
(* The listen thread: _handle *)

\* Mutation: an entry that exists is not refreshed.
AddsNewOnly(n, met) ==
  LET fresh == met \ (Table(n) \union {n}) IN
  /\ age' = [age EXCEPT ![n] = [p \in DhtNode |-> IF p \in fresh THEN 0 ELSE @[p]]]
  /\ missed' = [missed EXCEPT ![n] = [p \in DhtNode |-> IF p \in met \ {n} THEN 0 ELSE @[p]]]

\* add_node, which ignores the own id, for every node in met
Adds(n, met) ==
  /\ age' = [age EXCEPT ![n] = [p \in DhtNode |-> IF p \in met \ {n} THEN 0 ELSE @[p]]]
  /\ missed' = [missed EXCEPT ![n] = [p \in DhtNode |-> IF p \in met \ {n} THEN 0 ELSE @[p]]]

\* The table find_closest reads, the sender already added.
TableWith(n, p) == Table(n) \union ({p} \ {n})

Replies(m) ==
  LET n == m.to  p == m.from IN
  CASE m.kind = "PING" -> {Msg("PONG", n, p, {})}
    [] m.kind = "FIND_NODE" -> {Found(n, p, TableWith(n, p), TRUE)}
    [] m.kind = "FOUND_NODES" -> {Msg("FIND_NODE", n, q, {n}) : q \in m.arg \ {n}}
    [] m.kind = "FIND_VALUE" ->
         IF m.arg \subseteq storage[n] THEN {Msg("VALUE", n, p, m.arg)}
         ELSE {Found(n, p, TableWith(n, p), FALSE)}
    [] OTHER -> {}

Named(m) == IF m.kind = "FOUND_NODES" THEN m.arg \ {m.to} ELSE {}

Handle(m) ==
  LET n == m.to IN
  /\ dhtStatus[n] = "up"
  /\ Adds(n, {m.from} \union Named(m))
  /\ knownPeers' = [knownPeers EXCEPT ![n] = @ \union Named(m) \union (IF m.cap THEN {m.from} ELSE {})]
  /\ storage' = [storage EXCEPT ![n] =
       IF m.kind \in {"STORE", "VALUE"} THEN @ \union m.arg ELSE @]
  /\ UNCHANGED <<dhtStatus, phase>>

Receive(m) ==
  /\ Handle(m)
  /\ net' = (net \ {m}) \union Replies(m)
  /\ UNCHANGED dhtFaults

\* The network delivers the datagram and keeps another copy.
ReceiveTwice(m) ==
  /\ DhtFault
  /\ Handle(m)
  /\ net' = net \union Replies(m)

Between(m, n, p) ==
  \/ m.kind = "PING" /\ m.from = n /\ m.to = p
  \/ m.kind = "PONG" /\ m.from = p /\ m.to = n

\* A datagram that is lost or reaches no process.  When it was the last of the
\* exchange of n and p, and n heard nothing from p since its ping, n missed p.
Vanishes(m) ==
  /\ net' = net \ {m}
  /\ missed' = [n \in DhtNode |-> [p \in DhtNode |->
       IF /\ Between(m, n, p) /\ age[n][p] # 0
          /\ ~\E x \in net' : Between(x, n, p)
       THEN missed[n][p] + 1 ELSE missed[n][p]]]
  /\ UNCHANGED <<dhtStatus, age, knownPeers, storage, phase>>

Lose(m) == DhtFault /\ dhtStatus[m.to] = "up" /\ Vanishes(m)

Undeliverable(m) == dhtStatus[m.to] # "up" /\ Vanishes(m) /\ UNCHANGED dhtFaults

-----------------------------------------------------------------------------
(* The refresh thread: _refresh_loop *)

\* A datagram travels for less than a refresh interval.
Settled(n) == \A m \in net, p \in DhtNode : ~Between(m, n, p)

\* Entries in late were heard right after a refresh and pass STALE_TIMEOUT one
\* round before StaleRounds.
Older(n, late) ==
  [p \in DhtNode |-> CASE ~InTable(n, p) -> Absent
                    [] p \in late -> StaleRounds
                    [] OTHER -> IF age[n][p] < StaleRounds THEN age[n][p] + 1 ELSE StaleRounds]

\* announce_self and the pings
Refresh(n) ==
  /\ n \in Refreshing
  /\ dhtStatus[n] = "up" /\ phase[n] = "asleep" /\ Settled(n)
  /\ \E late \in SUBSET {p \in DhtNode : age[n][p] = StaleRounds - 2} :
       LET older == Older(n, late) IN
       /\ age' = [age EXCEPT ![n] = older]
       /\ net' = net \union {Msg("ANNOUNCE", n, p, {}) : p \in Table(n)}
                     \union {Msg("STORE", n, p, {n}) : p \in Table(n)}
                     \union {Msg("PING", n, p, {}) : p \in {q \in DhtNode : older[q] < StaleRounds}}
  /\ storage' = [storage EXCEPT ![n] = @ \union {n}]
  /\ phase' = [phase EXCEPT ![n] = "evicting"]
  /\ UNCHANGED <<dhtStatus, knownPeers, missed, dhtFaults>>

\* evict_stale, after the pings went out: an entry heard meanwhile stays.
EvictStale(n) ==
  /\ dhtStatus[n] = "up" /\ phase[n] = "evicting"
  /\ age' = [age EXCEPT ![n] = [p \in DhtNode |-> IF @[p] = StaleRounds THEN Absent ELSE @[p]]]
  /\ phase' = [phase EXCEPT ![n] = "asleep"]
  /\ UNCHANGED <<dhtStatus, knownPeers, storage, net, missed, dhtFaults>>

\* find_peer, called by the application
FindPeer(n, key) ==
  /\ dhtStatus[n] = "up"
  /\ net' = net \union {Msg("FIND_VALUE", n, p, {key}) : p \in Table(n)}
  /\ UNCHANGED <<dhtStatus, age, knownPeers, storage, phase, missed, dhtFaults>>

-----------------------------------------------------------------------------
DhtNext ==
  \/ \E n \in DhtNode : Start(n) \/ Leave(n) \/ Refresh(n) \/ EvictStale(n)
  \/ \E n \in DhtNode, key \in Lookups : FindPeer(n, key)
  \/ \E m \in net : Receive(m) \/ ReceiveTwice(m) \/ Lose(m) \/ Undeliverable(m)

Arrives(kind, n, p) ==
  \E m \in net : /\ m.kind = kind /\ m.from = n /\ m.to = p
                 /\ Receive(m) \/ Undeliverable(m)

\* The listen thread takes what arrives; a refresh thread never stops.
DhtFairness ==
  /\ \A n \in DhtNode : WF_dhtVars(Refresh(n)) /\ WF_dhtVars(EvictStale(n))
  /\ \A kind \in Kind, n, p \in DhtNode : WF_dhtVars(Arrives(kind, n, p))

DhtSpec == DhtInit /\ [][DhtNext]_dhtVars
DhtFairSpec == DhtSpec /\ DhtFairness

-----------------------------------------------------------------------------
(* Properties *)

\* Nobody who answers is evicted: an entry leaves the table only after all
\* pings of at least StaleRounds - 2 refreshes stayed without a PONG.
AnsweringPeersStay ==
  [][\A n, p \in DhtNode :
       (EvictStale(n) /\ InTable(n, p) /\ ~InTable(n, p)') => missed[n][p] >= StaleRounds - 2]_dhtVars

Running == {n \in DhtNode : dhtStatus[n] = "up"}

\* On a network that loses nothing, started nodes end up in each other's tables
\* and stay there.
Acquainted ==
  \A n, p \in DhtNode : <>[](n # p /\ n \in Running /\ p \in Running) => <>[]InTable(n, p)
-----------------------------------------------------------------------------
(* The inductive invariant *)

\* The answer to the last ping of n to p may still come.
Awaits(n, p) == \E m \in net : Between(m, n, p)

\* The pings an entry has seen no PONG for, the one under way among them, are no fewer than
\* the refreshes since its node was added; an entry that is to be evicted has none under way
\* and may have passed STALE_TIMEOUT one round early.  No node has an entry of its own.
MissedInv ==
  \A n, p \in DhtNode :
    /\ age[n][n] = Absent
    /\ age[n][p] \in 1 .. StaleRounds - 1 =>
         age[n][p] <= missed[n][p] + (IF Awaits(n, p) THEN 1 ELSE 0)
    /\ age[n][p] = StaleRounds => missed[n][p] >= StaleRounds - 2

DhtIInv == DhtTypeOK /\ MissedInv
=============================================================================
