---------------------------- MODULE BluetoothMesh ----------------------------
(***************************************************************************)
(* Flooding over RFCOMM: src/swarm/bluetooth_mesh.py on top of             *)
(* src/swarm/bluetooth_transport.py.  Every copy of a message travels in a *)
(* connection and is handled in a thread of its own; _is_seen and          *)
(* _mark_seen take the lock separately.  The seen cache keeps an id for    *)
(* 60 s and copies live for at most a few seconds per hop, so it forgets   *)
(* no id that still has a copy under way; copies of one message that were  *)
(* sent over the same link with the same hop count are one.                *)
(***************************************************************************)
EXTENDS Naturals, FiniteSets

CONSTANTS
  Node,           \* devices, each with its Bluetooth address
  InRange,        \* pairs of devices in radio range of each other
  MsgId,          \* the messages ever broadcast
  Announcing,     \* those whose payload carries the origin's node_id
  All,            \* the destination "ALL"
  NoNode,         \* stands for no node
  MaxHops,        \* MAX_HOPS (5)
  MaxFaults       \* bound on failed sends and lost replies

ASSUME NodeAssumption == All \notin Node /\ NoNode \notin Node
ASSUME RangeAssumption ==
  InRange \subseteq Node \X Node /\ \A p \in InRange : <<p[2], p[1]>> \in InRange /\ p[1] # p[2]
ASSUME MessageAssumption == Announcing \subseteq MsgId
ASSUME BoundAssumption == MaxHops \in Nat /\ MaxFaults \in Nat

VARIABLES
  peers,          \* peers[n]: the devices in known_bt_peers
  origin,         \* origin[m]: who broadcast m, NoNode before that
  dest,           \* dest[m]: its destination
  net,            \* copies under way
  seen,           \* seen[n]: the ids in _seen
  threads,        \* copies whose thread passed _is_seen and has not marked yet
  delivered,      \* delivered[n][m]: calls of the handler of n for m
  whole,          \* history: messages broadcast when every link was known
  faults

vars == <<peers, origin, dest, net, seen, threads, delivered, whole, faults>>

Copy == [msg : MsgId, from : Node, to : Node, hops : 0..MaxHops]

TypeOK ==
  /\ peers \in [Node -> SUBSET Node]
  /\ origin \in [MsgId -> Node \union {NoNode}]
  /\ dest \in [MsgId -> Node \union {All}]
  /\ net \subseteq Copy
  /\ seen \in [Node -> SUBSET MsgId]
  /\ threads \subseteq Copy
  /\ delivered \in [Node -> [MsgId -> Nat]]
  /\ whole \subseteq MsgId
  /\ faults \in Nat

Init ==
  /\ peers = [n \in Node |-> {}]
  /\ origin = [m \in MsgId |-> NoNode]
  /\ dest = [m \in MsgId |-> All]
  /\ net = {}
  /\ seen = [n \in Node |-> {}]
  /\ threads = {}
  /\ delivered = [n \in Node |-> [m \in MsgId |-> 0]]
  /\ whole = {}
  /\ faults = 0

Fault == faults < MaxFaults /\ faults' = faults + 1

Neighbours(n) == {p \in Node : <<n, p>> \in InRange}
AllLinksKnown == \A n \in Node : peers[n] = Neighbours(n)

Copies(n, m, hops) == {[msg |-> m, from |-> n, to |-> p, hops |-> hops] : p \in peers[n]}

-----------------------------------------------------------------------------
(* Peers *)

\* _try_rfcomm_connect and the other side's _handle_rfcomm_client: both learn.
Probe(n, p) ==
  /\ p \in Neighbours(n) \ peers[n]
  /\ peers' = [peers EXCEPT ![n] = @ \union {p}, ![p] = @ \union {n}]
  /\ UNCHANGED <<origin, dest, net, seen, threads, delivered, whole, faults>>

\* The reply is lost: only the side that was asked has learnt.
ProbeUnanswered(n, p) ==
  /\ Fault
  /\ p \in Neighbours(n) \ peers[n]
  /\ peers' = [peers EXCEPT ![p] = @ \union {n}]
  /\ UNCHANGED <<origin, dest, net, seen, threads, delivered, whole>>

-----------------------------------------------------------------------------
(* Sending *)

\* broadcast, from any thread of the application
Broadcast(n, m, d) ==
  /\ origin[m] = NoNode /\ d # n
  /\ origin' = [origin EXCEPT ![m] = n]
  /\ dest' = [dest EXCEPT ![m] = d]
  /\ seen' = [seen EXCEPT ![n] = @ \union {m}]
  /\ net' = net \union Copies(n, m, 0)
  /\ whole' = IF AllLinksKnown THEN whole \union {m} ELSE whole
  /\ UNCHANGED <<peers, threads, delivered, faults>>

\* _send_rfcomm: the exception is printed and the copy is gone.
SendFails(c) ==
  /\ Fault
  /\ net' = net \ {c}
  /\ UNCHANGED <<peers, origin, dest, seen, threads, delivered, whole>>

-----------------------------------------------------------------------------
(* Receiving *)

\* _handle_rfcomm_client only passes on what names a node other than its own.
PassedOn(c) == c.msg \in Announcing /\ origin[c.msg] # c.to

Skip(c) ==
  /\ ~PassedOn(c)
  /\ net' = net \ {c}
  /\ UNCHANGED <<peers, origin, dest, seen, threads, delivered, whole, faults>>

\* The link's other end becomes a known peer; a seen id is dropped.
Drop(c) ==
  /\ PassedOn(c) /\ c.msg \in seen[c.to]
  /\ net' = net \ {c}
  /\ peers' = [peers EXCEPT ![c.to] = @ \union {c.from}]
  /\ UNCHANGED <<origin, dest, seen, threads, delivered, whole, faults>>

Check(c) ==
  /\ PassedOn(c) /\ c.msg \notin seen[c.to]
  /\ net' = net \ {c}
  /\ peers' = [peers EXCEPT ![c.to] = @ \union {c.from}]
  /\ threads' = threads \union {c}
  /\ UNCHANGED <<origin, dest, seen, delivered, whole, faults>>

\* Mutation: the hop count is not tested.
RelaysUnbounded(c) == dest[c.msg] # c.to

\* Mutation: off by one in the hop test.
RelaysEarlyStop(c) == c.hops + 1 < MaxHops /\ dest[c.msg] # c.to

Relays(c) == c.hops < MaxHops /\ dest[c.msg] # c.to

\* _mark_seen, the local handler, and the relay to every known peer
Accept(c) ==
  LET n == c.to  m == c.msg IN
  /\ threads' = threads \ {c}
  /\ seen' = [seen EXCEPT ![n] = @ \union {m}]
  /\ delivered' = IF dest[m] \in {All, n} THEN [delivered EXCEPT ![n][m] = @ + 1] ELSE delivered
  /\ net' = IF Relays(c) THEN net \union Copies(n, m, c.hops + 1) ELSE net
  /\ UNCHANGED <<peers, origin, dest, whole, faults>>

Next ==
  \/ \E n, p \in Node : Probe(n, p) \/ ProbeUnanswered(n, p)
  \/ \E n \in Node, m \in MsgId, d \in Node \union {All} : Broadcast(n, m, d)
  \/ \E c \in net : SendFails(c) \/ Skip(c) \/ Drop(c) \/ Check(c)
  \/ \E c \in threads : Accept(c)

\* Connections are served and handler threads run.
Fairness ==
  /\ WF_vars(\E c \in net : Skip(c) \/ Drop(c) \/ Check(c))
  /\ WF_vars(\E c \in threads : Accept(c))

Spec == Init /\ [][Next]_vars
FairSpec == Spec /\ Fairness

-----------------------------------------------------------------------------
(* Properties *)

\* Within(n)[k]: the devices at most k links away from n.
Within(n) ==
  LET ball[k \in 0..(MaxHops + 1)] ==
        IF k = 0 THEN {n} ELSE UNION {Neighbours(p) \union {p} : p \in ball[k - 1]}
  IN  ball

\* When a message names its sender, no send fails and every link was known, it
\* is handled by every device within MaxHops + 1 links it is meant for, although
\* the copy that comes first decides for each device how far it is relayed.  This
\* needs MaxHops to cover the detours of the radio graph: with hops for the
\* shortest paths only, a first copy that came around a cycle ends the flood early.
MeantFor(m) ==
  (IF dest[m] = All THEN Node \ {origin[m]} ELSE {dest[m]})
    \intersect Within(origin[m])[MaxHops + 1]

Reaches(m) ==
  m \in whole /\ faults = 0 => \A n \in MeantFor(m) : delivered[n][m] > 0

\* And the flood ends, in spite of cycles in the radio graph and of threads that
\* overlap between _is_seen and _mark_seen (bluetooth_mesh.py:79-136).
ReachesInRange ==
  <>[](/\ net = {} /\ threads = {}
       /\ \A m \in Announcing : origin[m] # NoNode => Reaches(m))

-----------------------------------------------------------------------------
(* What is inductive *)

\* A device handles no message of its own and none that is meant for another, and knows it
\* as seen from then on, so that no copy that comes later is handled or relayed again
\* (bluetooth_mesh.py:81-105, bluetooth_transport.py:275-288).
HandledAsMeant ==
  \A n \in Node, m \in MsgId : delivered[n][m] > 0 =>
    /\ origin[m] \notin {n, NoNode} /\ dest[m] \in {All, n}
    /\ m \in seen[n] /\ m \in Announcing

\* What is under way or seen was broadcast; copies travel along links, and those in a
\* thread are to be passed on.
FloodInv ==
  /\ \A n \in Node : peers[n] \subseteq Neighbours(n)
  /\ \A c \in net \union threads : origin[c.msg] # NoNode /\ c.to \in Neighbours(c.from)
  /\ \A c \in threads : PassedOn(c)
  /\ \A m \in MsgId : origin[m] # NoNode => m \in seen[origin[m]]

MeshIInv == TypeOK /\ FloodInv /\ HandledAsMeant
=============================================================================
