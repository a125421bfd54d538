---------------------------- MODULE PeerExchange ----------------------------
(***************************************************************************)
(* How a node learns of its peers: the TCP exchange of capabilities        *)
(* (src/swarm/peer_server.py, src/swarm/peer_client.py) and what it and    *)
(* the DHT write into known_peers, the one dictionary the rest of the      *)
(* program reads through dht_discovery.get_known_nodes.                    *)
(*                                                                         *)
(* A client thread goes through the listed addresses until each has        *)
(* answered once; a handler thread of the server sends its capabilities    *)
(* first and reads the client's afterwards.  What the DHT hears is an      *)
(* input here (module Kademlia has its messages).  All nodes list each     *)
(* other (known_peers.py), and a capability record, which has roles and    *)
(* no address, stands for itself.                                          *)
(***************************************************************************)
EXTENDS Naturals, FiniteSets

CONSTANTS
  Node,         \* nodes that list each other in PEER_IPS
  Far,          \* peers that are heard of over the DHT only
  NoNode,
  Worker,       \* nodes whose capabilities have the role worker
  Heard,        \* what the DHT brings: "address", "capability" or both
  MaxFaults     \* bound on crashes and on timeouts inside an exchange

VARIABLES
  up,           \* nodes whose program runs
  remaining,    \* remaining[n]: peers the client thread has still to exchange with
  calling,      \* calling[n]: the peer whose capabilities the client thread reads
  handlers,     \* <<n, p>>: a handler thread of p serves n
  delivered,    \* <<n, p>>: the capabilities of n are there for that handler
  known,        \* known[n]: _known_nodes of peer_server
  entry,        \* entry[n][p]: what known_peers holds for p
  reading,      \* nodes whose main loop is inside get_all_peers
  grown,        \* those whose known_peers got a new key meanwhile
  raised,       \* nodes whose get_all_peers raised once
  faults

exchangeVars == <<up, remaining, calling, handlers, delivered, known, entry, reading,
                  grown, raised, faults>>

\* address: ip and port from FOUND_NODES; capability: a cap of PONG, ANNOUNCE, FIND_NODE or
\* FOUND_NODES; exchanged: the record of _add_peer, with addr and the capabilities inside.
Entry == {"none", "address", "capability", "exchanged"}

ExchangeTypeOK ==
  /\ up \subseteq Node /\ reading \subseteq up /\ grown \subseteq reading
  /\ raised \subseteq Node
  /\ remaining \in [Node -> SUBSET Node]
  /\ calling \in [Node -> Node \union {NoNode}]
  /\ delivered \subseteq handlers /\ handlers \subseteq Node \X Node
  /\ known \in [Node -> SUBSET Node]
  /\ entry \in [Node -> [Node \union Far -> Entry]]
  /\ faults \in 0 .. MaxFaults

ExchangeInit ==
  /\ up = {} /\ reading = {} /\ grown = {} /\ raised = {}
  /\ remaining = [n \in Node |-> {}]
  /\ calling = [n \in Node |-> NoNode]
  /\ handlers = {} /\ delivered = {}
  /\ known = [n \in Node |-> {}]
  /\ entry = [n \in Node |-> [p \in Node \union Far |-> "none"]]
  /\ faults = 0

Mishap == faults < MaxFaults /\ faults' = faults + 1

\* An assignment into known_peers; a new key is an insertion.
SetEntry(n, p, e) ==
  /\ entry' = [entry EXCEPT ![n][p] = e]
  /\ grown' = IF entry[n][p] = "none" THEN grown \union ({n} \intersect reading) ELSE grown

-----------------------------------------------------------------------------
(* A node starts and ends *)

\* start_server, then exchange_with_all
StartNode(n) ==
  /\ n \notin up
  /\ up' = up \union {n}
  /\ remaining' = [remaining EXCEPT ![n] = Node \ {n}]
  /\ UNCHANGED <<calling, handlers, delivered, known, entry, reading, grown, raised, faults>>

\* The process ends: its threads, sockets and dictionaries are gone.
Ends(n) ==
  /\ up' = up \ {n}
  /\ remaining' = [remaining EXCEPT ![n] = {}]
  /\ calling' = [calling EXCEPT ![n] = NoNode]
  /\ handlers' = {h \in handlers : h[2] # n}
  /\ delivered' = {h \in delivered : h[2] # n}
  /\ known' = [known EXCEPT ![n] = {}]
  /\ entry' = [entry EXCEPT ![n] = [p \in Node \union Far |-> "none"]]
  /\ reading' = reading \ {n} /\ grown' = grown \ {n}

CrashNode(n) == n \in up /\ Mishap /\ Ends(n) /\ UNCHANGED raised

-----------------------------------------------------------------------------
(* connect_and_exchange and _handle_client *)

\* The handler sends its capabilities and shuts its side down.
Connect(n, p) ==
  /\ n \in up /\ p \in up \intersect remaining[n]
  /\ calling[n] = NoNode /\ <<n, p>> \notin handlers
  /\ calling' = [calling EXCEPT ![n] = p]
  /\ handlers' = handlers \union {<<n, p>>}
  /\ UNCHANGED <<up, remaining, delivered, known, entry, reading, grown, raised, faults>>

\* Mutation: every address is tried once.
GiveUpCall(n) ==
  /\ calling[n] # NoNode
  /\ \/ <<n, calling[n]>> \notin handlers /\ UNCHANGED faults
     \/ Mishap
  /\ calling' = [calling EXCEPT ![n] = NoNode]
  /\ remaining' = [remaining EXCEPT ![n] = @ \ {calling[n]}]
  /\ UNCHANGED <<up, handlers, delivered, known, entry, reading, grown, raised>>

\* The connection breaks or times out: the address stays in still_pending.
CallFails(n) ==
  /\ calling[n] # NoNode
  /\ \/ <<n, calling[n]>> \notin handlers /\ UNCHANGED faults
     \/ Mishap
  /\ calling' = [calling EXCEPT ![n] = NoNode]
  /\ UNCHANGED <<up, remaining, handlers, delivered, known, entry, reading, grown, raised>>

\* The peer's capabilities are read, the own ones sent and the peer registered, whether or
\* not there is still a handler to read what was sent.
CallSucceeds(n) ==
  LET p == calling[n] IN
  /\ p # NoNode
  /\ calling' = [calling EXCEPT ![n] = NoNode]
  /\ remaining' = [remaining EXCEPT ![n] = @ \ {p}]
  /\ known' = [known EXCEPT ![n] = @ \union {p}]
  /\ SetEntry(n, p, "exchanged")
  /\ delivered' = delivered \union ({<<n, p>>} \intersect handlers)
  /\ UNCHANGED <<up, handlers, reading, raised, faults>>

ServeClient(n, p) ==
  /\ <<n, p>> \in delivered
  /\ handlers' = handlers \ {<<n, p>>} /\ delivered' = delivered \ {<<n, p>>}
  /\ known' = [known EXCEPT ![p] = @ \union {n}]
  /\ SetEntry(p, n, "exchanged")
  /\ UNCHANGED <<up, remaining, calling, reading, raised, faults>>

\* The client closed without sending, or recv timed out.
HandlerEnds(n, p) ==
  /\ <<n, p>> \in handlers
  /\ \/ calling[n] # p /\ <<n, p>> \notin delivered /\ UNCHANGED faults
     \/ Mishap
  /\ handlers' = handlers \ {<<n, p>>} /\ delivered' = delivered \ {<<n, p>>}
  /\ UNCHANGED <<up, remaining, calling, known, entry, reading, grown, raised>>

-----------------------------------------------------------------------------
(* The DHT's listen thread, and the readers *)

\* _handle stores a cap whatever is there, and an address only for a new peer.
Hear(n, p, e) ==
  /\ n \in up /\ p # n
  /\ e = "capability" \/ (e = "address" /\ entry[n][p] = "none")
  /\ entry[n][p] # e
  /\ SetEntry(n, p, e)
  /\ UNCHANGED <<up, remaining, calling, handlers, delivered, known, reading, raised, faults>>

\* get_all_peers goes through the dictionary; with nothing in it there is no loop.
BeginSnapshot(n) ==
  /\ n \in up \ reading /\ \E p \in Node \union Far : entry[n][p] # "none"
  /\ reading' = reading \union {n}
  /\ UNCHANGED <<up, remaining, calling, handlers, delivered, known, entry, grown, raised, faults>>

EndSnapshot(n) ==
  /\ n \in reading \ grown
  /\ reading' = reading \ {n}
  /\ UNCHANGED <<up, remaining, calling, handlers, delivered, known, entry, grown, raised, faults>>

\* RuntimeError: the dictionary changed its size.  The main loops of run_node.py and
\* run_autonomous.py do not catch it, and all their threads are daemons.
SnapshotRaises(n) ==
  /\ n \in grown
  /\ raised' = raised \union {n}
  /\ Ends(n)
  /\ UNCHANGED faults

-----------------------------------------------------------------------------
ExchangeNext ==
  \/ \E n \in Node :
       \/ StartNode(n) \/ CrashNode(n) \/ CallFails(n) \/ CallSucceeds(n)
       \/ BeginSnapshot(n) \/ EndSnapshot(n) \/ SnapshotRaises(n)
  \/ \E n, p \in Node : Connect(n, p) \/ ServeClient(n, p) \/ HandlerEnds(n, p)
  \/ \E n \in Node, p \in Node \union Far, e \in Heard : Hear(n, p, e)

ExchangeSpec == ExchangeInit /\ [][ExchangeNext]_exchangeVars

\* Client threads go round, and an exchange that does not time out comes to its end.
ExchangeFairness ==
  \A n, p \in Node :
    /\ WF_exchangeVars(Connect(n, p))
    /\ WF_exchangeVars(calling[n] = p /\ (CallFails(n) \/ CallSucceeds(n)))
    /\ WF_exchangeVars(ServeClient(n, p) \/ HandlerEnds(n, p))

-----------------------------------------------------------------------------
(* Properties *)

\* Nodes that list each other and stay up end up in each other's _known_nodes and stay
\* there, in whatever order they were started or restarted and whatever exchange broke
\* ("Retries unreachable peers ... until all have responded", peer_client.py:90-91).
Introduced ==
  \A n, p \in Node :
    n # p => (<>[](n \in up /\ p \in up) => <>[](p \in known[n]))

\* The worker_peers of distribute_tasks, and the address it sends a task to.
WorkerPeers(n) == {p \in Worker : entry[n][p] \in {"capability", "exchanged"}}
HasAddress(n, p) == entry[n][p] = "address"

\* A worker the TCP exchange has registered is one distribute_tasks can send a task to
\* ("so task_distributor can route work to it", peer_client.py:43).
Routable ==
  \A n \in Node : \A p \in known[n] \intersect Worker : p \in WorkerPeers(n) /\ HasAddress(n, p)

\* A snapshot of the peers never raises ("Matches the old discovery.py API so callers need
\* no changes", dht_discovery.py:4; there: "Safe to call from any thread", discovery.py:170).
SnapshotsSafe == raised = {}

\* What is true of Routable: the worker peers of distribute_tasks have every worker that the
\* exchange registered, and none of those has an address for it, whatever the DHT brings
\* and whichever comes first (peer_server.py:42-62, kademlia_node.py:228-275,
\* task_distributor.py:51-71).
RegisteredHasNoAddress ==
  \A n \in Node : \A p \in known[n] \intersect Worker : p \in WorkerPeers(n) /\ ~HasAddress(n, p)

-----------------------------------------------------------------------------
(* What is inductive *)

\* A node that is down keeps and serves nothing; a registered peer has been written into
\* known_peers, where no address replaces it.
RegisteredInv ==
  /\ \A n \in Node \ up :
       /\ remaining[n] = {} /\ calling[n] = NoNode /\ known[n] = {}
       /\ \A p \in Node \union Far : entry[n][p] = "none"
  /\ \A h \in handlers : h[2] \in up
  /\ \A n \in Node : \A p \in known[n] : entry[n][p] \in {"capability", "exchanged"}

ExchangeIInv == ExchangeTypeOK /\ RegisteredInv
=============================================================================
