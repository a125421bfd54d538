# EdgeMind / ANP Edge Swarm: specifications, checks and proofs

This directory holds TLA+ modules for the parts of the repository that keep
state and talk to each other, TLC configurations that check them on small
instances, and TLAPS proofs of safety properties of all twenty-five of them. Paths
such as `db/db_agent.py:237` are relative to the repository's root (`src/`).
`PROJECT.json` maps every definition that models code to its lines, lists the
hazards with the properties that cover them, and gives for every property a
mutation of the code that the property catches.

Contents: 1 inventory, 2 plan, 3 the modules and the code, 4 the runs, 5
fairness, 6 the proofs, 7 where code and documentation disagree, 8 what is left
out, 9 how to run it.

## 1. Inventory

EdgeMind is a Python program (3.11 or later) that runs on every device of a
small swarm. Devices find each other, one of them ("the brain") distributes
work, sensor agents produce readings, a pipeline of small models judges them,
and readings are replicated. `anp/` is a vendored SDK for networks of agents,
in Python with ports to Java and TypeScript, that none of the other code
imports; it is most of the repository's lines. EdgeMind has no tests of its
own.

### EdgeMind

| Component | State it keeps | Operations | Interacts with | What is hard | Correct when |
|---|---|---|---|---|---|
| DBAgent gossip (`db/db_agent.py`, `db/adapters/sqlite_adapter.py`) | one table of readings per node, each row with a `synced` flag | save, push to a peer, mark, handle an incoming payload | peers over TCP 50011; `get_peers` of discovery | push thread, handler threads and sensors share a table; no acknowledgement; crashes between send and mark | a mark stands for a copy, rows never go back, readings reach the swarm |
| Health monitor (`swarm/health_monitor.py`) | status, failures, `last_seen`, `rejoin_pending`, state changes per node | ping round, timeout pass, handshake on rejoin | peer table, task distributor, handshake, event bus | two failure detectors; nodes that flap or come back | no node is alive again without a handshake, dead nodes are found |
| Task distributor (`swarm/task_distributor.py`, `examples/run_node.py`) | `_active_tasks` | assign, complete, reassign | workers over TCP, monitor | a result races the reassignment | tasks move only from a dead to a live node, a completed one never comes back |
| K-bucket (`swarm/kbucket.py`) | list of at most K peers by age | add, evict_stale | listen and refresh thread of the DHT node | two threads, no lock, a list replaced while another thread holds it | ordered by age; recent peers stay |
| Kademlia node (`swarm/kademlia_node.py`) | routing table, `known_peers`, storage | eight UDP messages, refresh, bootstrap, lookup | other nodes | loss, duplication, leaving and returning | who answers stays; nodes find each other; lookups end |
| Peer exchange (`swarm/peer_server.py`, `swarm/peer_client.py`, `swarm/dht_discovery.py`) | `known_peers`, the peers still to exchange with | connect, serve, register, read the peers | the DHT node; everything that asks for peers | both ends register separately; exchange and DHT write the same entry; readers iterate while others insert | nodes that list each other come to know each other |
| Bluetooth mesh (`swarm/bluetooth_mesh.py`, `swarm/bluetooth_transport.py`) | peers, seen cache | probe, broadcast, relay | handlers of the discovery layer | cycles of the radio graph, threads between check and mark, hop counts | floods end and reach everybody in range |
| Autonomous mind (`core/pipeline_trigger.py`, `core/self_improvement.py`, `core/goal_manager.py`, `core/swarm_mind.py`, `ml/stream_buffer.py`, `agents/action_agent.py`) | buffer, decision history, mode | collect, cycle, record, adjust | both buses, ML executor | several threads around one history | the mode follows lasting trouble and lasting calm and does not swing |
| Parallel ML executor (`ml/parallel_executor.py`, `ml/task_decomposer.py`, `ml/task_workers.py`, `ml/inference_server.py`, `ml/result_assembler.py`) | a pool per cycle | decompose, run, collect | peers over TCP | one deadline for everything | every task has exactly one result, its own |
| Result collector, `run_intent` (`swarm/result_collector.py`, `examples/run_intent.py`) | received results, an event | collect, wait | workers over TCP | results that are late or belong to an older intent | an intent gets its own results |
| Orchestrator (`core/orchestrator.py`) | none between intents but the bus queue | collect readings adaptively, wait for the swarm, decide | message bus, result collector, models | late readings; concurrent intents on one inbox | a decision uses the readings of its intent |
| Message bus, event bus (`bus/`), telemetry agent (`agents/telemetry_agent.py`) | queues, subscribers, logs; a write queue | publish, receive, subscribe; enqueue, write, flush | all agents, the database | snapshots of subscribers, joins with timeouts, stop and restart of the writer | a critical event that was waited for is recorded |
| Store-level sync (`db/sync.py`, `db/store.py`) | an older database | push, receive | peers over TCP | received readings get a new id | a mark stands for a copy |
| Auto trigger, agent factory, agents (`core/auto_trigger.py`, `agent_factory/`, `agents/`) | spawned agents, timers, known devices | spawn, kill, destroy, restart | event bus, message bus | timers against restarts | agents end with their request |
| Handshake and crypto (`security/`) | trusted set, open challenges | challenge, respond, verify | monitor | replayed or late responses | only holders of the secret become trusted |
| LAN discovery, registry (`swarm/discovery.py`, `swarm/peer_registry.py`, `swarm/static_peers.py`), Bluetooth discovery | peer tables | beacons, announcements | no program imports the former any more | nothing of its own | present peers are listed |
| Reflective decisions, intent parsing, model hierarchy, identity, capability probes, socket API, examples | counters, files, none | calls without interaction of their own | the components above | nothing a model reaches | |

### The ANP SDK (`anp/`)

| Component | State it keeps | Operations | What is hard | Correct when |
|---|---|---|---|---|
| HPKE sessions (`e2e_encryption_hpke/session.py`, `seq_manager.py`, `ratchet.py`) | session id, chain keys, sequence numbers, cache of used ones | set up, rekey, encrypt, decrypt | messages and set-ups reordered, repeated, lost; rekeys that cross | messages open once and in order until a set-up comes again; ends agree again after a rekey |
| Group keys (`group_session.py`) | epoch, own and remote sender keys | draw, distribute, advance, clean up | distributions late or repeated, epochs that change on the way | a member opens every message once, in order |
| E2EE handshake, v2 (`e2e_encryption_v2`) | pending and active sessions in three tables | hello, answer, finish, evict, time out | crossing and repeated hellos, a full table | an active end is not alone |
| E2EE short-term keys, v1 (`e2e_encryption`) | keys by id, coroutines that wait | hello, Finished, encrypt | coroutines of several sessions, a message right behind its key | keys one end uses the other has or gets |
| Meta-protocol negotiation (`meta_protocol`) | history, queues, code events | propose, counter, accept, generate | queues that are cleared, old answers | both ends have one protocol or none |
| DID-WBA authentication (`authentication`, `fastanp/middleware.py`) | cached headers and tokens; nonces | sign, verify, retry once | concurrent calls around one cache; clocks that differ; expiry | a header is used once; nobody is refused without a reason |
| DID documents and keys (`did_wba.py`, `verification_methods.py`, `proof`, `tools/did_generater`) | document and key files, what is published | create, save, publish, sign, verify | a client that holds the old document and the new key | new keys take hold |
| AP2 payment (`ap2`, the complete flow of the examples) | cart mandates by id, their hashes | request, pay, receive | carts replaced under their shopper, expiry | what is shipped is what was paid |
| JSON-RPC servers and sessions (`openanp`, `fastanp`, anp4j) | sessions by DID | single requests, batches, clean-up | batches that run side by side, the cleanup thread of anp4j | a DID has one session; a batch is answered in order |
| Descriptions and discovery (`openanp`, anp4j) | published documents, methods read | publish, discover, call | several documents read one after the other from a server that is replaced | what is read is what is called |
| Crawlers (`anp_crawler`, anp4j) | cache of pages, table of tools | fetch, clear, call a tool | fetches that overlap with clears and each other | cache and table agree |
| TypeScript port (`ts_sdk`) | nonces; a negotiation machine | request with retries; events and messages | one nonce for all attempts; messages out of order | no request handled twice; one agreement |
| Chat example (`openanp_examples/chat_a.py`, `chat_b.py`) | peer, active chat, turns | discover, propose, take turns | both propose at once | one chat, the same at both ends |
| The rest: types and schemas, decorators' wiring, code generators, name resolution, crypto of the ports, other examples | none between calls | | | |

## 2. Plan

Order: first what loses data or work when it goes wrong (replication, healing),
then what all of it stands on (the DHT and its buckets, the mesh), then the
control loops, the request path, and the SDK by what its users rely on.

1. `ReadingReplicas`, `GossipSync`, `GossipSyncProofs` - **done**
2. `SelfHealing` (monitor composed with distributor and workers), `SelfHealingProofs` - **done**
3. `KBucket`, `DhtProofs` - **done**
4. `Kademlia` (nodes built of routing tables), in `DhtProofs` too - **done**
5. `BluetoothMesh`, in `NodeServicesProofs` - **done**
6. `SwarmMind` (buses, pipeline, history, mode), in `AgentProofs` - **done**
7. `TaskSwarm`: orchestrator, `run_intent`, agents, result collector and
   workers, `TaskSwarmProofs` - **done**
8. `EventRecorder`: event bus with the telemetry agent as a subscriber - **done**
9. `StoreSync` and `ParallelExecutor`, with the recorder in
   `NodeServicesProofs`; `PeerExchange`, in `DhtProofs` - **done**
10. The SDK's protocols: `HpkeSession`, `ShortTermKeys`, `MetaNegotiation`,
    `E2eeHandshake` and `HpkeGroup` with `SessionProofs`, `DidWbaAuth` and `DidKeys`
    with `DidProofs` - **done**
11. What agents do with it: `RpcServer`, `AgentDiscovery`, `AnpCrawler`,
    `Ap2Payment`, `TsRequests`, `TsNegotiation`, `ChatPeers` and their composition,
    with `AgentProofs` - **done**

Dropped from the plan: an `AgentFleet` around the auto trigger, because
`known_peers` never shrinks, so the trigger spawns its three agents once per
peer and nothing competes with it; and a `Handshake`, whose two messages travel
over one connection and whose strength is that of its hash, so that
`SelfHealing` keeps its outcome as a choice.

`GossipSync` implements the abstract `ReadingReplicas`. Every safety property of
the runs that pass is proved; what remains to be proved are the composed type
invariants of three runs, whose parts are proved one by one (section 6).

## 3. The modules and the code

### ReadingReplicas and GossipSync

`GossipSync` has one table per node, `table[n][r]` in absent / unsynced /
synced, one push thread per node (`stage`, `target`, `batch`, `todo`), and the
payloads between a completed `sendall` and the last row their handler saves
(`wire`). A round of `_sync_loop` is `StartRound`; for every peer
`_push_to_peer` fetches (`FetchUnsynced`: the 20 newest unsynced rows), sends
(`PushSends`, `PushFails`) and marks row by row, each its own transaction
(`MarkSynced`, `MarkFails`, `EndPush`). `_handle_incoming` saves row by row
(`SaveIncoming`, `SaveFallsBack`, `SaveFails`, `LosePayload`). A crash may
happen anywhere (`CrashRestart`); rows survive, threads and open connections do
not. `handed` and `fallen` are history variables.

Faithfulness: readings are numbered in timestamp order, all a push asks of a
timestamp. `wire` is a set, so two payloads with equal content for one peer are
one; saving is idempotent. `LosePayload` of a partly saved payload is a handler
that dies half way. The 4 MB payload limit against 20 small rows never trips.

`ReadingReplicas` is the abstract specification: a reading is produced once and
from then on its set of holders only grows, one at a time. `GossipSync`
implements it with `holders[r]` = the nodes whose table has a row for `r`.

### SelfHealing

One module for the brain's two halves, as they share `node_health` and
`_active_tasks`. Time is counted in rounds of the health loop. `Ping` is one
iteration for one peer with all its branches (`PingSucceeds`, `PingFails`, the
handshake's verdict, the flapping window, `DeclareDead`), `EndRound` the timeout
pass, `Reassign` one iteration of `_on_node_dead` over the tasks and the
candidates it computed at its start. `AssignTask`, `FinishTask`, `TaskFails`
and `CompleteTask` are the distributor and the worker.

Faithfulness: `AssignTask` records the task and sends it in one step, because
the caller of `record_task` is not in the repository; nothing in the repository
constructs a `HealthMonitor` or calls `complete_task` either, so the way the
parts are meant to be joined is taken from their signatures and comments. A
round can be longer than PING_INTERVAL when pings time out; hence the two bounds
`SlowRounds` and `TimeoutRounds` for one DEAD_THRESHOLD. `Verdicts` is what
`_validate_handshake` may answer: both in the checks of the design, FALSE in the
run that asks what the code on a working installation does.

### KBucket

One bucket, the listen thread's `add` and the refresh thread's `evict_stale`,
in steps between the places where CPython 3.11 may switch threads. `adder`,
`adding`, `pos`, `orphaned` and `evictor`, `now`, `next`, `kept` are the local
variables of the two calls. `orphaned` says that `self.nodes` was replaced after
`add` bound `self.nodes.append`. The scan of `add` is one step: only the listen
thread changes the list object. There is no switch between the end of the
comprehension and the assignment. The clock counts REFRESH_INTERVALs.

### Kademlia

`age[n][p]` is the routing table (Absent, or refreshes since `p` was added),
`known` and `storage` the other two dictionaries, `net` the datagrams. `Handle`
is the whole of `_handle`, for all eight kinds: the sender is added and its
capability kept, the listed nodes are added, the answers go out. `Refresh` is
`announce_self` and the pings, `EvictStale` the second half of the loop after its
wait. `Start` and `FindPeer` are the operations of the API. The race inside one
bucket is `KBucket`; tables here are smaller than K, so `find_closest` returns
all of it. `missed` counts pings that stayed without a PONG.

Faithfulness: `Settled` says that a datagram travels for less than the 30 s
between refreshes. An entry heard right after a refresh is older than 90 s one
refresh earlier than one heard right before it (`late`). The version of a stored
capability is not kept.

### BluetoothMesh

Devices with a fixed symmetric relation `InRange`. `Probe` is a discovery
connection, after which one or both ends know each other. `Broadcast` sends a
copy to every known peer; every copy is handled in a thread that first checks
(`Check`, `Drop`) and later marks, delivers and relays (`Accept`): the two locks
of `_is_seen` and `_mark_seen` are two steps. `Skip` is the transport's server,
which passes an envelope on only when its payload has a `node_id` that is not
its own.

Faithfulness: the seen cache keeps ids for 60 s, longer than copies live, so
entries do not expire while a copy is under way. Copies with the same link and
hop count are one. Handlers are assumed not to raise. `delivered` is a history
variable; `HandledAsMeant` says which messages a device's handlers ever get.

### SwarmMind

`Publish` is one turn of a sensor agent (message bus, then event bus), `Collect`
and `Deliver` the two ways a reading reaches the buffer, `Trigger`, `Act`,
`Record` and `CycleFails` the pipeline thread, `Evaluate` and `SetMode` the goal
manager, which reads the history, then sets the mode; a decision may be recorded
between the two. `Act` is the step in which the action agent executes, in the
thread of the cycle. What a cycle concludes is any verdict. The buffer is never
drained by a cycle, so only whether it is full enough matters, and it is counted
up to `Ready`. `heading` and `since` are history variables.

Faithfulness: the thresholds are constants with the code's order between them
(`ThresholdAssumption`); intervals, the `idle` mode and the manual `set_mode`
(no caller) are left out, and so are stop and restart of the mind. Publishing on
the two buses is one step: the subscription may fall between them in the code,
which adds nothing to what the buffer counts. `record_outcome` changes nothing
(see 7).

### TaskSwarm

The path of a request. `program` is what runs on the brain: `StartProgram` and
`KillProgram` begin a process with an empty bus, no agents and no results, which
is what module-level state does; `run_intent.py` waits at its prompt, the API for
clients. `BeginIntent`, `Assign`, `FallBack` are `main` and `distribute_tasks`,
`BeginRequest` a text request at the API. `SpawnIntent`, `Receive`,
`EndCollection`, `WaitSucceeds` and `WaitTimesOut` are `run_intent` of the
orchestrator with `wait_for_results`; `Wake`, `Send`, `Destroy` the agent's thread
and its timer; `Answer` and `LoseTask` the worker and the collector's thread.
`early` and `shared` are history variables, `first` the clock of `_MIN_WAIT`.

Faithfulness: the API spawns requests side by side on one inbox; `run_intent.py`
serves one per process and is the only one to use workers, and both bind port
50005, so one runs at a time. The agents are those of all the sensors asked for,
as the orchestrator replaces the intent it is given (`core/orchestrator.py:92`).
A task is a request and a sensor, since task ids are fresh. A small message is
one `send`, so a send that fails has delivered nothing. Times enter as in the
module's head comment: a worker that answers after the 15 s of the wait is a
fault. A finished `run_intent.py` stays until the next program starts.

### EventRecorder

The event bus and the black box behind it. `Publish` logs an event, takes the
snapshot of the subscriptions under the lock and starts one delivery thread per
subscription; for a critical event `Return` is the join, which may time out
(`slow`). `Start` subscribes and starts the writer, `Stop` puts the sentinel into
the queue, `Write` is one turn of the writer. Either may be called at any time;
a second start subscribes a second time, as the code does not look. `heard` and
`settled` are history variables.

### StoreSync

The older replication: rows with a record id of their own, `synced` flags, a
client thread that for every peer reads a batch, sends it (`Push`) and marks it
(`Mark`), and handlers that save what arrives under fresh ids (`Receive`).
Payloads are lost when their receiver is (`LosePayload`). Only sensor readings
are sent, as in the code.

### PeerExchange

`Connect`, `ServeClient`, `HandlerEnds`, `CallSucceeds` and `CallFails` are one
exchange: the handler sends first and reads afterwards, so either side may
register without the other. `entry` is what `known_peers` holds for a peer,
written by the exchange (roles, address in a field nobody reads) and by the DHT
(`Hear`; an address, or capabilities). `BeginSnapshot`, `EndSnapshot` and
`SnapshotRaises` are `get_all_peers` with an insertion in between. Crashes and
restarts empty everything. `RegisteredHasNoAddress` says what is true of
`Routable`, which a run refutes: no order of exchange and DHT messages ever gives a
registered worker an address.

### ParallelExecutor

One run: `Decompose` ranks the nodes by their normalised capabilities as
`task_decomposer.py` does and assigns the five tasks, `Submit` fills the pool,
`RunLocally`, `ServeTask`, `ReadAnswer` and `CallBreaks` are what a thread of the
pool may come to, `CollectResults` the loop over `as_completed`, `Deadline` its
TimeoutError, `Sweep` the loop that marks what is not done, `Join` the exit of the
pool, `RunAction` the task that waits for the others, whose outcome is its own or
the fallback's (`ActionOutcome`). What a task of `ml/task_workers.py` computes is
left out.

### HpkeSession and HpkeGroup

Cryptography is ideal. In `HpkeSession` a chain key is its seed, its direction
and how often it was advanced; `Encrypt` and `Decrypt` move the chains and the
sequence numbers in strict or window mode, `ForgetUsed` is the expiry of the cache
of used numbers, `InitiateSession`, `InitiateRekey`, `ProcessInit`,
`ProcessRekey` and `RefuseRekey` the set-ups; what is refused and changes nothing
has no action. The transport is the application's (`session.py:3`), so a request to
set up, like a message, may come at any time after it was sent, several times or
never (`Brought`): `process_rekey` has no memory of what it has processed.
`entered` is a history variable that counts how often an end was set up for a
session, and what an end opened is recorded with the count at that time (`life`). A
message is known by its number, because an end that is set up again for a session
seals under the same numbers again. `settling` is a history variable too: the
session asked for last, while no other request was processed and none failed.
In `HpkeGroup` a sender key is named after its sender and epoch, not after its
draw, as in the code, so a second draw in one epoch has the name of the first.

### E2eeHandshake and ShortTermKeys

`E2eeHandshake` is the second version: objects with their states, found through
three tables of the key manager. `Deliver` is the handler of the three messages
with the refusals of each; `Lose`, `Repeat`, `TimeoutPending`, `Expire` are the
faults. A random number and an ephemeral key are the object that drew them.
`ShortTermKeys` is the first version over WebSockets: every session has a
coroutine that is handed its messages and may be slower than the loop that reads
the next one; `inbound` is what is on its way to that coroutine, `handed` what it
has been handed. `Read` drops a message whose key is not stored yet, as the code
does.

### MetaNegotiation

Requester and provider over an ordered connection. `HandleMetaData` puts what
arrives into the queue of its kind, `WaitRemoteNegotiation` clears it,
`TakeProposal`, `TakeAccepted`, `TakeRejected` and what the language model then
decides (`Accept`, `Counter`, `Reject`) are the loop of
`_process_negotiation_messages`, `GenerateCode`, `HearGenerated` and `StopConfirming`
the end. The model's texts are choices. `untidy` says that somebody began while
something was still under way or gave up waiting.

### DidWbaAuth and DidKeys

`DidWbaAuth` has one client with its cache of a header and a token, several calls
of `fetch_url` around it (`Fetch`, `Retry`, `Succeed`, `GiveUp`), and the verifier:
timestamp and nonce in one step (`CheckHeader`), resolution of the DID after an
await (`Resolve`, `FailToResolve`), tokens (`CheckToken`). Clocks differ by a skew
that is chosen once. `Restart` forgets all nonces. The cache of the Java client and
the server side of OpenANP and FastANP do the same steps.  `DidKeys` is about what a
signature is made with and checked against: documents of `Generate` with and
without key binding, or written by hand (external), saved file by file with
failures (`SaveFile`, `SaveFails`), published and edited; a client that keeps the
document and rereads its key (`StartClient`, `DrawSigned`); `VerifySigned` reads
what is published then. `DrawSigned` and `VerifySigned` stand for the header and
the JSON form alike. Encodings are left out, but which types each place knows is
kept (`Ecdsa`, `Readable`, `Encodable`). The write of one file is one step.

### RpcServer, AgentDiscovery and AnpCrawler

Each has the ports that share its logic as a choice of the initial state. In
`RpcServer` it is `dialect`: OpenANP runs a batch side by side, FastANP and anp4j
take one request. `Submit`, `Refuse`, `Call`, `CallWrongly`, `Return`, `Reply`
and `Fail` are the server, `GetOrCreate` its sessions; the cleanup is part of the
call in Python and a thread in Java (`StartSweep`, `SweepLooks`, `SweepRemoves`).
The kinds of a request are those its handling tells apart, what its method raises
included (`Raised`): openanp answers a ValueError of the method like a bad request,
both Python servers a TypeError like bad parameters. What a list
comprehension keeps is defined by numbering the places it keeps (`Selection`),
not by a recursive filter, so that it can be reasoned about for any length.
In `AgentDiscovery` the server publishes one description, one interface document
of its content methods and one of every link method, of which anp4j serves none;
`FetchAd`, `FetchInterface` and `EndDiscovery` read them one at a time, `Deploy`
replaces the server on the way, `StartCall`, `Unauthorized`, `Handle`,
`GetResult` and `Break` are a call.
In `AnpCrawler` callers overlap: `PublishPage` replaces a page, `Fetch` looks into
the cache, `ServePage` answers with the page of that moment, `ReadPython`, or
`ReadPage`, `ReadLink` and `CacheResult` in Java, fill the tables; `ClearCache` and `ClearToolInterfaces`
come in between. The address of the first page, a label, is left out.

### Ap2Payment and ChatPeers

`Ap2Payment` follows `ap2_complete_flow.py`: the merchant keeps the last cart
mandate of an id (`HandleCreateCartMandate`), a payment names a cart by its hash
(`HandleSendPaymentMandate`, `RefusePaymentMandate`), and the shopper checks the
chain of receipts (`Finish`). A hash is the contents it is taken of. The merchant's
order id is the cart's id behind "order_", which is taken off again; the model has
the cart's id throughout, so ids that hold "order_" themselves are left out.
`ChatPeers` is one program twice: the coroutines of each end cut at the calls to
the peer (`Look`, `ProposeChat`, `SendMessage`), with the answer to a proposal as a
step of its own (`Decide`, `Decided`, `ProposalFails`).

### TsRequests and TsNegotiation

`TsRequests`: a call signs one header for all its attempts (`StartRequest`,
`Resend`), one timer aborts them all (`Abort`), an answer may be late; the server
looks for the nonce (`BeginVerify`), resolves the DID, and then keeps the nonce
(`EndVerify`). `TsNegotiation`: `Targets` is the transition table of the machine,
`Transition` what a transition assigns, `ProcessMessage` the peer's messages; the
program that drives a machine sends any event (external).

### The composed runs

`MCSwarmSafety`, `MCNodeServices`, `MCAutonomousNode`, `MCAnpSdk` and
`MCAnpAgents` each put several parts that share no state into one run. A
behaviour is one of one part, chosen in the initial state (`part`, `service`);
the others stand still, so nothing is checked about their interleaving, which
would add nothing. Where a part with another kind of composition exists it has a
module of its own: `SelfHealing` (monitor, distributor, workers), `SwarmMind`
(both buses, mind, goal manager), `TaskSwarm` (orchestrator, agents, collector,
workers), `PeerExchange` (exchange, DHT, readers) and `DidWbaAuth` (calls, cache,
verifier).

## 4. The runs

A `pass` run holds on the whole state space of its instance. All bounds are
constants in the cfg, whose head says what each part has.

| Run | Instance | Shows |
|---|---|---|
| `gossip` | 3 nodes, one with sensors, 2 readings, batches of 2, 1 fault | A received row is forwarded only after the fallback INSERT; without faults a mark stands for a second copy; the module implements `ReadingReplicas`; every reading is handed over and, without faults, copied. |
| `gossip_convergence` | 3 nodes, 1 reading, no faults | Violation: the third node never gets a copy. |
| `swarm_safety` | a bucket of 2 and 3 ids, clock to 3; a DHT of 2 nodes with 2 faults, or 1 and lookups; 2 workers, 1 task, 2 retries, 1 fault | The bucket is ordered by age under every interleaving, and is the last K peers heard when the threads never overlapped; a peer leaves the table only after two refreshes (StaleRounds - 2) whose pings all stayed unanswered; no order of pings, timeouts and rejoins makes a condemned node alive without the handshake; a completed task stays so. |
| `healing_recover` | 1 worker, 2 faults, handshake as the code computes it | Violation: the node stays `reconnecting` for ever. |
| `kbucket_evict` | 3 ids, K = 2 | Violation: a peer seen just now is dropped by `evict_stale`. |
| `autonomous` | the mind with 4 verdicts, history of 4, window of 3, thresholds 2 / 3 / 3; the ML pipeline with up to 3 peers of 4 kinds; 2 nodes and a far one, 2 faults | The mode does not swing, and follows lasting trouble and lasting calm; every ML task has one result, that of its thread, whenever the deadline strikes; nodes that list each other come to know each other. |
| `exchange_route` | 2 nodes and a far one, no faults | Violation: a registered worker has no address a task can be sent to. |
| `exchange_snapshot` | 2 nodes and a far one | Violation: `get_all_peers` iterates while a peer is inserted. |
| `tasks` | 2 requests with a sensor in common, 1 worker, inbox of 1, 1 fault | A wait that ends early has all results of its request unless one of a former process was counted; without faults a request has exactly its own; a request alone in its process hears all its sensors; requests and agents end. |
| `services` | 4 Bluetooth devices, 2 hops, 1 failed send; 3 DHT nodes, no loss; 1 worker, 3 retries, 2 faults; 2 events, 2 starts, 1 stop; 2 stores, 2 readings, 1 lost payload | Without faults a flood reaches every device it is meant for within `MaxHops + 1` links; nodes that bootstrap from one seed end up in each other's tables; a worker that stays down leaves the alive count, one that is back and validated is alive; a critical event whose publisher waited for it survives a stop; a mark of the older synchronisation stands for a copy. |
| `sdk` | 2 set-ups, processed twice at most, and 3 messages; 3 headers, 2 calls, 5 minutes; 2 epochs, 2 draws; 5 handshake objects, a table of 1; 2 short-term sessions; 2 negotiations, 4 proposals; 2 documents; 1 mishap each | Messages open once and in order between two set-ups, and at one end of a session once for good; ends and members agree again after rekeys, handshakes are mutual, keys one end uses the other has or gets; both negotiators end with one protocol; a header lets one request in and a caller is refused only for a reason; new keys of a DID take hold without a restart. |
| `agents` | 1 DID, batches of 2 and 1; 4 methods, 1 deployment, 2 faults; 3 pages, 2 crawlers, 1 fault; 2 shoppers, 1 cart id, 2 purchases; 2 TypeScript calls, 2 retries; 2 protocols, 2 messages under way; 2 chatters, 2 turns, 1 failed call | What is shipped is what was paid; a DID has one session and a batch is answered in order; what a reader discovered is what it calls; the crawler's cache and table agree; a request is handled once unless two of its attempts were verified at once or the nonces were cleared; who has agreed has agreed on what was said; of two agents one starts the chat. |

Some properties are conjunctions of parts that share their premises and their
mutant: `CollectsAll` (`AloneHearsAll`, `EarlyMeansAll`,
`CompleteWithoutFaults`), `NothingTwice` (`InOrderOnce`, `OnceAtOneEnd`),
`StaysInStep` (`ValidOpens`, `Resynced`, `NotAhead`), `HandshakesMatch`
(`ActiveIsMutual`, `CalmCompletes`), `ServedInOrder` (`OneSession`,
`BatchAnswered`), `ReadIsCalled` (`DiscoversAll`, `CallsOnce`), `TablesAgree`
(`ListedIsCalled`, `CachedIsCurrent`), `PeersTracked` (`CrashDetected`,
`ValidatedRecovers`) and `MindFollows` (`Escalates`, `BacksOff`).

Why the bounds are enough to mean something: three nodes are the least at which
"some peer" differs from "every peer" and a row can be forwarded; two readings
and a batch of two give payloads saved half and rows marked half; one fault may
strike at any step, and a second reading goes through the same code after it.
Three ids in a bucket of two give a full bucket and a return of the dropped
peer; MaxAge + 2 ticks let an entry go stale, be refreshed and go stale again.
The kite has a cycle, a device reachable only through it, and paths of different
length; with two hops every detour of its cycle is still covered. In the mind the
window is shorter than the history, so a decision leaves the window before it is
cut, and every threshold is at least two apart from its all-clear as in the code
(`CRITICAL`: two against none). In `tasks` two requests are what an older result
or a shared inbox needs, one for two sensors and one for one of them; one worker
takes all tasks, as which one does makes no difference. `swarm_safety` covers
MaxRetries = 2, where a single failure is degraded and a second one condemns;
`services` uses the code's 3. In `sdk` a second session, draw, negotiation or
document is what may be mistaken for the first, two messages are the least that
can be reordered, a third goes the other way, and a request that is processed a
second time rewinds what the first began; the clock of the headers runs past every
one of its ages. In
`agents` two callers overlap and a second version, cart or deployment replaces
the first; kinds of requests that a server handles alike are represented by one.
Symmetry (`Permutations`) is used only for runs without liveness, over values
that are only compared for equality.

Deadlock is checked in `gossip`, `tasks` and the `healing` and `exchange` runs. It is
not in `kbucket_evict`, `swarm_safety`, `sdk` and `agents`, whose clocks, ids and
messages reach their bounds, nor in `services` and `autonomous`, where a flood,
a recorder or a run of the pipeline is over when it is over.

## 5. Fairness

In the composed runs the fairness of a part is stated for behaviours of that
part.

- `GossipSync`: the push loop runs for ever and its table of peers never shrinks
  (`known_peers` of the DHT), so it starts rounds over all nodes again and again;
  a peer is reachable infinitely often (strong fairness of `PushSends`); threads
  and handlers go on. Sensors need not produce, faults need not happen and are
  finitely many.
- `SelfHealing`: the health thread goes on (weak fairness of `Round`), a worker
  finishes what it works on, the brain completes what it received.
  `ReachableSpec` and the premise of `ValidatedRecovers` add that from some point
  on no ping of a running node fails. Nothing makes a crashed worker come back.
- `Kademlia`: refresh threads go on and each kind of datagram between two nodes
  arrives if sent again and again (no faults in that part of `services`).
- `BluetoothMesh`: connections are served, handler threads run. Discovery is
  not assumed to find anybody.
- `PeerExchange`: client threads go round, and a connection that was made comes to
  its end at both sides, in success or failure (weak fairness of each). Nothing
  makes a node start.
- `SwarmMind`: the sensors of `examples/run_autonomous.py` go on reading, threads go
  on, and a pipeline that is tried again and again succeeds again and again
  (strong fairness of `Act`): its exceptions are caught and the next cycle starts
  5 s later. When all cycles fail nothing is recorded and the mode stays.
- `TaskSwarm`: threads of the brain go on, each agent looks at its flag again and
  again (strong fairness of `Wake`, as the bound on the inbox may hold it up),
  timers fire, workers answer what they can. Nobody need start a program or make
  a request; a request ends because collection and wait have deadlines.
- Everything else has safety properties only and assumes none: the recorder, the
  older synchronisation, the ML pipeline, the parts of `swarm_safety`, and all of
  `sdk` and `agents`.

## 6. The proofs

Eight modules hold the theorems, each about parts that share no state:

| Module | Proves about |
|---|---|
| `GossipSyncProofs` | `GossipSync`, and that it implements `ReadingReplicas` |
| `SelfHealingProofs` | `SelfHealing` |
| `DhtProofs` | `KBucket`, `Kademlia`, `PeerExchange` |
| `TaskSwarmProofs` | `TaskSwarm` |
| `NodeServicesProofs` | `StoreSync`, `EventRecorder`, `ParallelExecutor`, `BluetoothMesh` |
| `SessionProofs` | `HpkeSession`, `ShortTermKeys`, `MetaNegotiation`, `E2eeHandshake`, `HpkeGroup` |
| `DidProofs` | `DidWbaAuth`, `DidKeys` |
| `AgentProofs` | `RpcServer`, `AgentDiscovery`, `Ap2Payment`, `AnpCrawler`, `TsRequests`, `TsNegotiation`, `ChatPeers`, their composition `MCAnpAgents`, and `SwarmMind` |

They hold for every value of the constants that satisfies the assumptions of the
module. All follow one argument: an inductive invariant (named `...IInv`, or
`BucketInv`, `HeardInv`; TLC found no state of the runs against any of them),
initial states satisfy it, one lemma or step per action, and the properties as
consequences of it or of one step from a state that satisfies it. That the invariant
holds in every behaviour is a theorem of its own (`Invariance`, `...Invariance`);
`PROJECT.json` lists it for the larger parts only. A module that
is not the only one of its run states what it assumes of its constants as an
operator (`...Assumption`) that its theorems have as a hypothesis.

- **GossipSync.** The properties are not inductive: `OnlyFallbackForwards` needs
  that what is in a payload is on its way to somebody else than its producer
  (`WireInv`), that needs that a push thread works on rows of its own (`PushOK`),
  and `NothingLostWithoutFaults` needs that a row that was handed over is marked
  or about to be, and was saved or is still in flight (`FaultFreeOK`). Proved:
  types, the five invariants, both action properties, and `Refinement`, that every
  step is a `Produce`, a `Replicate` or a stutter of `ReadingReplicas`.
  Assumed: NoNode is no node, Producer is a set of nodes, Limit > 0.
- **SelfHealing.** A node that timed out with few failures and fails the next
  ping is "degraded" while condemned. It cannot be counted as alive only because
  `last_seen` still condemns it at the end of the same round: `MonitorOK` says so,
  and it is what makes `RejoinNeedsHandshake` inductive. `TaskOK` and
  `CandidateOK` say that a task being moved is completed or with a condemned
  node, and candidates stay alive while the loop moves tasks. Proved: types, six
  invariants, `MovedToAlive`. Assumed: MAX_RETRIES > 1, SlowRounds <=
  TimeoutRounds, some verdict.
- **KBucket.** `OldestFirst` holds although entries are skipped and lost: what the
  comprehension kept is older than everything it has yet to visit, even after
  pops in front of its index shifted the list (`OrderInv`). `LastKHeard` needs to
  know after every step of either thread what is out of place: as long as the two
  did not overlap, the bucket is the end of the list of the peers heard, each once,
  less those too old at the last eviction and those with K heard after them
  (`HoldsLast`, `HeardInv`). Proved for any ids, K and ages: types, `OldestFirst`
  and `LastKHeard`.
- **Kademlia.** An entry that has been silent for n refreshes was sent n pings that
  nobody answered, but for one whose ping or answer is still under way
  (`MissedInv`); so `AnsweringPeersStay`. Proved for any nodes, time-out and
  faults. Assumed: Seed and Lookups are nodes, the bounds are numbers.
- **PeerExchange.** A registered peer has been written into `known_peers`, where
  neither the exchange nor the DHT replaces its entry by one with an address, and a
  node that is down keeps nothing (`RegisteredInv`); so `RegisteredHasNoAddress`.
  Assumed: `MaxFaults` is a number.
- **TaskSwarm.** All safety properties, for any requests and workers; `CollectsAll`
  is three of them. `EarlyMeansAll` rests on a count: the results are tasks a worker
  was given, each once (`OneAnswerEach`, for which `PlacedInv` keeps what is yet to
  be placed apart from what was), so as many as the request has are all it has.
  `CompleteWithoutFaults` needs that without faults the tasks and results at hand
  are those of the one request in its process (`FaultFreeInv`, `ActiveInv`),
  `AloneHearsAll` that nobody else takes its first readings (`HeardInv`). Assumed:
  requests and sensors are finite sets, a request needs some sensor, Local is no
  worker.
- **HpkeSession.** Nothing is assumed of the transport: requests and messages stay in
  `setups` and `sealed` for ever. `InOrderOnce` needs that what an active end opened
  since it was last set up is below its receive number, in strict mode all of it
  (`GotInv`), and that nothing was opened in a life that has not begun
  (`DrawnInv`). `OnceAtOneEnd` needs that the end that drew a session id is never set
  up for it again (`SetupsInv`): it would have to be sent its own request. The parts
  of `StaysInStep` need: that a receiver's chain has been wound on exactly as often
  as its number says, and so has the key a message was sealed with (`KeysInv`,
  `SealedInv`, lemma `ValidMessageOpens`); that the request for the settling
  session leads its receiver to its sender (`SettlingInv`, lemma
  `SettledInOneSession`); and that the last number an end opened is below its
  peer's next one while the peer is in its first life (`SealedInv`, `GotInv`, lemma
  `NobodyAhead`). Proved for any number of ids, messages and repetitions and any
  window. Assumed: two ends, NoSid and NoKey are none of theirs, MaxSkip > 0.
- **HpkeGroup.** A member holds one key under an id, and what it opened with it is
  all before the number it expects and of that key's draw (`HeldKeysInv`). The
  property counts what was opened, so no induction over the log is needed: one more
  entry adds one to the count of its id and nothing to any other. Assumed
  (`GroupAssumption`): speakers are members, the bounds are numbers.
- **DidWbaAuth.** `HeaderOnce` holds because a nonce that was accepted is either
  still remembered, and was drawn no more than the tolerance ahead, or its
  timestamp is out of the window (`NonceInv`). This needs exactly the relation
  the code's comment claims (`WindowAssumption`: nonces outlive the timestamps by
  the tolerance). Proved for any calls, headers, skews and ages within it.

  `RefusedForAReason` needs besides that a call in its second attempt carries a
  header of its own, or was excused when it took one that others use (`RetryInv`).
- **DidKeys.** What save_documents has yet to write is all that can be missing on
  disk, unless a save failed since (`FilesInv`); what is published was generated,
  but for the services of those that were edited (`WebInv`); so a header drawn from
  settled keys names a method that is published with its key, however old the
  document is that the client keeps (`FlightInv`). Proved for any number of
  documents: types and `KeysTakeHold`. Assumed: None is no key, document or header.
- **StoreSync.** A mark is set for the ids of a batch, so what counts is that these
  name rows somebody else has, and one row each (`BatchInv`).
- **EventRecorder.** A record of a settled event is written, or before any sentinel
  in the queue, and none is lost on its way there (`RecordsInv`); so a stop finds
  all of them.
- **ParallelExecutor.** What has no result yet is accounted for at every stage of the
  run: a task that is done is collected or still to be swept, any other is overdue
  (`ResultsInv`).
- **BluetoothMesh.** What is under way or was seen was broadcast, copies travel along
  links, and a copy in a thread is to be passed on (`FloodInv`); so a device handles no
  message of its own and none for another, and has marked what it handled
  (`HandledAsMeant`). Proved for any devices, ranges, messages and hops. Assumed: the
  range is symmetric, All and NoNode are no devices, the bounds are numbers.
- **ShortTermKeys.** A key that one end uses is stored at the other, or the messages
  that make it store the key are ahead in the coroutine's or the connection's queue
  (`SkIInv`). Proved for any number of sessions and messages.
- **MetaNegotiation.** Unless somebody began or gave up at the wrong moment, a
  negotiation is in one of few stages, in each of which one message at most counts:
  both drafting, one side's turn, over, or ending with one outcome (`MetaIInv`).
  Proved for any number of runs and proposals. Assumed: the bounds are numbers.
- **E2eeHandshake.** An object that took a hello names its initiator, an initiator
  that took the answer names the object it came from, and the two name each other
  before either is active (`ObjectsInv`), whatever is lost, repeated or timed out.
  That a calm handshake ends with both ends active needs an account of the wire: each
  message once, a hello or an answer under way exactly as long as it is waited for,
  and the object that waits still pending under its session id (`CalmHandshakes`).
  `HandshakesMatch` for any number of objects, any bound on the mishaps and any size
  of the tables. Assumed: two ends, NoObj is no object and no end.
- **Ap2Payment.** A run of a shopper has one request or one response under way, and a
  payment names a cart as it is stored, unless it was replaced (`RunsInv`,
  `StepsInv`). Proved for any shoppers, carts and purchases.
- **TsRequests.** A used nonce is known unless nonces were forgotten, and two attempts
  of one call are verified at once only if the call was noted as overlapping
  (`NoncesInv`); `HandledOnce` for any calls and retries. That no call is handled more
  than `MaxRetries` + 1 times, part of `TsTypeOK`, needs that an attempt is made once
  and is in one place: the times a call was handled and its attempts under way are
  together no more than the attempts made (`PacedInv`).
- **RpcServer.** A handler holds the session its DID has, unless that was snatched by
  the cleanup thread of anp4j or had expired when a new one was made; in Python it was
  accessed after, or not long before, the last look for expired ones (`HeldInv`,
  `SessionsInv`). What is done was answered by its own outcome, and the reply lists the
  answers by the order of their requests, since `InOrder` counts upwards
  (`AnsweredInv`). Proved for any batches, DIDs and time-outs. Assumed
  (`RpcAssumption`): batches are not empty, there is a DID, `NoSession` is no session,
  the cleanup interval is not 0.
- **AgentDiscovery.** Unless the server was replaced or a fetch failed, what was read
  and what the documents still to be read yield is all that is readable
  (`ReadingInv`); a call is of a method that was read and ran nothing before it was
  handled (`CallingInv`). Proved for any methods, names and deployments. Assumed
  (`DiscoveryAssumption`): `AttrOrder` lists every method once, the document of a link
  method is never interface.json.
- **AnpCrawler.** A link of a page is still to be read or its tools are listed
  (`UnderWay`), a page that was served is no newer than the one published and no
  older than the last clear (`AnsweredPage`), and a listed tool is in the table unless
  that was emptied or overwritten (`ListingsInv`). Proved for any pages, versions and
  callers. Assumed: what `PageAssumption` says of the shape of pages.
- **TsNegotiation.** A machine accepts once, by its own word or by the peer's, and the
  mail says what was said (`AgreementInv`).
- **ChatPeers.** Who accepts a proposal discovered second, so that what it proposed
  itself will be refused: the tie-break makes one of two "first" and not both
  (`ProposalsInv`). Proved for two agents, any turns and failures (`ChatAssumption`).
- **SwarmMind.** One decision moves each count of the recent ones by at most one, so
  after a change of mode the counts that caused it are still near (`MoodInv`), and the
  thresholds are further apart (`ThresholdAssumption`): `NoFlapping` for any history,
  window and thresholds in this order.
- **MCAnpAgents.** A behaviour of the composed specification is one of each of its
  seven parts (lemma `AgentsAreTheirParts`), so that the parts' theorems give
  `AgentsTypeOK`. Assumed (`AgentsAssumption`): what the parts assume.

Model-checked only, and why:

- all liveness (`EventuallyCopied`, `RequestEnds`, `PeersTracked`, `Acquainted`,
  `ReachesInRange`, `MindFollows`, `Introduced`), with fairness and ENABLED out of
  the prover's reach;
- `NodeTypeOK`, `ServicesTypeOK` and `SdkTypeOK`, conjunctions of the type invariants of
  a run's parts (in `sdk`, of the part that runs), which are proved in different modules: each conjunct is part of a
  proved invariant, but for the table of `E2eeHandshake`'s sessions by pair (`byPair`,
  its length and that it holds objects of its end). `HandshakesMatch` does not need
  that table, and entries leave it through a filter of a sequence.

## 7. Where code and documentation disagree

With a run that shows it: `gossip_convergence` (README.md:216 against
`db/db_agent.py:247`), `healing_recover` (`swarm/health_monitor.py:7` against :79),
`kbucket_evict` (`swarm/kbucket.py:62` against :64), `exchange_route`
(`swarm/peer_client.py:42` against `swarm/kademlia_node.py:137`) and
`exchange_snapshot` (`swarm/dht_discovery.py:4` against `swarm/kademlia_node.py:133`).
`NoRegisteredHasAddress` makes the case of `exchange_route` general: whatever nodes
there are and whatever they hear, no registered worker is ever given an address.

Met while modelling, without a run of their own. In EdgeMind:

- README.md:171 says that a search "converges on the target in O(log N) hops".
  Every FOUND_NODES is answered with FIND_NODE to all the nodes it lists, known
  or not (`swarm/kademlia_node.py:277`), and FIND_NODE with all of a small table:
  with three nodes the answers never stop.
- README.md:216 has the receiver save before the sender marks; there is no
  acknowledgement (`db/db_agent.py:237`), so a receiver that dies leaves a mark
  without a copy. `NothingLostWithoutFaults` states what remains.
- The fallback INSERT stores a received row with `synced` = 0
  (`db/adapters/sqlite_adapter.py:126`), and so forwards it.
- `db/store.py:3` speaks of duplicates that are ignored by record id, but every
  row that is saved gets a fresh one (:28), so the older synchronisation copies
  what it receives. Nobody calls `start_sync`.
- `swarm/health_monitor.py:21` promises reassignment when a node dies; the timeout
  pass (:193) declares it dead without reassigning.
- A reassigned task names no brain (`swarm/task_distributor.py:302`), so its
  result is computed and never sent (`examples/run_node.py:118`).
- A replacement of the list between pop and append leaves a bucket with K + 1
  entries, with a peer twice, or without the peer just added
  (`swarm/kbucket.py:44`, :64).
- Evicted peers come back on the word of others with a fresh `last_seen`
  (`swarm/kademlia_node.py:274`), against README.md:171 and :605. STORE and VALUE
  overwrite a stored capability whatever its age (:314).
- A device may deliver one message more than once (`swarm/bluetooth_mesh.py:86`),
  against README.md:175; and when hops run short, a first copy that came around
  a cycle ends the flood before devices within MAX_HOPS (README.md:41) had it.
- The transport drops every envelope whose payload has no `node_id`
  (`swarm/bluetooth_transport.py:288`), so other messages never reach the mesh,
  although `swarm/bluetooth_discovery.py:9` sends some; and it reads at most 4096
  bytes at once (:267).
- No decision ever gets an outcome: the action agent reports it without an id
  and before the decision exists (`agents/action_agent.py:65`,
  `core/pipeline_trigger.py:112`), against `core/self_improvement.py:4`.
- `core/reflective_decision.py:4` looks back "before acting"; it is called after
  the action, and its result is read by nobody.
- A cycle does not drain the buffer: with silent sensors the same critical
  reading is judged again and again and escalates the mode by itself.
- The fallback of a failed action, "Manual review required"
  (`ml/task_workers.py:352`), never reaches the output (`ml/result_assembler.py`).
- Spawned agents die after 60 s while their device stays known and gets no new
  ones (`core/auto_trigger.py:46`, `agent_factory/factory.py:57`), against
  README.md:270.
- `core/orchestrator.py:35` asks for a minimum per sensor type, :156 tests the
  total; concurrent intents share one inbox; and `examples/run_intent.py:81`
  prepares an intent for local sensors that :92 of the orchestrator replaces.

In the SDK (`anp/` is left out of the paths):

- `anp/fastanp/context.py:20` and :114 key a session by DID and access token; the
  code uses the DID only.
- `anp/openanp/autogen.py:292`, "each request in batch should be processed
  independently": one item that is no object fails the whole batch.
- One method without a description hides all methods of its interface document
  from the reader (`anp/openanp/client/openrpc.py:54`).
- anp4j advertises a document per link method (`AgentDescription.java:109-116`)
  and serves none; its cleanup thread may remove a session that a request has just
  renewed (`SessionManager.java:123-131` against :63-72).
- The verifier's example of a nonce age equal to the timestamp age leaves the
  window in which a header may be used again; the default, a minute more, does
  not (`WindowAssumption`).
- A signature that does not verify is answered 403
  (`anp/authentication/did_wba_verifier.py:175`), which the client does not retry.
- `DIDWbaAuthHeader` signs with ECDSA keys only
  (`anp/authentication/did_wba_authenticator.py:88-95`), and
  `create_verification_method` (`verification_methods.py:316`) does not know all
  types that `_extract_public_key` does.
- The generator accepts addresses (`tools/did_generater/generate_did_doc.py:68`)
  that the validator beside it refuses (`validate_did_document.py:72-75`).
- A DID bound to its key changes with the key, so a running client goes on naming
  the old DID with the new key's signature; `KeysTakeHold` excludes it.
- `validate_credential` (`anp/ap2/credential_mandate.py:188`) always returns False,
  and the separate merchant and shopper examples use models that are gone.
- `process_rekey` (`anp/e2e_encryption_hpke/session.py:290-303`) resets the numbers
  and derives the same chains again when a rekey it has processed comes once more
  within the day its proof is valid (`proof.py:160`), and so does `process_init`
  once a refused rekey has left the end idle. Messages that were opened then open
  again, and the end seals under numbers and keys it has used, against
  `seq_manager.py:1` ("replay protection", in Chinese) and
  `unittest/e2e_hpke/test_private_chat_flow.py:221` ("a replayed message should be
  rejected"). The group's `process_sender_key` refuses what it has processed
  (`group_session.py:200`). `NothingTwice` says what remains.
- A method that raises a ValueError itself is answered in openanp like a request
  that is no JSON-RPC, a TypeError like bad parameters
  (`anp/openanp/autogen.py:262-275`).
- E2EE v1 negotiates the expiry of a key and never checks it, and drops a message
  that is read before the Finished it follows is processed
  (`anp/e2e_encryption/wss_message_sdk.py:182`).
- The TypeScript client is refused as a replay when an attempt it retries was
  handled (`authentication-manager.ts:211-217`); its machine drops
  counter-proposals outside Idle, and a peer's message that it generates code
  moves one's own machine on.
- The chat of the example is never ended (the active id is not cleared), so after
  a lost answer to a proposal no chat may start any more.

## 8. What is left out

The parts with status `not_modelled` in `PROJECT.json` and why: floating-point
statistics and language-model calls (reflective decisions, intent parsing), read-only
probes (capability, benchmark, NAT, drawing), request formatting (socket API), other
adapters behind one lock, the challenge and response of `security/`, discovery modules
that no program imports any more; in the SDK schemas and type tables, code
generators, name resolution, encodings, the cryptography of the ports, and
examples that only call what is modelled.

Inside modelled parts: wording and logging; what ML tasks compute and what the
action agent writes; the schema check of `DBAgent` that
drops three tables (`db/db_agent.py:66`); tables other than `sensor_readings`;
the auto trigger; events published by the monitor; versions of stored
capabilities; expiry of seen ids; static Bluetooth peers; envelopes cut at 4096
bytes; mode intervals; the size guards of payloads; metrics of the event bus;
expiry of HPKE sessions and the application's key manager; messages sealed with
an active E2EE v2 session; round numbers and sequence ids that nothing reads;
parameters of methods and their conversion; what chats and proposals say.

## 9. How to run it

`tlc -config <cfg> <module>`: `GossipSync_*` with `MCGossipSync`, `SwarmSafety` with
`MCSwarmSafety`, `SelfHealing_recover` with `MCSelfHealing`, `KBucket_evict` with
`MCKBucket`, `AutonomousNode` with `MCAutonomousNode`, `PeerExchange_*` with
`MCPeerExchange`, `TaskSwarm_requests` with `MCTaskSwarm`, `NodeServices` with
`MCNodeServices`, `AnpSdk` with `MCAnpSdk` and `AnpAgents` with `MCAnpAgents`; the
proofs with `tlapm GossipSyncProofs.tla` and so on. The longest runs (`agents`,
`sdk`) take about three minutes with two workers and visit 2.5 and 0.6 million
states.
