# Verification of the Murmuration node

Murmuration is a delay-tolerant peer-to-peer mesh: every node listens for TCP
connections, dials the peers it knows, floods messages through its peers and
keeps what it received in an inbox for local clients. The node is one Rust
process of many tokio tasks that share tables under read-write locks. What is
hard to test in it is what those tasks do between two acquisitions of a lock,
and that is what these modules model: **a step of a model is one critical
section of the code** (or a stretch of code that touches no shared state), and
any other task may run between two steps of a task.

Paths below are relative to `src/core/src/` unless they start otherwise;
`router.rs` is `src/crates/murmuration-routing/src/router.rs`.

## 1. Inventory

| Component | State | Operations | What makes it hard | What makes it correct |
|---|---|---|---|---|
| Connection lifecycle (`node.rs`, `p2p/peer.rs`) | peer table (`PeerManager`), `message_senders`, `connect_semaphore`, `last_connect_attempt`, the reader and writer task of each connection | connector ticks, discovery announcements, accepts, dials, handshakes, close and cleanup on several paths, removal of stale entries | two connections with one peer at once; cleanup of the older one against the newer one; early returns while a permit is held; check and update under separate locks | channels belong to living writers; permits are conserved; attempts are decided |
| Mesh messages (`node.rs` `send_mesh_message`, `handle_mesh_message`; `router.rs`) | `seen_messages`, the channels, outbox flags | originate, check and mark as seen, deliver, acknowledge, select peers, forward | readers of a node run concurrently; copies meet in cycles; entries expire; connections break with messages in them | no loops, bounded copies, privacy, an end, nobody missed but those demoted |
| Inbox (`node.rs` `push_inbox` … `watch_inbox`, `message_store.rs`, `bundle.rs`) | `inbox`, `inbox_next_seq`, `inbox_notify`, `messages.db` | append, list, long poll, mark delivered, import and export of bundles | number and append under separate locks; notification lost; eviction; restart | misses and repetitions are explained; acknowledgements reach the database |
| Messenger API (`messenger_api.rs`) | the broadcast channel `ws_event_tx`, cursors of clients | conversations, history, send, event stream | history and stream are read at different moments; a slow client lags | no gap between history and stream |
| Handshake and session keys (`p2p/peer.rs` 152-497, `p2p/encryption.rs`) | session key per peer, RSA keys | exchange of keys, encryption of frames | keys belong to peers, connections come in pairs | an undisturbed connection has one key |
| Heartbeat and pings (`node.rs` 1466-1521, 704-760) | `missed_pongs`, `pending_manual_pings` | idle timeout, ping, pong, manual ping | tables shared by parallel and successive connections; late pongs | silent peers are cut, others are not |
| Frames and padding (`p2p/protocol.rs`, `p2p/encryption.rs` 18-53) | the byte stream | pad, write, read with timeouts | a timeout in the middle of a read; the width of the length prefix | what is handled is a prefix of what was sent |
| Learning (`router.rs`) | UCB1 counts, Q-estimates, their store | record, persist, load | tasks save one after the other | the store is never left behind |
| Content (`content_store.rs`, `node.rs` 826-903, 1621-1730, `web_gateway.rs`) | `content.db`, `pending_content_requests` | publish, fetch, request, response | timeouts against late responses; routing of responses | an outcome says what was true |
| Naming (`naming.rs`) | cache, `names.db` | register, resolve, delete | cache, database and disk without a common lock | a restart finds what was registered |
| Files (`peer_store.rs`, `identity.rs`) | JSON files | load, create, record | files are written in place; crash in between | identity and cache survive, or stay torn and are refused |
| Local services (`node.rs` 596-669, `api.rs`, `cli_app.rs`) | three ports per node, the saved API port | bind with fallback, save, find | ports next to one another, nodes side by side, tasks that bind and end on their own | what is found is an API |
| Onion routing (`onion/`) | circuits, relay legs | build, wrap, peel, destroy, expire | ids unique per sender, table keyed by id alone | exits deliver their own circuits' payloads |
| NAT traversal (`nat/relay.rs`, `nat/hole_punch.rs`) | allocations of the relay | join, forward, punch | repeated and third joins; one datagram read, in any order | the right two are bridged; success is real |
| STUN client (`nat/stun.rs`) | one port, one query at a time | query servers in order | late answers, strays and copies on the same port | an address has the right source |
| LAN discovery (`p2p/discovery.rs`) | `last_seen` | announce, listen | the rate limit | nobody is silenced |
| Contact traces (`trace.rs`, `bin/trace_bench.rs`) | arrivals per node | oracle and strategies over a trace | contacts that overlap | the oracle lies between journeys and strategies |
| Cryptography, obfuscation, configuration, CLI, statistics, viz, benchmarks, clients | none of the protocol's | — | — | — |

**How they interact.** The listener, the connector and the discovery loop start
*connection tasks*. A connection task performs the handshake, registers a
channel in `message_senders` and then is the *reader* of its connection; it
spawns the *writer*, which empties the channel into the socket. A reader calls
the handlers: mesh messages go through the router's duplicate table, to the
inbox and into other peers' channels; acknowledgements flag inbox entries;
pongs, content responses and acknowledgements complete pending requests of API
tasks. API tasks append to the outbox (which is the inbox) and to channels, and
long-poll the inbox. All shared state is behind one lock per table. Most steps
hold one lock at a time. The exceptions take a second lock under the first: the
channel table around an update of the peer table (writer cleanup) and around the
inbox (`send_mesh_message`), the pending pings around an update of the peer
table (`Pong`), and the router's own tables when it scores peers.

The other parts meet the node in few places. The handshake sets the session key
that every later frame of any connection with the peer is encrypted with; the
reader turns frames into messages and silence into pings; discovery and the peer
cache give the connector addresses; naming, content, learning and the files are
called by API tasks and have tables and locks of their own; the messenger API
reads the inbox and the events its writers announce. The onion library, the
relay and the hole punch have no caller in the node yet.

## 2. Modules

| Module | What it is | Proofs |
|---|---|---|
| `PeerConnection`, `MCPeerConnection` | the connection lifecycle of one node | `PeerConnectionProofs` |
| `MeshDelivery` | abstract: what the mesh promises of a message | |
| `MeshFlood`, `MCMeshFlood` | mesh messages in a network of nodes | `MeshFloodProofs`, with the refinement of `MeshDelivery` |
| `Inbox`, `MCInbox` | the inbox of one node, its clients, the message database | `InboxProofs` |
| `SessionKeys` | handshakes and session keys of two nodes | `LinkProofs` |
| `Heartbeat` | heartbeats and manual pings of one node to one peer | `LinkProofs` |
| `Padding`, `FrameStream` | message lengths; one direction of a connection as bytes | `LinkProofs` |
| `Onion` | circuits, cells, relay legs | `NetworkProofs` |
| `NatRelay`, `HolePunch`, `Stun`, `Discovery` | the UDP protocols | `NetworkProofs` |
| `NameRegistry`, `NodeFiles`, `PeerLearning` | what a node keeps between runs | `LocalProofs` |
| `Content`, `MCContent` | content stores and remote fetches in a network | `ClientProofs` |
| `Services` | ports of the local services, and how the command line finds an API | `LocalProofs` |
| `ContactTrace` | the oracle of the trace evaluation and the strategies beside it | `LocalProofs` |
| `Messenger` | history and event stream of the messenger API | `ClientProofs` |
| `MCNode` | the fifteen modules from `SessionKeys` on, side by side, for TLC | `NodeProofs` |

`MeshFlood` is composed with its abstract specification, `FrameStream` with
`Padding`. The modules from `SessionKeys` on model parts that share no state with
one another. `MCNode` runs them in one model: `part` names the one that moves, so
that the numbers of their states are added and not multiplied. `MCInbox` splits
`Inbox` likewise.

### PeerConnection

The remote nodes, the addresses and a pool `Conn` of connection slots are
constants. A slot names one run of `connect_to_peer` or
`handle_incoming_connection` with the writer it spawns; it is also the
`channel_token` of that run and is reused only after both tasks have ended, so
the pool bounds the connections that exist at a time and not the number ever
made. `state`, `addrOf` and `attempts` are the peer table; ids are node ids or
the temporary ids `peer-<addr>`, which the model names by the address.
`senders` is `message_senders`; `pc[c]` is where the connection task of a slot
is, `writer[c]` its writer, `who[c]` and `via[c]` the id and address it works
for; `holders` and `permits` the semaphore; `cooling` the addresses still in
their cooldown.

| Action | Code |
|---|---|
| `ConnectorSpawns`, `DiscoverPeer` | one spawn of a connector tick; one announcement (`run_connector`, `run_discovery`) |
| `AcquirePermit`, `DoubleCheck`, `MarkConnecting`, `DialFails`, `DialSucceeds` | `connect_to_peer` |
| `AcceptIncoming` | `handle_incoming_connection` up to the handshake |
| `HandshakeFails`, `HandshakeSucceeds` | the handshake of either direction and what its caller does with the result |
| `OpenChannel`, `ReaderBreaks`, `ReaderFails`, `CloseChannel` | `handle_connection`: the reader, with both of its ways out: by `break`, with cleanup, and by `?` or `return Err`, without |
| `AfterConnection`, `MarkDisconnected` | the caller's cleanup: a read and a write of the state, under separate locks |
| `WriterTakes`, `WriterSends`, `WriterSendFails`, `WriterFindsChannelClosed`, `WriterCleanup` | the writer task; between the first and the second or third it is inside `send_message_to_stream`, whose `write_all` has no timeout |
| `RemoveStalePeers`, `CooldownElapses` | garbage collection, time |

Abstractions. Time: a cooldown is over, a timeout fires and an entry is stale at
any moment. `iter().find` over a HashMap returns any match. Two consecutive
sections of one function are merged where no other task can tell them from one
(`add_peer` and the state update after it; the state and the attempt counter in
`MarkConnecting`). `attempts` saturates at `MaxAttempts`, as only the comparison
with it matters. Shutdown, which only ends tasks, is left out.

### MeshFlood

A network of nodes; `Link` holds the two ends of each connection, `<<n, x>>`
being n's end of its connection with x. `queue[<<n, x>>]` is what n sent to x:
channel, socket and receive buffer in one. A reader takes the head of its
queue and leaves it there until the handler returns, so that the messages of
one peer are handled one after another and those of different peers
concurrently. `at` and `todo` are a reader's place in the handler and the peers
it still has to forward to; `seen` is the duplicate table; `mesh` and `data`
count the inbox entries of either kind per end and message; `confirmed` are the
outbox entries flagged as delivered; `demoted` are the ends whose peer may not be
in the state Connected; `late` is a history of the entries whose window elapsed,
`breaks` counts the connections that broke.

| Action | Code |
|---|---|
| `Originate`, `SendTo` | `send_mesh_message`; it holds the read lock of `message_senders` throughout (`ChannelsLocked`) |
| `CheckSeen`, `MarkSeen` | `should_process`, `mark_seen`: two acquisitions of the lock |
| `Deliver`, `Acknowledge` | inbox entry; `MessageAck` to the peer the message came from |
| `SelectPeers`, `ForwardTo` | `get_best_forward_peers`, `prepare_for_forwarding`, the sends |
| `Show` | the inbox entry with which the Data arm ends whatever the handler did |
| `TakeAck` | `mark_message_delivered` |
| `WindowElapses` | 60 s have passed, or `mark_seen` removed the entry |
| `WriterEnds`, `ReaderEnds`, `Reconnect` | a connection breaks on either side, in any order, with loss of a suffix of what is in it; a new one is opened |
| `Demote` | another attempt to connect, or the end of another connection, takes the peer out of the state Connected (1274, 1112-1127, 1443-1454, 1861-1868) |

Abstractions. Scores are left out: any `Fanout` of the eligible peers may be the
best. The router takes peers in the state Connected (`router.rs` 465), which is not
the same as those with a channel. A peer may be Connected without a channel, and
a peer with a channel may be Connecting, Handshaking or Disconnected because of
another attempt; `PeerConnection` shows both. So the set given to the router is any
set of neighbours that includes those with a channel that are not demoted. Once a
peer is demoted the model lets every later selection take it or leave it, until
the connection is replaced. Of `path` only its set of nodes
is kept (a node is never appended twice: `should_process`). Two nodes have at
most one connection at a time here; what parallel connections do to channels is
`PeerConnection`'s subject. Bounds: `MaxLate` expiries of duplicate-table
entries, `MaxBreaks` breaks and demotions, the messages of `Msg`, each sent at most once (ids
are UUIDs).

`MeshDelivery` is what a user of the mesh may rely on, in three actions: a
message is sent; it is received by a node it was sent to; it counts as
delivered after its addressee received it.

### Inbox

Tasks append (`Receive`, `SendMessage`, `ImportBundle` start them), clients
poll. `push_inbox` is four steps: `TakeSeq` (number and counter under one lock),
`AppendEntry` (append and eviction under another), `Save`, `NotifyWaiters`. A
client's `watch` is `WatchFindsNewer` or `WatchFindsNothing`, then `Register` (the
creation of the `Notified` future: earlier notifications do not count), then
`WatchWakes` or `WatchTimesOut`; `GiveUp` is the client's own timeout. An answer
is computed by `list_inbox` under the read lock (`Answer`). `TakeAck` and
`PersistAck` are `mark_message_delivered`: memory, then database. `ExportBundle`
and `Restart` complete it.

The variables `shown`, `again`, `skipped`, `ahead`, `highest` and `overtaken` are
history: what a client was shown, what the limit cut off, the cursor it had at
the last restart, and which numbers were appended behind a greater one. They
are what the properties explain misses and repetitions with; no guard reads
them.

Abstractions. Contents, previews, directions and kinds are left out. Of the
database only the records of acknowledgeable messages are kept, those this
node sent to one other node. `update_delivered` flags the first record in the
order of string keys, which is any of those with the id. Writes to the
database succeed, and a restart loses none. Bounds: `MaxSeq` numbers between
restarts, `MaxRestarts` restarts.

### SessionKeys

A connection's number is the key its handshake agrees on; `endState` is each
end's place in the handshake, `toEnd` what TCP still has for it, each frame
represented by the key it was encrypted with. `DialOut`, `AnswerHello` and
`FinishHello` are the three stretches of `perform_handshake`: the listening side
has the key when it sends its acknowledgement, the dialling side when it reads
it; `SendFrame` and `ReadFrame` use the key the node has for its peer *now*,
which is what connections that cross get wrong. `CloseEnd` and `RestartEnd` end a
connection at one end, or all of a node's. Whether X25519 or RSA agrees on the
key makes no difference to this state. `crossed` and `undeciphered` are history.

### Heartbeat

`SilenceCounts` is the read timeout (a ping, or the third silence), `HandlePong`
the `Pong` arm, and `InsertPing`, `SendPing`, `FinishPing`, `ExpirePing`,
`RemoveExpired` are the steps of `ping_peer`, which takes and leaves the lock of
`pending_manual_pings` between them. A caller names the peer by the id its
channel is under or by another one with the same address
(`resolve_sender_for_peer`); a ping under the other id is sent but never
answered, since the pong is looked up under the id of the channel, and the model
shows it (last conjunct of `ManualEntryOwned`). `MaxOut` bounds the pings on
their way.

### Padding and FrameStream

`Pad` and `Unpad` compute lengths (`pad_message`, `unpad_message`), with the
prefix modulo 2^16. `FrameStream` sends frames of two half lengths and a payload;
each of the reader's two reads has a timeout, and one that fires in the middle
of a length loses what was read (`LengthTimeout`). `cutLength` is history.

### Onion

Senders build circuits with ids that wrap around (`After`; `Fresh` stands for
2^32), relays keep legs by id. A key is a circuit and a hop, a wrapped payload
the sequence of its layers. The library has no caller, so that cells travel and
legs are registered, replaced and destroyed at any time.

### NatRelay, HolePunch, Stun, Discovery

The relay reads any datagram that was ever sent, any number of times. A hole
punch is two sides that send probes and then read the first datagram that reached
their socket. UDP gives no order: `flying` counts what is on its way to a side, and
any of it may `Arrive` first, so that an acknowledgement may overtake a delayed
probe; `Lose` drops a probe, `Stray` is a datagram of somebody else. `unheard` and
`overtaken` are history: the probes lost before anything arrived, and those on their
way when an acknowledgement came first. A second copy of a datagram is left out, as
only the first to arrive is read. The STUN client asks servers in turn from one port,
where answers to earlier queries still arrive; it does not look at the source of what
it reads, so that `ReceiveStray` may fail any query at once. A socket that is closed
takes some of the answers under way with it (`NextQuery`).
Discovery is the listener's table and its rate limit, in seconds up to `MaxTime`.

### NameRegistry, NodeFiles, PeerLearning

`NameRegistry` has the cache, the database's memory and its disk as three
functions and takes every request in the steps of `register` and `delete`;
`BackgroundFlush` is the database's own, `RestartRegistry` loses what was not
flushed. `tainted` are names whose requests overlapped or failed. `NodeFiles`
writes a file in place in two steps, torn in between, and may stop at any step;
`broken` is a history of the files a crash left torn, and `TornForGood` says what becomes
of them: an identity that does not parse is an error, so that no later run comes up, and
a cache that does not parse is empty to a start and an error to `record_peer`.
`PeerLearning` has recorders that update the counts and save them in steps
(`RecordReward`, `Serialise`, `Save`); the rewards are numbers of halves. The addresses that a
start takes from the peer cache are a set (`candidates`), since `Node::new` only adds
each of them to the peer table.

### Content

Nodes publish, fetch and answer. The program's own requests travel as payloads
of Data messages (`ReceiveWrapped`, which puts them into the inbox); members of
`Foreign` send them as requests, so that the handlers are exercised too.
`TimeOutFetch` and `LoseMessage` happen at any time.

### Services

Each service is a task. The API's tries one port after the other (`TryApiPort`), then
writes its address (`WriteApiAddr`) and saves its port (`SaveApiPort`). Gateway and
messenger read that address after a delay, whether or not the API has written it
(`AimBeside`), and bind in another step (`BindBeside`), between which anybody may take
the port. The tasks are aborted one after the other and end when the runtime gets to
them: `StopService` ends any of them, in any order. `early` and `leftover` are history.
`ApiFound` is `get_api_port`, taken in one step: no port changes hands while it looks.

### ContactTrace

One message, any trace of `MaxContacts` contacts on `Point`, in the order of
their starts. `ProcessContact` relaxes the next contact as `earliest_arrival`
does and hands over copies as each strategy does. The reference definition is
`Journeys`: the arrivals (a point and a time) at the end of journeys of at most k
contacts, in any order of the trace, with contacts that include their end or not
(`Kind`). `Ends` are those of journeys of any length, `NoJourneyIsSooner` compares
the oracle with them. The strategies stop at `Deadline`.

### Messenger

Tasks append and announce in two steps (`AppendToLog`, `PublishNew`), flag and
announce in two (`FlagDelivered`, `AnnounceDelivered`); a client reads the
history by a cursor and the stream, which drops the oldest events of a client
that lags (`Resume`). `late`, `omitted`, `skippedNew` and `skippedTick` are
history, with which `ViewExplained` accounts for every message in the open
conversation.

## 3. Runs

| Run | Bounds | What it shows |
|---|---|---|
| `peer_connection` | 1 peer, 2 slots, 1 listening and 1 source address, 1 permit | `TypeOK`, `ChannelHasWriter`, `PermitsConserved`, `DialsBounded`, `ConnectingIsLive`; the writer of a replaced connection leaves its successor alone (`OldWriterSparesNewer`) |
| `peer_connection_live` | the same without incoming connections, 2 permits | under `FairSpec`: `ReplacedWriterEnds` (or its remote end holds it in one send for good), and `AttemptIsDecided`, which includes that closed connections return their permit |
| `connected_has_connection` | as `peer_connection` | *violated*, see findings |
| `newer_channel_survives` | as `peer_connection` | *violated* |
| `connected_within_cap` | 2 peers | *violated* |
| `mesh_flood` | 4 nodes, 5 connections with triangles, 1 message, ttl 3, fanout 1, 1 expiry | `TypeOK`, `NoLoops`, `CopiesPerPeer`, `DirectedStaysPrivate`; `MeshFlood` implements `MeshDelivery` |
| `mesh_flood_live` | triangle with a tail, ttl 3, fanout 2, 1 break or demotion | `NobodyMissed`: an ended broadcast has reached everyone if nothing broke, whichever copy came first, but those that a node demoted; under `FairSpec`: every flood ends (`FloodEnds`) |
| `handled_once` | triangle, ttl 2 | *violated* |
| `inbox` | 2 tasks, 1 client, 1 message of this node, capacity 2, limit 1, 3 numbers, 1 restart | `TypeOK`, `SeqIdentifies`, `MissedExplained`, `ShownTwiceExplained`, `DeliveredPersisted`, and `EntryIsPassed` (liveness) |
| `node` | see below | the type invariant of the fifteen parts and the property of each (two for `Onion` and `Heartbeat`, `SilentPeerCut` being a liveness property) |
| `fetch_finds_content` | as the part `content` of `node` | *violated* |
| `oracle_exact` | as the part `traces` of `node` | *violated* |

Why the bounds are enough. Everything in `PeerConnection` that goes wrong needs
two connections with one peer; a third slot repeats the second one's relation to
the first, and the theorems hold for any number. One permit makes the tasks
compete for it; two let two dials run at once. `MeshFlood` needs a node that
receives copies from two peers concurrently and a cycle for a copy to return
in: the kite (two triangles with a common side) has both; ttl 3 lets a copy go around
a triangle. In the paw (a triangle with a tail) the node in the middle may first see
the copy that came round by the third node, and forwards that one alone: ttl 3 is the
smallest with which the tail still gets it. With one message the interplay of copies is
complete, since nothing relates two messages to each other but the order in a
queue, and acknowledgements, which share the queues with data, are there with
one message too. `MaxLate = 1` is the case in which the duplicate table forgets
a message while copies of it are still on their way.

`MCInbox` checks two halves of `Inbox` in one run: in "watched" tasks append
(`Receive`), a client watches and gives up; in "sending" messages are sent,
acknowledged, exported and imported and nobody watches. Both have the steps of
`push_inbox` and restarts. The halves do not influence each other: clients do
not write what tasks read, and an acknowledgement changes no number. Two tasks
make one overtaking, three numbers with a capacity of two make an eviction after
it, and a limit below the capacity makes an answer that is cut off. The theorems
about `Inbox` are about the whole of it.

| Part of `node` | Bounds | The case they are there for |
|---|---|---|
| sessions | 2 connections, either end dialling either, 1 frame on its way to an end | connections that cross; one after the other, with a restart between |
| heartbeat | 2 callers, 1 ping on its way | a timed-out caller against a newer one; counts left behind |
| frames | 3 messages of 300, 65535, 65536, 65600 or 70000 bytes | both sides of the width of the prefix, a cut length with frames behind it |
| onion | 2 senders, paths of 2, 1 and 0 hops, 3 circuits, 2 ids, 1 cell | the id wraps around, both senders use one id, legs replaced under a cell |
| relay | 1 token, 3 addresses | repeated and third JOINs |
| punching | 2 probes each | an acknowledgement overtakes one probe or both, or follows one that was lost |
| stun | 3 servers | two timeouts, and their answers in the third query; a stray datagram in the first, and its answer in the second |
| discovery | 2 nodes, window 2, 5 s | a node heard within and after the window |
| content | 4 nodes, a triangle with a tail, 1 fetch, 1 stored item, ttl 3 | an owner that is a neighbour, and one two hops away |
| names | 2 names, 2 ids, 2 clients | overlapping requests for one name and for two, failures, restarts |
| files | 2 keys, 3 addresses, a cache of 2 | eviction, an edited file, crashes at any step and starts after them |
| ports | 2 nodes with adjacent ports, 3 starts in all | services of one on the ports of the other, an API that binds late or stops first, a stale saved port |
| learning | 2 recorders, 1 candidate, 1 destination, counts up to 1 | two saves in either order |
| traces | 3 points, 2 contacts, times up to 3 | overlapping contacts in either order, a deadline |
| messenger | 2 tasks, 1 client, 2 conversations, 1 acknowledged message, 2 entries, 2 events kept | lag, a page cut off, ticks |

But for the liveness property, all properties of this run are theorems too, for all
values of these bounds and of the whole node at once (`NodeProofs`).

`CHECK_DEADLOCK FALSE` is set where the system may come to rest: `MeshFlood`,
when every message was sent and every flood ended; the parts of `node` and
`Content`, `ContactTrace`, when all queries, fetches, traces and bounded inputs
are used up.

Fairness. `PeerConnection!FairSpec`: a task that can run does run (tokio's
scheduler is fair to woken tasks), a dial ends within `connection_timeout`.
For the writer that finds its channel closed the fairness is strong: what is left in the
channel is sent first, and that is finite once the channel has no sender. Nothing is
assumed of the remote end, hence of a send, which has no timeout, of the wait for a
permit (which may be as long as a connection lasts), or of the handshake, which has no
timeout either.
`MeshFlood!FairSpec`: readers and `send_mesh_message` go on; a reader whose peer
is gone notices. Nothing is assumed of reconnection, expiry, breaks or demotions. `Inbox!FairSpec`: a task
that is in `push_inbox` goes on; a client polls again and its request is answered
within the timeout around the wait. Nothing is assumed of a client's own
timeout. In `MCInbox` the "sending" half, where no client may move, has no fair
behaviour; it is there for the invariants.
`Heartbeat!HeartbeatSpec`: the reader's timeout fires while nothing arrives, a
pong that has arrived is handled, and a call of `ping_peer` goes on and times
out; the peer need not answer, and callers need not stop. `MCNode` takes this
fairness over, and `SilentPeerCut` is about it.

### Findings

* `connected_has_connection`: `node.rs` 1109. The comment at 1110 assumes
  another connection; the state read there is the one this connection set.
  A peer whose connection ended regularly stays Connected, is not dialled
  again and never removed.
* `newer_channel_survives`: `node.rs` 1861 removes the peer's channel whoever
  owns it; the writer's cleanup at 1443 compares tokens for this very reason.
* `connected_within_cap`: `config.rs` 133 calls `max_connections` a hard cap;
  accepts and dials in progress are not counted.
* `handled_once`: `docs/PROTOCOL.md` 182 drops a message seen within 60 s; two
  readers of a node that check before either marks both deliver it.
  `CopiesPerPeer` is the bound that does hold.
* `fetch_finds_content`: `node.rs` 823-825 says that a fetch of another node's
  content sends a request and waits for the response. The request is wrapped in
  a Data message (873-877) that no receiver unwraps, so that every remote fetch
  between two nodes of this program ends in its timeout.
* `oracle_exact`: `trace.rs` 132-133 calls `earliest_arrival` "the exact optimum";
  it goes through the contacts once, and with contacts that overlap or begin
  together a journey may need them in another order. `OracleBetween` is what
  does hold: no journey is sooner on traces whose contacts do not overlap.

## 4. Proofs

`PeerConnectionProofs` proves, for every set of peers, addresses and slots and
every bound, `TypeCorrect`, `PermitsAreConserved`, `DialsAreBounded`,
`ChannelsHaveWriters`, `ConnectingIsAlwaysLive` and, of steps,
`OldWritersSpareNewer`. Assumptions: those the module
states of its constants (ids, addresses and `None` are distinct, the pool is
finite, there is at least one permit). Each inductive invariant has
one lemma with one step per action, and rests on those before it:

* `StateTyped`, the types without the upper bound of `permits` (that bound needs
  the accounting), and that an entry or a task at work has an address;
* `PermitShape`, which stages hold a permit (looking, marking, dialling) and
  which do not (idle, waiting for one), and `PermitsConserved`; the three are
  `Accounting`, from which the bounds on permits and dials follow;
* `WriterShape`, a writer exists only for a connection that was established,
  without which a new connection could find a registered channel already on
  its slot; with `ChannelHasWriter` it is `Channels`;
* `ConnectingIsLive`, inductive given `StateTyped` and `Channels`.

`OldWritersSpareNewer` asks, while no connection task moves, who takes a channel or a
state Connected away: announcements find the peer Connected and leave it, the removal
of stale entries passes it over, and a writer compares its token first, so that only
the writer of that very channel remains.

`MeshFloodProofs` proves `Invariant` (`Spec => []Inv`) for every network, number
of messages, ttl and fanout, and from it `MeshTypeCorrect`, `FloodHasNoLoops`,
`CopiesArePerPeer`, `DirectedIsPrivate` and the refinement
`FloodImplementsDelivery`; and, in networks that are `WideEnough`, `NobodyIsMissed`
and `BroadcastsReachAll`. `Inv` is the conjunction of

* `QueueInv`, every copy in a queue is one that could have been sent there:
  what `NoLoops` says of it, and for a directed message that its queue leads
  from the sender to the addressee;
* `ReaderInv`, a reader at work has the message it works on at the head of its
  queue and is at a stage this message leads to;
* `SendInv`, what `send_mesh_message` still has to do fits the message;
* `EntryInv` and `CopyInv`, how the inbox entries of an end follow from the
  duplicate table, the expiries and the stage of the reader. `CopiesPerPeer` is
  not inductive without it: that a reader delivers only a message it marked,
  and that marked means not delivered again, is what carries it through.

`NobodyIsMissed` is about the time in which no connection breaks and no entry of a
duplicate table expires (`Calm`), and needs `CalmInv` beside `Inv`:

* `MarkedInv`, a reader past the mark finds its message in the duplicate table. This
  is where the width of the network comes in: a copy that is not processed was seen,
  because the origin, the nodes on its way and the receiver are distinct (`PathInv`),
  so that with a ttl of at least one less than the number of nodes it is not used up;
* `KnownInv`, what is in the duplicate table is in the inbox, or a reader is about to
  put it there;
* `CoverInv`, the induction itself: if a node knows a broadcast, each neighbour knows
  it, or is still to be sent a copy by the origin, or has one on its way, or is still
  to be served by a reader of that node, unless that node has demoted it. Selection
  leaves only nodes out that are demoted or know the message, because at most `Fanout` are left when the sender is not counted
  (`SelectsAll`).

When the flood has ended, only the first of the four is left. `BroadcastsReachAll`
is the liveness property that follows: if `FloodEnds`, which TLC checks, then in a
connected network every broadcast reaches every node, or the calm ends, or a peer is
demoted.

`InboxProofs` proves all five invariants of `Inbox` for any number of tasks,
clients and messages, any capacity and any limit. Its invariants build on one
another:

* `TypeInv`: `TypeOK`, with what a task holds at each stage of `push_inbox`
  (`Staged`);
* `NumbersInv`: a number in the inbox or in a task's hand is below the counter,
  two tasks never hold the same one, and a task that has not appended yet holds
  one that the inbox does not have. `SeqIdentifies` needs all three, since the
  number is taken under another lock than the entry is appended;
* `OrderInv`: the last entry is the one with the greatest number so far, or was
  overtaken;
* `ClientInv`: a cursor is at most `highest` or what the client brought over a
  restart, and what a client was shown lies at or below its cursor unless a
  late entry let the cursor go back. With it `MissedExplained` and
  `ShownTwiceExplained` are inductive;
* `SendingInv`: a message of this node is appended by one task and not sent
  before; `RecordInv`: what was sent has a record, and no task still has a save
  to do that could undo a flag. From both follows `DeliveredPersisted`.

`LinkProofs`:

* `SessionInv`: for every connection, what the stages of its two ends and the
  frames between them say of the two keys, as long as nothing crossed it. An
  end that is still greeting, a frame on its way and an acknowledgement not yet
  read are what makes `KeysExplained` inductive;
* `SilenceInv`: `missed` lies between the unanswered pings of this connection and
  those plus the inherited ones; `CutEarned` follows at the third silence;
* `PingInv`: entries, stages and results of the callers agree;
* `PaddingRecovers`: `Unpad(Pad(n)) = n % 2^16`, which equals `n` exactly if `n` is
  below 2^16;
* `FrameInv`: every piece on the wire or arrived is the one that its position
  calls for, as long as the reader is in step.

`NetworkProofs`: `RelayInv` (an allocation is a function of the addresses that joined),
`StunInv` (when an answer to an earlier query may still come, that query or one before
it has timed out or read a stray datagram), `DiscoveryInv` (`last_seen` is what was
reported, times are ordered), and `HolePunchInv`, which counts probes: those on their
way and those lost add up to those sent as long as nothing has arrived, so that what an
acknowledgement overtook and what was lost before it are all the probes there were. An
acknowledgement on its way means that its sender succeeded.

`LocalProofs`:

* `NameInv`: an untainted name has at most one request, and cache, database and disk
  are what its stage leaves;
* `FilesInv`: a file that is being written is torn, and one that a crash left torn
  (`broken`) is never opened for writing again; lists are tidy;
* `LearningInv`: a task that is about to save holds the current counts, because it
  holds the read lock;
* `PortInv`: a task listens on the port it aimed at and on no other, and a service that
  asked when its API had written its port aims above it, as long as that API runs. A scan
  that goes upwards meets the API first, hence `ApisAreFound`, with the exceptions
  `FindsApi` names: a saved port whose API has stopped, and a gateway or messenger whose
  API lies below the scan, was asked too early, or is gone already;
* `TraceInv`: a claimed arrival is the end of a journey; no strategy holds a copy
  before the oracle has the point; and, while contacts do not overlap, whatever a
  journey through the contacts seen reaches is claimed no later. `OracleIsBetween`
  needs inductions over the trace and over the length of journeys. They are stated
  with sets of numbers and with functions in the place of operators (`NatSetInduction`,
  `IterationExists`), since the library's induction theorems cannot be instantiated.

`NetworkProofs`: `OnionInv` says that every cell on its way carries the rest of the
layers of one circuit, from some hop on; `ExitDelivers` and, from it and the
transition, `RefusedWithoutLeg` follow whatever the tables hold.

`ClientProofs`:

* `FetchInv`: a request on its way asks for what its fetch asks for, and a response
  comes from the owner and was true of its store when the fetch began or is true
  now. Since contents are never deleted, `FetchExplained` follows when the
  response arrives;
* `EntryInv`: among the entries in the inbox, in a task's hand and in the events, a
  number stands for one message, and so does the id of a message to a peer;
* `TaskInv`: a number is in one task's hand, and in none once it is appended; a
  message is sent after its event, so that the event of its delivery comes behind it
  (`NewsFirst`), without which a late `new` event could take a mark away;
* `ViewInv`: the cursor is a number that was appended, so that an append behind it is
  one out of order; what is not above the cursor was told, left out or late. With the
  stream split into what is gone, the event received and what is ahead,
  `ViewExplained` is inductive.

`NodeProofs` puts the fifteen parts together:

* `NodeIsItsParts`: a step of the node is a step of one part and a stutter of the
  others, so that `NodeSpec` implies the specification of each part, fairness
  included;
* `NodeIsSafe`: hence the node keeps the promises of all parts;
* `NodeTypeCorrect`: the types of all parts. Several are not inductive alone: that the
  sums of rewards fit their counts takes `Tallied` (a sum is at most twice its count),
  and that no more probes are overtaken than there are takes `HolePunchInv`.

All theorems rest on the assumptions the modules state of their constants, which
TLC evaluates in the runs.

Only model-checked: liveness (`ReplacedWriterEnds`, `AttemptIsDecided`, `FloodEnds`,
`EntryIsPassed`, `SilentPeerCut`), since the prover can use fairness only as an
assumption and does not know `ENABLED`; and that the violated properties are violated.
Every invariant and every action property of a passing run is a theorem.

## 5. Not modelled

* Selection of peers by score: UCB1 and Q scores, latencies, PRoPHET's
  predictabilities are real numbers. What they are computed from is in
  `PeerLearning`; what is done with the choice is in `MeshFlood`, which allows
  every choice of `Fanout` peers. No code of the node calls the recording
  functions of the router yet.
* Cryptographic primitives, key derivation, wire syntax: abstracted to what they
  preserve. Traffic obfuscation and group encryption have no state of the
  protocol; obfuscation is not wired into the node's connections.
* Text: the preview of a message is cut at a byte position (`node.rs` 1799), which
  fails within a multi-byte character. Positions within a text do not exist in
  these models; the hazard is listed without a property.
* Contacts and profiles: single calls of a database, each atomic.
* Command line (but for `get_api_port`), configuration, URL handler, benchmarks (but
  for `trace_bench`), visualisation, statistics, routing log, web pages, browser
  extension, Python client (but for its timeout), scripts, results, paper: user
  interfaces and best-effort output.

## 6. Plan

1. `SessionKeys` composed with `PeerConnection`: which of two crossing connections
   survives decides which key the survivor is left with.
