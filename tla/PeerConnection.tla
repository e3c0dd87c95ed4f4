--------------------------- MODULE PeerConnection ---------------------------
(***************************************************************************)
(* The connection lifecycle of one node: the peer table of PeerManager     *)
(* (p2p/peer.rs), the channel table `message_senders`, the semaphore that  *)
(* bounds outbound attempts, and the tasks of node.rs that share them:     *)
(* the connector, the listener's per-connection tasks, the discovery loop, *)
(* the heartbeat's garbage collection, and, for every TCP connection, a    *)
(* reader (the task that runs handle_connection) and the writer it spawns. *)
(*                                                                         *)
(* A step is one critical section of the code: what a task does under one  *)
(* acquisition of the lock of the peer table or of the channel table.      *)
(* Other tasks run between two such sections of the same task.             *)
(*                                                                         *)
(* Conn is a pool of connection slots.  A slot names one run of            *)
(* connect_to_peer or handle_incoming_connection together with the writer  *)
(* it spawns, and stands for the fresh `channel_token` of that run; it is  *)
(* reused only when both of its tasks have ended.                          *)
(*                                                                         *)
(* The temporary id "peer-<addr>" of the code is the address itself.       *)
(* Time is abstract: a cooldown, a timeout or the staleness of an entry    *)
(* may be over at any moment.                                              *)
(***************************************************************************)
EXTENDS Integers, FiniteSets

CONSTANTS
  Peer,           \* node ids of the remote nodes (this node is not in it)
  ListenAddr,     \* addresses on which remote nodes accept connections
  SourceAddr,     \* ephemeral source addresses of incoming connections
  BootAddr,       \* known_peers and cached peers, loaded by start()
  Conn,           \* connection slots (bound on simultaneous connections)
  MaxInFlight,    \* Config::max_connect_in_flight, at least 1 (Node::new)
  MaxConnections, \* Config::max_connections
  MaxAttempts,    \* Config::max_connection_attempts
  None            \* no connection, no id, no address

Addr == ListenAddr \cup SourceAddr
Id   == Peer \cup Addr

ASSUME IdAssumption ==
  /\ Peer \cap Addr = {}
  /\ ListenAddr \cap SourceAddr = {}
  /\ BootAddr \subseteq ListenAddr
  /\ None \notin Id \cup Conn

ASSUME BoundAssumption ==
  /\ IsFiniteSet(Conn)
  /\ MaxInFlight \in Nat \ {0}
  /\ MaxConnections \in Nat
  /\ MaxAttempts \in Nat

VARIABLES
  state,     \* state of each table entry, "Absent" when there is none
  addrOf,    \* PeerInfo.address
  attempts,  \* PeerInfo.connection_attempts, saturating at MaxAttempts
  senders,   \* message_senders: the slot whose channel is registered
  pc,        \* where the connection task of a slot is
  writer,    \* the slot's writer task
  who,       \* the id whose entry the task updates
  via,       \* the remote address of the task's connection
  holders,   \* slots whose task holds a permit of connect_semaphore
  permits,   \* available permits
  cooling    \* addresses of last_connect_attempt still in cooldown

table == <<state, addrOf, attempts>>
task  == <<pc, who, via, holders>>
vars  == <<table, senders, task, writer, permits, cooling>>

EntryState == {"Disconnected", "Connecting", "Handshaking", "Connected"}
Busy       == {"Connecting", "Handshaking", "Connected"}
TaskState  == {"idle", "permit", "check", "mark", "dial", "handshake",
               "open", "reading", "closing", "returned", "settle"}

TypeOK ==
  /\ state    \in [Id -> EntryState \cup {"Absent"}]
  /\ addrOf   \in [Id -> Addr \cup {None}]
  /\ attempts \in [Id -> 0..MaxAttempts]
  /\ senders  \in [Peer -> Conn \cup {None}]
  /\ pc       \in [Conn -> TaskState]
  /\ writer   \in [Conn -> {"off", "running", "sending", "stopping"}]
  /\ who      \in [Conn -> Id \cup {None}]
  /\ via      \in [Conn -> Addr \cup {None}]
  /\ holders  \subseteq Conn
  /\ permits  \in 0..MaxInFlight
  /\ cooling  \subseteq Addr

\* start(): every configured or cached address gets an entry of its own.
Init ==
  /\ state    = [i \in Id |-> IF i \in BootAddr THEN "Disconnected" ELSE "Absent"]
  /\ addrOf   = [i \in Id |-> IF i \in BootAddr THEN i ELSE None]
  /\ attempts = [i \in Id |-> 0]
  /\ senders  = [p \in Peer |-> None]
  /\ pc       = [c \in Conn |-> "idle"]
  /\ writer   = [c \in Conn |-> "off"]
  /\ who      = [c \in Conn |-> None]
  /\ via      = [c \in Conn |-> None]
  /\ holders  = {}
  /\ permits  = MaxInFlight
  /\ cooling  = {}

-----------------------------------------------------------------------------
(* The peer table.                                                         *)

Entries   == {i \in Id : state[i] # "Absent"}
Connected == {i \in Id : state[i] = "Connected"}

\* update_peer_state: silently ignored when there is no entry.
UpdateState(id, s) ==
  state' = [state EXCEPT ![id] = IF @ = "Absent" THEN @ ELSE s]

\* add_peer followed by update_peer_state(s): the entry exists by then.
Upsert(id, a, s) ==
  /\ state'  = [state EXCEPT ![id] = s]
  /\ addrOf' = [addrOf EXCEPT ![id] = a]

\* The entry that `iter().find` returns is the first match in the order of
\* a HashMap, which is any of them; find gives nothing when none matches.
FirstMatchIsFree(matches) ==
  \/ matches = {}
  \/ \E e \in matches : state[e] \notin Busy

-----------------------------------------------------------------------------
(* Starting an outgoing connection.                                        *)

Free(c) == pc[c] = "idle" /\ writer[c] = "off"

\* connect_to_peer up to the semaphore.  A task that finds its address in
\* cooldown returns at once, which changes nothing.
BeginConnect(c, id, a) ==
  /\ Free(c)
  /\ a \notin cooling
  /\ cooling' = cooling \cup {a}
  /\ pc'  = [pc  EXCEPT ![c] = "permit"]
  /\ who' = [who EXCEPT ![c] = id]
  /\ via' = [via EXCEPT ![c] = a]
  /\ UNCHANGED holders

Candidates ==
  {i \in Entries : state[i] = "Disconnected" /\ attempts[i] < MaxAttempts}

AtLeastOne(n) == IF n < 1 THEN 1 ELSE n
Budget == LET slots == AtLeastOne(MaxConnections - Cardinality(Connected))
          IN  IF slots < AtLeastOne(permits) THEN slots ELSE AtLeastOne(permits)

\* One spawn of a tick of run_connector: a candidate is among those the tick
\* takes when fewer than `Budget` candidates rank strictly before it.
ConnectorSpawns(c, id) ==
  /\ Cardinality(Connected) < MaxConnections
  /\ id \in Candidates
  /\ Cardinality({j \in Candidates : attempts[j] < attempts[id]}) < Budget
  /\ BeginConnect(c, id, addrOf[id])
  /\ UNCHANGED <<table, senders, writer, permits>>

\* run_discovery handles one announcement: the entry is added or its address
\* replaced, then the node is dialled if it is not connected.
DiscoverPeer(p, a) ==
  /\ state'  = [state  EXCEPT ![p] = IF @ = "Absent" THEN "Disconnected" ELSE @]
  /\ addrOf' = [addrOf EXCEPT ![p] = a]
  /\ UNCHANGED <<attempts, senders, writer, permits>>
  /\ IF \/ Cardinality(Connected) >= MaxConnections
        \/ p \in Connected
        \/ a \in cooling
     THEN UNCHANGED <<task, cooling>>
     ELSE \E c \in Conn : BeginConnect(c, p, a)

CooldownElapses(a) ==
  /\ a \in cooling
  /\ cooling' = cooling \ {a}
  /\ UNCHANGED <<table, senders, task, writer, permits>>

-----------------------------------------------------------------------------
(* The rest of connect_to_peer.  The permit is a local of the function: it  *)
(* is given back when the function returns, whichever way that happens.     *)

Goto(c, l) == pc' = [pc EXCEPT ![c] = l]

\* Deviation: a permit is released whether or not one was held.
ReturnReleasingTwice(c) ==
  /\ Goto(c, "idle")
  /\ holders' = holders \ {c}
  /\ permits' = permits + 1
  /\ UNCHANGED <<who, via>>

\* Deviation: the permit is forgotten instead of dropped.
ReturnForgettingPermit(c) ==
  /\ Goto(c, "idle")
  /\ holders' = holders \ {c}
  /\ UNCHANGED <<permits, who, via>>

\* The function returns: the permit is dropped.  The slot keeps its id and
\* address while its writer task still runs.
Return(c) ==
  /\ Goto(c, "idle")
  /\ holders' = holders \ {c}
  /\ permits' = IF c \in holders THEN permits + 1 ELSE permits
  /\ who' = IF writer[c] = "off" THEN [who EXCEPT ![c] = None] ELSE who
  /\ via' = IF writer[c] = "off" THEN [via EXCEPT ![c] = None] ELSE via

\* Deviation: `let _ = acquire()`, which drops the permit on the spot.
AcquireAndDrop(c) ==
  /\ pc[c] = "permit"
  /\ permits > 0
  /\ Goto(c, "check")
  /\ UNCHANGED <<permits, holders, table, senders, who, via, writer, cooling>>

AcquirePermit(c) ==
  /\ pc[c] = "permit"
  /\ permits > 0
  /\ permits' = permits - 1
  /\ holders' = holders \cup {c}
  /\ Goto(c, "check")
  /\ UNCHANGED <<table, senders, who, via, writer, cooling>>

Matching(c) == {e \in Entries : addrOf[e] = via[c] \/ e = who[c]}

\* "Double-check we're not already connected or connecting".
DoubleCheck(c) ==
  /\ pc[c] = "check"
  /\ \/ /\ FirstMatchIsFree(Matching(c))
        /\ Goto(c, "mark")
        /\ UNCHANGED <<who, via, holders, permits>>
     \/ /\ \E e \in Matching(c) : state[e] \in Busy
        /\ Return(c)
  /\ UNCHANGED <<table, senders, writer, cooling>>

\* State Connecting and one more attempt, under later acquisitions of the
\* lock than the check.
MarkConnecting(c) ==
  /\ pc[c] = "mark"
  /\ UpdateState(who[c], "Connecting")
  /\ attempts' = [attempts EXCEPT ![who[c]] =
        IF state[who[c]] # "Absent" /\ @ < MaxAttempts THEN @ + 1 ELSE @]
  /\ Goto(c, "dial")
  /\ UNCHANGED <<addrOf, senders, who, via, holders, writer, permits, cooling>>

\* Deviation: an arm of the match that does not reset the state.
DialFailsQuietly(c) ==
  /\ pc[c] = "dial"
  /\ Return(c)
  /\ UNCHANGED <<table, senders, writer, cooling>>

\* Deviation: a failed dial is retried in place, permit in hand.
DialRetries(c) ==
  /\ pc[c] = "dial"
  /\ UpdateState(who[c], "Disconnected")
  /\ Goto(c, "check")
  /\ UNCHANGED <<addrOf, attempts, senders, who, via, holders, permits, writer, cooling>>

\* TcpStream::connect fails, or the timeout around it expires.
DialFails(c) ==
  /\ pc[c] = "dial"
  /\ UpdateState(who[c], "Disconnected")
  /\ Return(c)
  /\ UNCHANGED <<addrOf, attempts, senders, writer, cooling>>

DialSucceeds(c) ==
  /\ pc[c] = "dial"
  /\ via[c] \in ListenAddr
  /\ UpdateState(who[c], "Handshaking")
  /\ Goto(c, "handshake")
  /\ UNCHANGED <<addrOf, attempts, senders, who, via, holders, writer, permits, cooling>>

-----------------------------------------------------------------------------
(* Incoming connections, and the handshake of both directions.             *)

\* A source address names one TCP connection at a time.
FreshSource(a) == \A c \in Conn : via[c] # a

\* handle_incoming_connection up to the handshake; a connection rejected by
\* the address check changes nothing.
AcceptIncoming(c, a) ==
  /\ Free(c)
  /\ FreshSource(a)
  /\ FirstMatchIsFree({e \in Entries : addrOf[e] = a})
  /\ Upsert(a, a, "Handshaking")
  /\ who' = [who EXCEPT ![c] = a]
  /\ via' = [via EXCEPT ![c] = a]
  /\ Goto(c, "handshake")
  /\ UNCHANGED <<attempts, senders, holders, writer, permits, cooling>>

\* perform_handshake returns an error; `who` is still the id that the task
\* was started with (the temporary id, for an incoming connection).
HandshakeFails(c) ==
  /\ pc[c] = "handshake"
  /\ UpdateState(who[c], "Disconnected")
  /\ Return(c)
  /\ UNCHANGED <<addrOf, attempts, senders, writer, cooling>>

\* The remote end proved to be p: p's entry is added or readdressed and
\* becomes Connected.  The entry of the id the task started with, when it is
\* another one, is left as it is.
HandshakeSucceeds(c, p) ==
  /\ pc[c] = "handshake"
  /\ Upsert(p, via[c], "Connected")
  /\ who' = [who EXCEPT ![c] = p]
  /\ Goto(c, "open")
  /\ UNCHANGED <<attempts, senders, via, holders, writer, permits, cooling>>

-----------------------------------------------------------------------------
(* handle_connection: the reader.                                          *)

\* The channel replaces whatever channel the peer had; its sender is dropped.
OpenChannel(c) ==
  /\ pc[c] = "open"
  /\ senders' = [senders EXCEPT ![who[c]] = c]
  /\ writer'  = [writer EXCEPT ![c] = "running"]
  /\ Goto(c, "reading")
  /\ UNCHANGED <<table, who, via, holders, permits, cooling>>

\* The loop is left by `break`: end of stream, a Close message, three missed
\* pongs.
ReaderBreaks(c) ==
  /\ pc[c] = "reading"
  /\ Goto(c, "closing")
  /\ UNCHANGED <<table, senders, who, via, holders, writer, permits, cooling>>

\* The loop is left by `return Err` or `?`: an I/O error, a payload that does
\* not arrive, a message that does not parse.  The cleanup is skipped and the
\* writer task goes on, detached.
ReaderFails(c) ==
  /\ pc[c] = "reading"
  /\ Goto(c, "returned")
  /\ UNCHANGED <<table, senders, who, via, holders, writer, permits, cooling>>

\* Cleanup after the loop: the peer's channel is removed, whoever owns it, and
\* the writer of this connection is aborted.
CloseChannel(c) ==
  /\ pc[c] = "closing"
  /\ senders' = [senders EXCEPT ![who[c]] = None]
  /\ writer'  = [writer EXCEPT ![c] = "off"]
  /\ Goto(c, "returned")
  /\ UNCHANGED <<table, who, via, holders, permits, cooling>>

\* The caller reads the peer's state; a peer found Connected is taken to be
\* connected by another connection and nothing more is done.
AfterConnection(c) ==
  /\ pc[c] = "returned"
  /\ IF state[who[c]] = "Connected"
     THEN Return(c)
     ELSE Goto(c, "settle") /\ UNCHANGED <<who, via, holders, permits>>
  /\ UNCHANGED <<table, senders, writer, cooling>>

MarkDisconnected(c) ==
  /\ pc[c] = "settle"
  /\ UpdateState(who[c], "Disconnected")
  /\ Return(c)
  /\ UNCHANGED <<addrOf, attempts, senders, writer, cooling>>

-----------------------------------------------------------------------------
(* handle_connection: the writer.                                          *)

\* `rx.recv()` gives a message, of a channel that was replaced too: what was
\* sent into it before is still there.
WriterTakes(c) ==
  /\ writer[c] = "running"
  /\ writer' = [writer EXCEPT ![c] = "sending"]
  /\ UNCHANGED <<table, senders, task, permits, cooling>>

\* send_message_to_stream: write_all, which has no timeout, returns once the
\* remote end has taken the bytes or the connection is reset.
WriterSends(c) ==
  /\ writer[c] = "sending"
  /\ writer' = [writer EXCEPT ![c] = "running"]
  /\ UNCHANGED <<table, senders, task, permits, cooling>>

WriterSendFails(c) ==
  /\ writer[c] = "sending"
  /\ writer' = [writer EXCEPT ![c] = "stopping"]
  /\ UNCHANGED <<table, senders, task, permits, cooling>>

\* `rx.recv()` returns None: the channel is empty and its only sender dropped.
WriterFindsChannelClosed(c) ==
  /\ writer[c] = "running"
  /\ senders[who[c]] # c
  /\ writer' = [writer EXCEPT ![c] = "stopping"]
  /\ UNCHANGED <<table, senders, task, permits, cooling>>

\* Deviation: the writer ends without removing its channel.
WriterCleanupSkipped(c) ==
  /\ writer[c] = "stopping"
  /\ writer' = [writer EXCEPT ![c] = "off"]
  /\ UNCHANGED <<table, senders, task, permits, cooling>>

\* Deviation: the token is not compared.
WriterCleanupWithoutToken(c) ==
  /\ writer[c] = "stopping"
  /\ senders' = [senders EXCEPT ![who[c]] = None]
  /\ UpdateState(who[c], "Disconnected")
  /\ writer' = [writer EXCEPT ![c] = "off"]
  /\ UNCHANGED <<addrOf, attempts, task, permits, cooling>>

\* Deviation: the writer waits to be the active one before it cleans up.
WriterCleanupWaits(c) ==
  /\ writer[c] = "stopping"
  /\ senders[who[c]] = c
  /\ WriterCleanupWithoutToken(c)

\* The writer's cleanup, all of it under the lock of the channel table.
WriterCleanup(c) ==
  /\ writer[c] = "stopping"
  /\ IF senders[who[c]] = c
     THEN /\ senders' = [senders EXCEPT ![who[c]] = None]
          /\ UpdateState(who[c], "Disconnected")
     ELSE UNCHANGED <<senders, state>>
  /\ writer' = [writer EXCEPT ![c] = "off"]
  /\ who' = IF pc[c] = "idle" THEN [who EXCEPT ![c] = None] ELSE who
  /\ via' = IF pc[c] = "idle" THEN [via EXCEPT ![c] = None] ELSE via
  /\ UNCHANGED <<addrOf, attempts, pc, holders, permits, cooling>>

-----------------------------------------------------------------------------
(* The heartbeat forgets entries that are stale and not in use.            *)

RemoveStalePeers(stale) ==
  /\ stale # {}
  /\ state'    = [i \in Id |-> IF i \in stale THEN "Absent" ELSE state[i]]
  /\ addrOf'   = [i \in Id |-> IF i \in stale THEN None ELSE addrOf[i]]
  /\ attempts' = [i \in Id |-> IF i \in stale THEN 0 ELSE attempts[i]]
  /\ UNCHANGED <<senders, task, writer, permits, cooling>>

-----------------------------------------------------------------------------
Environment ==
  \/ \E c \in Conn, id \in Id : ConnectorSpawns(c, id)
  \/ \E p \in Peer, a \in ListenAddr : DiscoverPeer(p, a)
  \/ \E a \in Addr : CooldownElapses(a)
  \/ \E c \in Conn, a \in SourceAddr : AcceptIncoming(c, a)
  \/ \E stale \in SUBSET (Entries \ {i \in Id : state[i] \in Busy}) :
        RemoveStalePeers(stale)

Connection(c) ==
  \/ AcquirePermit(c)
  \/ DoubleCheck(c)
  \/ MarkConnecting(c)
  \/ DialFails(c)
  \/ DialSucceeds(c)
  \/ HandshakeFails(c)
  \/ \E p \in Peer : HandshakeSucceeds(c, p)
  \/ OpenChannel(c)
  \/ ReaderBreaks(c)
  \/ ReaderFails(c)
  \/ CloseChannel(c)
  \/ AfterConnection(c)
  \/ MarkDisconnected(c)

Writer(c) ==
  \/ WriterTakes(c)
  \/ WriterSends(c)
  \/ WriterSendFails(c)
  \/ WriterFindsChannelClosed(c)
  \/ WriterCleanup(c)

Next == Environment \/ \E c \in Conn : Connection(c) \/ Writer(c)

Spec == Init /\ [][Next]_vars

\* A spawned task that can run does run; a dial ends within its timeout.
\* A replaced channel gets no more messages, so that a writer that keeps coming
\* back to it finds it empty: strong fairness.  Nothing is assumed of the remote
\* end, of the network, of the wait for a permit, or of the handshake and a
\* send, which have no timeout.
Fairness ==
  \A c \in Conn :
     /\ WF_vars(DoubleCheck(c))
     /\ WF_vars(MarkConnecting(c))
     /\ WF_vars(DialFails(c) \/ DialSucceeds(c))
     /\ WF_vars(OpenChannel(c))
     /\ WF_vars(CloseChannel(c))
     /\ WF_vars(AfterConnection(c))
     /\ WF_vars(MarkDisconnected(c))
     /\ SF_vars(WriterFindsChannelClosed(c))
     /\ WF_vars(WriterCleanup(c))

FairSpec == Spec /\ Fairness

-----------------------------------------------------------------------------
(* Safety.                                                                 *)

\* A channel found in `message_senders` belongs to a connection with that
\* very peer, whose writer has not ended: it will take what is sent into the
\* channel, or it will remove the channel (node.rs 1443-1453, 1858-1868).
ChannelHasWriter ==
  \A p \in Peer : senders[p] # None =>
     /\ who[senders[p]] = p
     /\ writer[senders[p]] # "off"

\* Every way out of connect_to_peer gives its permit back exactly once: none
\* leaks, however the attempt or the connection ends.
PermitsConserved == permits + Cardinality(holders) = MaxInFlight

\* No more dials run at a time than max_connect_in_flight, whatever mix of
\* connector ticks and discovery announcements started them.
Dialling == {c \in Conn : pc[c] = "dial"}
DialsBounded == Cardinality(Dialling) <= MaxInFlight

\* An entry is Connecting only while some task dials for that id. A leftover
\* Connecting would exclude the entry from the connector and from the removal
\* of stale entries for good.
ConnectingIsLive ==
  \A i \in Id : state[i] = "Connecting" =>
     \E c \in Conn : pc[c] = "dial" /\ who[c] = i

\* The writer of p's channel ends and takes the channel with it.
OwnWriterEnds(p) ==
  /\ senders[p] # None /\ senders'[p] = None
  /\ writer[senders[p]] = "stopping" /\ writer'[senders[p]] = "off"

\* While the connection tasks stand still, and writers, announcements and the
\* removal of stale entries go on, a peer's channel and its state Connected are
\* taken away by nobody but the writer of this very channel: the writer of a
\* connection that was replaced leaves the one that replaced it alone ("prevents
\* stomping newer connections", node.rs 1443).
OldWriterSparesNewer ==
  [][pc' = pc =>
       \A p \in Peer :
          (senders'[p] # senders[p] \/ (state[p] = "Connected" /\ state'[p] # "Connected"))
             => OwnWriterEnds(p)]_vars

-----------------------------------------------------------------------------
(* Liveness, under FairSpec.                                               *)

\* The writer of a channel that was replaced or removed ends, whatever was still
\* in the channel: replacing a connection leaks no task, unless its remote end
\* neither reads nor resets it and holds the writer in one send for good
\* (handle_connection, send_message_to_stream).
ReplacedWriterEnds ==
  \A c \in Conn :
     (writer[c] \in {"running", "sending"} /\ senders[who[c]] # c)
        ~> (writer[c] = "off" \/ [](writer[c] = "sending"))

\* An attempt that holds a permit is decided: it reaches the remote end or
\* returns, and a connection that was closed gives its permit back.
AttemptIsDecided ==
  \A c \in Conn :
     /\ pc[c] \in {"check", "mark", "dial"} ~> pc[c] \in {"handshake", "idle"}
     /\ pc[c] = "closing" ~> c \notin holders

-----------------------------------------------------------------------------
(* What comments and configuration say, and the code does not do.          *)

InUse(c) == \/ pc[c] \in {"open", "reading", "closing", "returned", "settle"}
            \/ writer[c] # "off"

\* node.rs 1110: a peer left Connected by the cleanup of one connection is
\* "probably" connected "via another connection".
ConnectedHasConnection ==
  \A p \in Peer : state[p] = "Connected" =>
     \E c \in Conn : who[c] = p /\ InUse(c)

\* node.rs 1443: the cleanup of a connection does not remove the channel of a
\* newer connection with the same peer.
NewerChannelSurvives ==
  [][\A c \in Conn : CloseChannel(c) =>
        senders[who[c]] \in {c, None} \/ UNCHANGED senders]_vars

\* config.rs 133: max_connections is a hard cap on connected peers.
ConnectedWithinCap == Cardinality(Connected) <= MaxConnections

=============================================================================
