----------------------------- MODULE MeshFlood -----------------------------
(***************************************************************************)
(* Mesh messages in a network of nodes: send_mesh_message and              *)
(* handle_mesh_message of node.rs with the Router's duplicate table        *)
(* (murmuration-routing/src/router.rs), over the per-peer channels of      *)
(* `message_senders`.                                                      *)
(*                                                                         *)
(* Every connection end has a reader task, which handles the messages of   *)
(* one peer one after another; the readers of a node run concurrently and  *)
(* share its duplicate table, its channels and its inbox.  A step is one   *)
(* critical section of such a task.                                        *)
(*                                                                         *)
(* <<n, x>> in Link names n's end of the connection with x;                *)
(* queue[<<n, x>>] is what n sent to x and x's reader has not finished     *)
(* with: the message being handled stays at the head until its handler     *)
(* returns.                                                                *)
(*                                                                         *)
(* `from` and `to` of a message never change after it is sent and are kept *)
(* per message id.  Of `path` only the set of its nodes is kept.           *)
(* Two nodes have at most one connection at a time; what happens when they *)
(* have more is the subject of module PeerConnection.                      *)
(***************************************************************************)
EXTENDS Integers, Sequences, FiniteSets

CONSTANTS
  Node,
  Link,        \* pairs of nodes that have a connection, both directions
  Msg,         \* message ids
  DefaultTtl,  \* 10 in MeshMessage::new
  Fanout,      \* max_forward_peers, 3
  MaxLate,     \* bound: duplicate-table entries that outlive their window
  MaxBreaks,   \* bound: connections that break and peers that are demoted
  Broadcast,   \* `to` of a broadcast
  None

ASSUME LinkAssumption ==
  /\ Link \subseteq Node \X Node
  /\ \A n, x \in Node : <<n, x>> \in Link => <<x, n>> \in Link
  /\ \A n \in Node : <<n, n>> \notin Link

ASSUME ValueAssumption ==
  /\ {None, Broadcast} \cap Node = {}
  /\ None # Broadcast
  /\ DefaultTtl \in Nat \ {0}
  /\ Fanout \in Nat \ {0}
  /\ MaxLate \in Nat
  /\ MaxBreaks \in Nat

VARIABLES
  origin,    \* `from` of a message, None before it is sent
  target,    \* `to` of a message
  sending,   \* peers send_mesh_message still has to queue the message for
  chan,      \* ends whose node has a channel in message_senders
  queue,     \* messages on their way
  at,        \* where the reader of an end is
  todo,      \* peers the reader still has to forward its message to
  seen,      \* Router.seen_messages of each node
  late,      \* <<n, m>> whose 60 s window elapsed at n, as a history
  mesh,      \* inbox entries of kind "mesh", per end and message
  data,      \* inbox entries of kind "data", per end and message
  confirmed, \* messages whose outbox entry is flagged delivered
  breaks,    \* connections broken so far, as a history
  demoted    \* ends whose peer may not be Connected though it has a channel

messages == <<origin, target, confirmed>>
inbox    == <<mesh, data>>
vars     == <<messages, sending, chan, queue, at, todo, seen, late, inbox, breaks,
              demoted>>

Copy(m, ttl, path) == [kind |-> "data", id |-> m, ttl |-> ttl, path |-> path]
Ack(m)             == [kind |-> "ack",  id |-> m, ttl |-> 0,   path |-> {}]
Packet == [kind : {"data", "ack"}, id : Msg, ttl : 0..DefaultTtl, path : SUBSET Node]

Busy == {"mark", "deliver", "ack", "select", "forward", "show"}

TypeOK ==
  /\ origin    \in [Msg -> Node \cup {None}]
  /\ target    \in [Msg -> Node \cup {Broadcast, None}]
  /\ sending   \in [Msg -> SUBSET Node]
  /\ chan      \subseteq Link
  /\ queue     \in [Link -> Seq(Packet)]
  /\ at        \in [Link -> Busy \cup {"off", "idle"}]
  /\ todo      \in [Link -> SUBSET Node]
  /\ seen      \in [Node -> SUBSET Msg]
  /\ late      \subseteq Node \X Msg
  /\ mesh      \in [Link -> [Msg -> Nat]]
  /\ data      \in [Link -> [Msg -> Nat]]
  /\ confirmed \subseteq Msg
  /\ breaks    \in Nat
  /\ demoted   \subseteq Link

\* A network of peers that are connected, which carries nothing yet.
Init ==
  /\ origin    = [m \in Msg |-> None]
  /\ target    = [m \in Msg |-> None]
  /\ sending   = [m \in Msg |-> {}]
  /\ chan      = Link
  /\ queue     = [e \in Link |-> <<>>]
  /\ at        = [e \in Link |-> "idle"]
  /\ todo      = [e \in Link |-> {}]
  /\ seen      = [n \in Node |-> {}]
  /\ late      = {}
  /\ mesh      = [e \in Link |-> [m \in Msg |-> 0]]
  /\ data      = [e \in Link |-> [m \in Msg |-> 0]]
  /\ confirmed = {}
  /\ breaks    = 0
  /\ demoted   = {}

-----------------------------------------------------------------------------
(* Channels.                                                               *)

Neighbours(n) == {x \in Node : <<n, x>> \in Link}
Channels(n)   == {x \in Node : <<n, x>> \in chan}

\* ch.tx.send: what is sent to a peer without a channel, or into a connection
\* whose other end is gone, arrives nowhere.
Enqueue(n, x, p) ==
  queue' = IF <<n, x>> \in chan /\ at[<<x, n>>] # "off"
           THEN [queue EXCEPT ![<<n, x>>] = Append(@, p)] ELSE queue

\* send_mesh_message holds the read lock of message_senders until it is done.
ChannelsLocked(n) == \E m \in Msg : origin[m] = n /\ sending[m] # {}

-----------------------------------------------------------------------------
(* send_mesh_message.                                                      *)

\* Deviation: a message for one node goes to every peer.
OriginateToAll(n, m, to) ==
  /\ origin[m] = None
  /\ Channels(n) # {}
  /\ to \in Channels(n) \cup {Broadcast}
  /\ origin'  = [origin EXCEPT ![m] = n]
  /\ target'  = [target EXCEPT ![m] = to]
  /\ sending' = [sending EXCEPT ![m] = Channels(n)]
  /\ UNCHANGED <<confirmed, chan, queue, at, todo, seen, late, inbox, breaks, demoted>>

\* Up to the outbox entry.  It fails, which changes nothing, when there is no
\* channel at all or none to the addressee: a message addressed to a node is
\* for a neighbour.
Originate(n, m, to) ==
  /\ origin[m] = None
  /\ Channels(n) # {}
  /\ to \in Channels(n) \cup {Broadcast}
  /\ origin'  = [origin EXCEPT ![m] = n]
  /\ target'  = [target EXCEPT ![m] = to]
  /\ sending' = [sending EXCEPT ![m] = IF to = Broadcast THEN Channels(n) ELSE {to}]
  /\ UNCHANGED <<confirmed, chan, queue, at, todo, seen, late, inbox, breaks, demoted>>

SendTo(m, x) ==
  /\ x \in sending[m]
  /\ Enqueue(origin[m], x, Copy(m, DefaultTtl, {}))
  /\ sending' = [sending EXCEPT ![m] = @ \ {x}]
  /\ UNCHANGED <<messages, chan, at, todo, seen, late, inbox, breaks, demoted>>

-----------------------------------------------------------------------------
(* The reader of n for its peer x.                                         *)

Current(n, x) == Head(queue[<<x, n>>])
Goto(n, x, l) == at' = [at EXCEPT ![<<n, x>>] = l]
ForUs(n, m)   == target[m] \in {Broadcast, n}

\* Deviation: off by one in the check of the ttl.
ShouldProcessShort(n, p) ==
  /\ p.ttl > 1
  /\ p.id \notin seen[n]
  /\ n \notin p.path

\* should_process, under the read lock of seen_messages.
ShouldProcess(n, p) ==
  /\ p.ttl # 0
  /\ p.id \notin seen[n]
  /\ n \notin p.path

CheckSeen(n, x) ==
  /\ at[<<n, x>>] = "idle"
  /\ queue[<<x, n>>] # <<>>
  /\ Current(n, x).kind = "data"
  /\ Goto(n, x, IF ShouldProcess(n, Current(n, x)) THEN "mark" ELSE "show")
  /\ UNCHANGED <<messages, sending, chan, queue, todo, seen, late, inbox, breaks, demoted>>

\* Deviation: only messages for other nodes are marked.
MarkSeenOfOthers(n, x) ==
  /\ at[<<n, x>>] = "mark"
  /\ IF ForUs(n, Current(n, x).id)
     THEN Goto(n, x, "deliver") /\ UNCHANGED seen
     ELSE /\ seen' = [seen EXCEPT ![n] = @ \cup {Current(n, x).id}]
          /\ Goto(n, x, "select")
  /\ UNCHANGED <<messages, sending, chan, queue, todo, late, inbox, breaks, demoted>>

\* Deviation: the acknowledgement is sent on receipt, before the delivery.
MarkSeenAndAck(n, x) ==
  /\ at[<<n, x>>] = "mark"
  /\ seen' = [seen EXCEPT ![n] = @ \cup {Current(n, x).id}]
  /\ Goto(n, x, IF ForUs(n, Current(n, x).id) THEN "deliver" ELSE "select")
  /\ Enqueue(n, x, Ack(Current(n, x).id))
  /\ UNCHANGED <<messages, sending, chan, todo, late, inbox, breaks, demoted>>

\* mark_seen, under the write lock, taken after the read lock was released.
MarkSeen(n, x) ==
  /\ at[<<n, x>>] = "mark"
  /\ seen' = [seen EXCEPT ![n] = @ \cup {Current(n, x).id}]
  /\ Goto(n, x, IF ForUs(n, Current(n, x).id) THEN "deliver" ELSE "select")
  /\ UNCHANGED <<messages, sending, chan, queue, todo, late, inbox, breaks, demoted>>

\* The inbox entry of kind "mesh"; a message addressed to this node goes no
\* further.
Deliver(n, x) ==
  /\ at[<<n, x>>] = "deliver"
  /\ mesh' = [mesh EXCEPT ![<<n, x>>][Current(n, x).id] = @ + 1]
  /\ Goto(n, x, IF target[Current(n, x).id] = Broadcast THEN "select" ELSE "ack")
  /\ UNCHANGED <<messages, sending, chan, queue, todo, seen, late, data, breaks, demoted>>

\* MessageAck to the peer the message came from.
Acknowledge(n, x) ==
  /\ at[<<n, x>>] = "ack"
  /\ Enqueue(n, x, Ack(Current(n, x).id))
  /\ Goto(n, x, "show")
  /\ UNCHANGED <<messages, sending, chan, todo, seen, late, inbox, breaks, demoted>>

\* Deviation: the filter on the path is missing.
EligibleAgain(S, p) == {y \in S : y # origin[p.id]}

\* get_best_forward_peers: the Fanout best of the eligible peers, all of them
\* when there are no more.  Scores are abstracted: any peers may be the best.
Eligible(S, p) == {y \in S : y # origin[p.id] /\ y \notin p.path}

Best(S) ==
  IF Cardinality(S) <= Fanout THEN {S} ELSE {B \in SUBSET S : Cardinality(B) = Fanout}

\* Peers with a channel are in the state Connected unless they were demoted, and
\* so may be peers that have none (PeerConnection, ConnectedHasConnection).
ConnectedSets(n) ==
  {S \in SUBSET Neighbours(n) : \A x \in Channels(n) : <<n, x>> \notin demoted => x \in S}

\* Deviation: with fewer than Fanout peers to forward to, the reader waits.
SelectPeersWaits(n, x) ==
  /\ at[<<n, x>>] = "select"
  /\ \E connected \in ConnectedSets(n) :
        \E best \in Best(Eligible(connected, Current(n, x))) :
           /\ todo' = [todo EXCEPT ![<<n, x>>] = best]
           /\ Goto(n, x, IF Cardinality(best) < Fanout THEN "select" ELSE "forward")
  /\ UNCHANGED <<messages, sending, chan, queue, seen, late, inbox, breaks, demoted>>

SelectPeers(n, x) ==
  /\ at[<<n, x>>] = "select"
  /\ \E connected \in ConnectedSets(n) :
        \E best \in Best(Eligible(connected, Current(n, x))) :
           /\ todo' = [todo EXCEPT ![<<n, x>>] = best]
           /\ Goto(n, x, IF best = {} THEN "show" ELSE "forward")
  /\ UNCHANGED <<messages, sending, chan, queue, seen, late, inbox, breaks, demoted>>

\* Deviation: the ttl is decremented on receipt and again on forwarding.
ForwardedTwice(n, p) == Copy(p.id, p.ttl - 2, p.path \cup {n})

\* prepare_for_forwarding; ttl is not 0 here, so it does not saturate.
Forwarded(n, p) == Copy(p.id, p.ttl - 1, p.path \cup {n})

ForwardTo(n, x, y) ==
  /\ at[<<n, x>>] = "forward"
  /\ y \in todo[<<n, x>>]
  /\ Enqueue(n, y, Forwarded(n, Current(n, x)))
  /\ todo' = [todo EXCEPT ![<<n, x>>] = @ \ {y}]
  /\ Goto(n, x, IF todo[<<n, x>>] = {y} THEN "show" ELSE "forward")
  /\ UNCHANGED <<messages, sending, chan, seen, late, inbox, breaks, demoted>>

\* The Data arm ends with an inbox entry of kind "data", whatever
\* handle_mesh_message decided.
Show(n, x) ==
  /\ at[<<n, x>>] = "show"
  /\ data'  = [data EXCEPT ![<<n, x>>][Current(n, x).id] = @ + 1]
  /\ queue' = [queue EXCEPT ![<<x, n>>] = Tail(@)]
  /\ Goto(n, x, "idle")
  /\ UNCHANGED <<messages, sending, chan, todo, seen, late, mesh, breaks, demoted>>

\* mark_message_delivered flags every inbox entry that has the message's id.
TakeAck(n, x) ==
  /\ at[<<n, x>>] = "idle"
  /\ queue[<<x, n>>] # <<>>
  /\ Current(n, x).kind = "ack"
  /\ confirmed' = confirmed \cup {Current(n, x).id}
  /\ queue' = [queue EXCEPT ![<<x, n>>] = Tail(@)]
  /\ UNCHANGED <<origin, target, sending, chan, at, todo, seen, late, inbox, breaks, demoted>>

-----------------------------------------------------------------------------
(* Time and failures.                                                      *)

\* The entry of m is 60 s old, or was removed by the cleanup of mark_seen.
WindowElapses(n, m) ==
  /\ m \in seen[n]
  /\ <<n, m>> \notin late
  /\ Cardinality(late) < MaxLate
  /\ late' = late \cup {<<n, m>>}
  /\ seen' = [seen EXCEPT ![n] = @ \ {m}]
  /\ UNCHANGED <<messages, sending, chan, queue, at, todo, inbox, breaks, demoted>>

\* n stops sending to x: of what it queued, some prefix gets through, which
\* includes the message x is working on.
Prefixes(n, x) ==
  {SubSeq(queue[<<n, x>>], 1, k) :
     k \in (IF at[<<x, n>>] \in Busy THEN 1 ELSE 0)..Len(queue[<<n, x>>])}

HalfOpen(n, x) == <<x, n>> \notin chan \/ at[<<x, n>>] = "off"

MoreFailures == breaks + Cardinality(demoted) < MaxBreaks

\* The writer task of n for x ends and removes the channel.
WriterEnds(n, x) ==
  /\ <<n, x>> \in chan
  /\ ~ChannelsLocked(n)
  /\ MoreFailures
  /\ breaks' = breaks + 1
  /\ chan' = chan \ {<<n, x>>}
  /\ \E rest \in Prefixes(n, x) : queue' = [queue EXCEPT ![<<n, x>>] = rest]
  /\ UNCHANGED <<messages, sending, at, todo, seen, late, inbox, demoted>>

\* The reader of n for x ends between two messages, and n closes its channel.
\* What x sent and n did not read is lost.
ReaderEnds(n, x) ==
  /\ at[<<n, x>>] = "idle"
  /\ ~ChannelsLocked(n)
  /\ \/ HalfOpen(n, x) /\ UNCHANGED breaks
     \/ ~HalfOpen(n, x) /\ MoreFailures /\ breaks' = breaks + 1
  /\ at'   = [at EXCEPT ![<<n, x>>] = "off"]
  /\ chan' = chan \ {<<n, x>>}
  /\ \E rest \in Prefixes(n, x) :
        queue' = [queue EXCEPT ![<<n, x>>] = rest, ![<<x, n>>] = <<>>]
  /\ UNCHANGED <<messages, sending, todo, seen, late, inbox, demoted>>

Reconnect(n, x) ==
  /\ at[<<n, x>>] = "off" /\ at[<<x, n>>] = "off"
  /\ ~ChannelsLocked(n) /\ ~ChannelsLocked(x)
  /\ at'    = [at EXCEPT ![<<n, x>>] = "idle", ![<<x, n>>] = "idle"]
  /\ chan'  = chan \cup {<<n, x>>, <<x, n>>}
  /\ demoted' = demoted \ {<<n, x>>, <<x, n>>}
  /\ UNCHANGED <<messages, sending, queue, todo, seen, late, inbox, breaks>>

\* Another attempt to connect with x, or the end of another connection with it,
\* takes x out of the state Connected in n's peer table: x is passed over until
\* a handshake with it succeeds (PeerConnection, MarkConnecting and the like).
Demote(n, x) ==
  /\ <<n, x>> \in chan \ demoted
  /\ MoreFailures
  /\ demoted' = demoted \cup {<<n, x>>}
  /\ UNCHANGED <<messages, sending, chan, queue, at, todo, seen, late, inbox, breaks>>

-----------------------------------------------------------------------------
Api ==
  \/ \E n \in Node, m \in Msg, to \in Node \cup {Broadcast} : Originate(n, m, to)
  \/ \E m \in Msg, x \in Node : SendTo(m, x)

Handle(n, x) ==
  \/ CheckSeen(n, x)
  \/ MarkSeen(n, x)
  \/ Deliver(n, x)
  \/ Acknowledge(n, x)
  \/ SelectPeers(n, x)
  \/ \E y \in Node : ForwardTo(n, x, y)
  \/ Show(n, x)
  \/ TakeAck(n, x)

Failure(n, x) ==
  \/ WriterEnds(n, x)
  \/ ReaderEnds(n, x)
  \/ Reconnect(n, x)
  \/ Demote(n, x)

Next ==
  \/ Api
  \/ \E e \in Link : Handle(e[1], e[2]) \/ Failure(e[1], e[2])
  \/ \E n \in Node, m \in Msg : WindowElapses(n, m)

Spec == Init /\ [][Next]_vars

\* Tasks that can run do run; send_mesh_message finishes what it started; a
\* reader whose peer is gone notices (end of stream, or the heartbeat).
Fairness ==
  /\ \A m \in Msg : WF_vars(\E x \in Node : SendTo(m, x))
  /\ \A e \in Link :
       /\ WF_vars(Handle(e[1], e[2]))
       /\ WF_vars(HalfOpen(e[1], e[2]) /\ ReaderEnds(e[1], e[2]))

FairSpec == Spec /\ Fairness

-----------------------------------------------------------------------------
(* Safety.                                                                 *)

\* No copy goes back to its origin or to a node it passed through; a copy
\* passed through as many nodes as its ttl lost, the last of them the one
\* that sent it.  So no copy makes more than DefaultTtl hops, and none makes
\* a loop, whatever the duplicate tables forgot (router.rs 336, 363, 451).
NoLoops ==
  \A e \in Link : \A i \in 1..Len(queue[e]) :
     LET p == queue[e][i] IN
     p.kind = "data" =>
        /\ e[2] # origin[p.id] /\ e[2] \notin p.path
        /\ IF p.path = {} THEN e[1] = origin[p.id] ELSE e[1] \in p.path
        /\ p.ttl + Cardinality(p.path) = DefaultTtl

\* Between two expiries of its duplicate-table entry, a node delivers a
\* message to its inbox at most once per peer that sends it copies: the check
\* and the mark are separate, but one reader cannot overtake itself.
CopiesPerPeer ==
  \A e \in Link, m \in Msg :
     mesh[e][m] <= IF <<e[1], m>> \in late THEN 2 ELSE 1

\* A message addressed to one node leaves no trace in the inbox of another:
\* it is sent to its addressee only, which does not forward it.
DirectedStaysPrivate ==
  \A e \in Link, m \in Msg :
     target[m] \in Node \ {e[1]} => mesh[e][m] = 0 /\ data[e][m] = 0

Delivery == INSTANCE MeshDelivery WITH received <-
  {r \in Node \X Msg : \E e \in Link : e[1] = r[1] /\ mesh[e][r[2]] > 0}

\* What a sender and a receiver may rely on: nothing is received that was not
\* sent to the receiver by another node, and a message is flagged delivered
\* only after its addressee's inbox has it.
DeliversWhatWasSent == Delivery!Spec

-----------------------------------------------------------------------------
(* Reach of a broadcast.                                                   *)

InFlight(m) ==
  \/ sending[m] # {}
  \/ \E e \in Link : \E i \in 1..Len(queue[e]) : queue[e][i].id = m

Has(n, m) == n = origin[m] \/ \E x \in Neighbours(n) : mesh[<<n, x>>][m] > 0

\* No connection broke, and no duplicate-table entry expired.
Calm == breaks = 0 /\ late = {}

\* Every node can forward to all its peers but the one a copy came from, and
\* no way without a loop has more hops than the ttl allows.
WideEnough ==
  /\ IsFiniteSet(Node) /\ Cardinality(Node) <= DefaultTtl + 1
  /\ \A n \in Node : Cardinality(Neighbours(n)) <= Fanout + 1

\* While connections stay up, a broadcast whose flood has ended left no neighbour
\* of a node it reached out, however its copies raced: a node forwards only the
\* first copy it sees, which may have come the longer way and have the lower ttl
\* (router.rs 319, 336, 451).  But a node misses those neighbours that another
\* attempt to connect took out of the state Connected, and no others.
NobodyMissed ==
  WideEnough /\ Calm =>
     \A m \in Msg : target[m] = Broadcast /\ ~InFlight(m) =>
        \A e \in Link : Has(e[1], m) => Has(e[2], m) \/ e \in demoted

-----------------------------------------------------------------------------
(* Liveness, under FairSpec.                                               *)

\* The flood of every message comes to an end.
FloodEnds == \A m \in Msg : origin[m] # None ~> ~InFlight(m)

\* Unless a connection breaks, a peer is demoted or a duplicate-table entry
\* expires meanwhile, a broadcast reaches every node; it follows from FloodEnds
\* and NobodyMissed in a connected network that is wide enough.
BroadcastReachesAll ==
  \A m \in Msg : target[m] = Broadcast ~> ~Calm \/ demoted # {} \/ \A n \in Node : Has(n, m)

-----------------------------------------------------------------------------
(* What the protocol document says, and the code does not do.              *)

\* PROTOCOL.md 4.2: a message seen within the past 60 s is dropped, so that
\* no two peers' copies of it are both delivered.
HandledOnce ==
  \A d, e \in Link, m \in Msg :
     d[1] = e[1] /\ mesh[d][m] > 0 /\ mesh[e][m] > 0 /\ <<d[1], m>> \notin late
        => d = e

=============================================================================
