------------------------------ MODULE Messenger ------------------------------
(***************************************************************************)
(* The messenger API of one node (messenger_api.rs) and what it shows a    *)
(* client: the list of conversations, the history of one of them, polled   *)
(* with a cursor, and the stream of events (sse_resp), a broadcast channel *)
(* that keeps the last EventCap events for slow receivers.                 *)
(*                                                                         *)
(* Tasks append to the inbox and announce, each under a lock of its own    *)
(* (push_inbox, mark_message_delivered; module Inbox has the rest of what  *)
(* they do).  A client shows the conversation it opened, and every message *)
(* as it was told of it last.  Letter are the ids of messages this node    *)
(* sends to a peer, which are acknowledged; all others have NoLetter.      *)
(***************************************************************************)
EXTENDS Integers, Sequences, FiniteSets

CONSTANTS
  Pusher,     \* tasks that append or take acknowledgements
  Viewer,     \* clients
  Chat,       \* conversations with another node; broadcasts are left out
  NoChat,
  Letter,
  NoLetter,
  InboxCap,   \* INBOX_MAX_MESSAGES
  PageLimit,  \* `limit` of a client's requests
  EventCap,   \* capacity of ws_event_tx, 256
  MaxNumber,  \* bound: entries appended
  MaxEvents   \* bound: acknowledgements and peers are no longer announced then

ASSUME MessengerAssumption ==
  /\ NoChat \notin Chat /\ NoLetter \notin Letter
  /\ InboxCap \in Nat \ {0} /\ PageLimit \in 1..InboxCap /\ EventCap \in Nat \ {0}
  /\ MaxNumber \in Nat /\ MaxEvents \in Nat

VARIABLES
  numbered,   \* the last number given out
  log,        \* Node::inbox
  push,       \* where a task is, and the entry or the id it has in hand
  posted,     \* ids that were given out
  mailed,     \* ids of messages that were sent: acknowledgements may come in
  events,     \* what was sent into ws_event_tx
  opened,     \* the conversation a client shows
  since,      \* its cursor
  view,       \* numbers of the messages it shows
  ticked,     \* ids of those it shows as delivered
  live,       \* clients with a stream of events
  readAt,     \* where its stream is
  synced,     \* clients that asked for the history since their stream began
  late,       \* history: numbers appended behind a greater one
  omitted,    \* history: numbers left out by the limit of an answer
  skippedNew, \* history: numbers of the events lost since the last history
  skippedTick \* history: ids of the delivery events lost

pushVars == <<numbered, log, push, posted, mailed, late>>
viewVars == <<opened, since, view, ticked, live, readAt, synced, omitted,
              skippedNew, skippedTick>>
messengerVars == <<pushVars, events, viewVars>>

Number  == 1..MaxNumber
ChatEntry == [seq : Number, chat : Chat, id : Letter \cup {NoLetter}, delivered : BOOLEAN]
Event   == [type : {"new"}, entry : ChatEntry] \cup [type : {"delivered"}, id : Letter]
             \cup [type : {"peer"}]
Pushing == [at : {"append", "publish"}, entry : ChatEntry]
             \cup [at : {"announce"}, id : Letter] \cup [at : {"idle"}]

MessengerTypeOK ==
  /\ numbered \in 0..MaxNumber
  /\ log \in Seq(ChatEntry) /\ Len(log) <= InboxCap
  /\ push \in [Pusher -> Pushing]
  /\ mailed \subseteq posted /\ posted \subseteq Letter
  /\ events \in Seq(Event)
  /\ opened \in [Viewer -> Chat \cup {NoChat}]
  /\ since \in [Viewer -> 0..MaxNumber]
  /\ {view, omitted, skippedNew} \subseteq [Viewer -> SUBSET Number]
  /\ {ticked, skippedTick} \subseteq [Viewer -> SUBSET Letter]
  /\ live \subseteq Viewer /\ synced \subseteq live
  /\ \A v \in Viewer : readAt[v] \in 1..(Len(events) + 1)
  /\ late \subseteq Number

MessengerInit ==
  /\ numbered = 0
  /\ log = <<>>
  /\ push = [t \in Pusher |-> [at |-> "idle"]]
  /\ posted = {} /\ mailed = {}
  /\ events = <<>>
  /\ opened = [v \in Viewer |-> NoChat]
  /\ since = [v \in Viewer |-> 0]
  /\ view = [v \in Viewer |-> {}] /\ ticked = [v \in Viewer |-> {}]
  /\ live = {} /\ synced = {}
  /\ readAt = [v \in Viewer |-> 1]
  /\ late = {}
  /\ omitted = [v \in Viewer |-> {}]
  /\ skippedNew = [v \in Viewer |-> {}] /\ skippedTick = [v \in Viewer |-> {}]

-----------------------------------------------------------------------------
(* Tasks of the node.                                                      *)

\* push_inbox takes the next number.
TakeNumber(t, chat, m) ==
  /\ push[t].at = "idle"
  /\ numbered < MaxNumber
  /\ numbered' = numbered + 1
  /\ push' = [push EXCEPT ![t] = [at |-> "append",
        entry |-> [seq |-> numbered + 1, chat |-> chat, id |-> m, delivered |-> FALSE]]]
  /\ posted' = posted \cup (Letter \cap {m})
  /\ UNCHANGED <<log, mailed, events, late, viewVars>>

\* A message from a peer.
TakeIn(t, chat) == TakeNumber(t, chat, NoLetter)

\* post_send to a peer.
PostSend(t, chat, m) == m \notin posted /\ TakeNumber(t, chat, m)

\* Every number given out and appended so far is smaller than s.
InOrder(s) ==
  \A n \in (s + 1)..numbered :
     \E u \in Pusher : push[u].at = "append" /\ push[u].entry.seq = n

AppendToLog(t) ==
  /\ push[t].at = "append"
  /\ LET e   == push[t].entry
         all == Append(log, e)
     IN  /\ log'  = IF Len(all) > InboxCap THEN Tail(all) ELSE all
         /\ late' = IF InOrder(e.seq) THEN late ELSE late \cup {e.seq}
  /\ push' = [push EXCEPT ![t].at = "publish"]
  /\ UNCHANGED <<numbered, posted, mailed, events, viewVars>>

\* The event carries the copy made before the append.  push_inbox returns, and
\* send_mesh_message goes on to send the message.
PublishNew(t) ==
  /\ push[t].at = "publish"
  /\ events' = Append(events, [type |-> "new", entry |-> push[t].entry])
  /\ mailed' = mailed \cup (Letter \cap {push[t].entry.id})
  /\ push'   = [push EXCEPT ![t] = [at |-> "idle"]]
  /\ UNCHANGED <<numbered, log, posted, late, viewVars>>

\* mark_message_delivered: the flag.
FlagDelivered(t, m) ==
  /\ push[t].at = "idle"
  /\ m \in mailed
  /\ Len(events) < MaxEvents
  /\ log' = [i \in DOMAIN log |-> IF log[i].id = m
                                  THEN [log[i] EXCEPT !.delivered = TRUE] ELSE log[i]]
  /\ push' = [push EXCEPT ![t] = [at |-> "announce", id |-> m]]
  /\ UNCHANGED <<numbered, posted, mailed, events, late, viewVars>>

\* mark_message_delivered: the event.
AnnounceDelivered(t) ==
  /\ push[t].at = "announce"
  /\ events' = Append(events, [type |-> "delivered", id |-> push[t].id])
  /\ push'   = [push EXCEPT ![t] = [at |-> "idle"]]
  /\ UNCHANGED <<numbered, log, posted, mailed, late, viewVars>>

\* PeerConnected, PeerDisconnected.
AnnouncePeer ==
  /\ Len(events) < MaxEvents
  /\ events' = Append(events, [type |-> "peer"])
  /\ UNCHANGED <<pushVars, viewVars>>

-----------------------------------------------------------------------------
(* Clients.                                                                *)

\* get_conversations: those with an entry in the inbox.
Conversations == {log[i].chat : i \in DOMAIN log}

OpenChat(v, chat) ==
  /\ opened[v] = NoChat
  /\ chat \in Conversations
  /\ opened' = [opened EXCEPT ![v] = chat]
  /\ UNCHANGED <<pushVars, events, since, view, ticked, live, readAt, synced, omitted,
                 skippedNew, skippedTick>>

\* get_conversation_history: positions of what the client asks for, and of what
\* it gets of it.
Asked(v) == {i \in DOMAIN log : log[i].chat = opened[v] /\ log[i].seq > since[v]}
Page(v)  == {i \in Asked(v) : Cardinality({j \in Asked(v) : j > i}) < PageLimit}

NextCursor(v) ==
  IF Page(v) = {} THEN since[v]
  ELSE log[CHOOSE i \in Page(v) : \A j \in Page(v) : j <= i].seq

NumbersAt(S) == {log[i].seq : i \in S}

ReadHistory(v) ==
  LET ids == {log[i].id : i \in Page(v)} IN
  /\ opened[v] # NoChat
  /\ since'  = [since EXCEPT ![v] = NextCursor(v)]
  /\ view'   = [view EXCEPT ![v] = @ \cup NumbersAt(Page(v))]
  /\ omitted'    = [omitted EXCEPT ![v] = @ \cup (NumbersAt(Asked(v)) \ NumbersAt(Page(v)))]
  /\ ticked' = [ticked EXCEPT ![v] = (@ \ ids) \cup
                  {log[i].id : i \in {j \in Page(v) : log[j].delivered}}]
  /\ synced' = synced \cup (live \cap {v})
  /\ skippedNew' = [skippedNew EXCEPT ![v] = {}]
  /\ UNCHANGED <<pushVars, events, opened, live, readAt, skippedTick>>

NewAmong(I)  == {events[i].entry.seq : i \in {j \in I : events[j].type = "new"}}
TickAmong(I) == {events[i].id : i \in {j \in I : events[j].type = "delivered"}}

\* get_sse: the stream begins with the next event.
Subscribe(v) ==
  /\ v \notin live
  /\ live'   = live \cup {v}
  /\ readAt' = [readAt EXCEPT ![v] = Len(events) + 1]
  /\ skippedTick' = [skippedTick EXCEPT ![v] = @ \cup TickAmong(readAt[v]..Len(events))]
  /\ UNCHANGED <<pushVars, events, opened, since, view, ticked, synced, omitted, skippedNew>>

\* The connection ends.
Unsubscribe(v) ==
  /\ v \in live
  /\ live'   = live \ {v}
  /\ synced' = synced \ {v}
  /\ UNCHANGED <<pushVars, events, opened, since, view, ticked, readAt, omitted,
                 skippedNew, skippedTick>>

\* The oldest event that the channel still has.
Oldest == IF Len(events) > EventCap THEN Len(events) - EventCap + 1 ELSE 1

\* Deviation: a receiver that lagged goes on with the newest event.
ResumeAtNewest(v) == IF readAt[v] < Oldest THEN Len(events) ELSE readAt[v]

\* A receiver that lagged goes on with the oldest event there is.
Resume(v) == IF readAt[v] < Oldest THEN Oldest ELSE readAt[v]

\* The client shows what an event tells of the conversation it opened.
Show(v, event) ==
  CASE event.type = "new" /\ event.entry.chat = opened[v] ->
         /\ view'   = [view EXCEPT ![v] = @ \cup {event.entry.seq}]
         /\ ticked' = [ticked EXCEPT ![v] = @ \ {event.entry.id}]
    [] event.type = "delivered" ->
         /\ ticked' = [ticked EXCEPT ![v] = @ \cup {event.id}]
         /\ UNCHANGED view
    [] OTHER -> UNCHANGED <<view, ticked>>

\* sse_resp: the next event; `Lagged` skips those the channel no longer has.
ReceiveEvent(v) ==
  /\ v \in live
  /\ readAt[v] <= Len(events)
  /\ Show(v, events[Resume(v)])
  /\ readAt' = [readAt EXCEPT ![v] = Resume(v) + 1]
  /\ LET gone == readAt[v]..(Oldest - 1) IN
     /\ skippedNew'  = [skippedNew EXCEPT ![v] = @ \cup NewAmong(gone)]
     /\ skippedTick' = [skippedTick EXCEPT ![v] = @ \cup TickAmong(gone)]
  /\ UNCHANGED <<pushVars, events, opened, since, live, synced, omitted>>

MessengerNext ==
  \/ \E t \in Pusher :
       \/ \E chat \in Chat : TakeIn(t, chat) \/ \E m \in Letter : PostSend(t, chat, m)
       \/ AppendToLog(t) \/ PublishNew(t) \/ AnnounceDelivered(t)
       \/ \E m \in Letter : FlagDelivered(t, m)
  \/ AnnouncePeer
  \/ \E v \in Viewer :
       \/ \E chat \in Chat : OpenChat(v, chat)
       \/ ReadHistory(v) \/ Subscribe(v) \/ Unsubscribe(v) \/ ReceiveEvent(v)

MessengerSpec == MessengerInit /\ [][MessengerNext]_messengerVars

-----------------------------------------------------------------------------

\* What is still ahead of a client in its stream.
Ahead(v) == readAt[v]..Len(events)

\* A client that asked for the history after its stream began has, or has yet
\* to receive, every message of the conversation in the inbox; what it has not
\* was left out by the limit, appended behind a greater number, or lost by lag.
NoneBetween(v, e) ==
  \/ e.seq \in view[v] \cup omitted[v] \cup late \cup skippedNew[v]
  \/ \E t \in Pusher : push[t].at = "publish" /\ push[t].entry.seq = e.seq
  \/ e.seq \in NewAmong(Ahead(v))

\* A message that it shows and that was delivered is shown as delivered, or the
\* event that says so is still to come or was lost by lag or before the stream
\* began: no later event takes the mark away again.
TickStays(v, e) ==
  (e.seq \in view[v] /\ e.delivered) =>
     \/ e.id \in ticked[v] \cup skippedTick[v]
     \/ \E t \in Pusher : push[t].at = "announce" /\ push[t].id = e.id
     \/ e.id \in TickAmong(Ahead(v))

\* The history and the stream together leave no gap, and the event of a message
\* comes before that of its delivery, though history, stream, appends and
\* acknowledgements are steps of different tasks (push_inbox,
\* mark_message_delivered, sse_resp, get_conversation_history).
ViewExplained ==
  \A v \in synced : \A i \in DOMAIN log :
     log[i].chat = opened[v] => NoneBetween(v, log[i]) /\ TickStays(v, log[i])

=============================================================================
