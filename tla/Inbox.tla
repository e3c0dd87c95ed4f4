-------------------------------- MODULE Inbox --------------------------------
(***************************************************************************)
(* The inbox of one node, which is its outbox too: push_inbox, list_inbox, *)
(* watch_inbox, mark_message_delivered and the import and export of        *)
(* bundles (node.rs), and the message database (message_store.rs).         *)
(*                                                                         *)
(* A task is any task that appends: a reader with an incoming message, an  *)
(* API task that sends or imports.  push_inbox takes a number, appends,    *)
(* saves and notifies, each a step of its own.  A client polls with the    *)
(* cursor that the last answer gave it and keeps it when the node          *)
(* restarts, as the Python client does.                                    *)
(*                                                                         *)
(* Msg are the ids of messages this node sends to one other node: only     *)
(* those are ever acknowledged.  All other entries have the id None, and   *)
(* their records in the database are left out.  A record is named by the   *)
(* timestamp of its message, for which the id stands, and the number.      *)
(* `own` tells the entries made here from those a bundle brought.          *)
(***************************************************************************)
EXTENDS Integers, Sequences, FiniteSets

CONSTANTS
  Task,
  Client,
  Msg,
  None,
  Capacity,    \* INBOX_MAX_MESSAGES, 500
  Limit,       \* `limit` of the clients' requests and of an export
  MaxSeq,      \* bound: numbers taken between two restarts
  MaxRestarts  \* bound: restarts of the node

ASSUME InboxAssumption ==
  /\ None \notin Msg
  /\ Capacity \in Nat \ {0}
  /\ Limit \in 1..Capacity
  /\ MaxSeq \in Nat
  /\ MaxRestarts \in Nat

VARIABLES
  next,      \* inbox_next_seq
  inbox,     \* the entries in memory, oldest first
  db,        \* records of messages.db for Msg
  pc,        \* where a task is
  todo,      \* messages the task still has to append
  entry,     \* the entry the task is appending, or the id it was acknowledged
  used,      \* ids send_mesh_message has given out
  sent,      \* ids of messages that were sent: acknowledgements may come in
  bundle,    \* the entries of an exported bundle
  cpc,       \* where a client's request is
  cursor,    \* `since` of a client's next request
  woken,     \* waiting clients that were notified
  restarts,
  shown,     \* numbers a client was shown since the last restart
  again,     \* those of them it was shown more than once
  skipped,   \* numbers cut off by the limit of an answer
  ahead,     \* the client's cursor at the last restart
  highest,   \* the greatest number appended since the last restart
  overtaken  \* numbers appended behind a greater one

tasks   == <<pc, todo, entry, used, sent>>
clients == <<cpc, cursor, woken>>
history == <<shown, again, skipped, ahead, highest, overtaken>>
vars    == <<next, inbox, db, tasks, bundle, clients, restarts, history>>

Seqs    == 1..MaxSeq
Item    == [id : Msg \cup {None}, own : BOOLEAN, delivered : BOOLEAN]
Entry   == [seq : Seqs, id : Msg \cup {None}, own : BOOLEAN, delivered : BOOLEAN]
Record  == [seq : Seqs, id : Msg, delivered : BOOLEAN]
Numbers == {inbox[i].seq : i \in DOMAIN inbox}

TypeOK ==
  /\ next      \in 1..(MaxSeq + 1)
  /\ inbox     \in Seq(Entry) /\ Len(inbox) <= Capacity
  /\ db        \subseteq Record
  /\ pc        \in [Task -> {"idle", "seq", "append", "save", "notify", "persist"}]
  /\ todo      \in [Task -> Seq(Item)]
  /\ entry     \in [Task -> Entry \cup Msg \cup {None}]
  /\ used      \subseteq Msg
  /\ sent      \subseteq used
  /\ bundle    \in Seq(Item)
  /\ cpc       \in [Client -> {"idle", "register", "waiting"}]
  /\ cursor    \in [Client -> 0..MaxSeq]
  /\ woken     \subseteq Client
  /\ restarts  \in 0..MaxRestarts
  /\ shown     \in [Client -> SUBSET Seqs]
  /\ again     \in [Client -> SUBSET Seqs]
  /\ skipped   \in [Client -> SUBSET Seqs]
  /\ ahead     \in [Client -> 0..MaxSeq]
  /\ highest   \in 0..MaxSeq
  /\ overtaken \subseteq Seqs

Init ==
  /\ next      = 1
  /\ inbox     = <<>>
  /\ db        = {}
  /\ pc        = [t \in Task |-> "idle"]
  /\ todo      = [t \in Task |-> <<>>]
  /\ entry     = [t \in Task |-> None]
  /\ used      = {}
  /\ sent      = {}
  /\ bundle    = <<>>
  /\ cpc       = [c \in Client |-> "idle"]
  /\ cursor    = [c \in Client |-> 0]
  /\ woken     = {}
  /\ restarts  = 0
  /\ shown     = [c \in Client |-> {}]
  /\ again     = [c \in Client |-> {}]
  /\ skipped   = [c \in Client |-> {}]
  /\ ahead     = [c \in Client |-> 0]
  /\ highest   = 0
  /\ overtaken = {}

-----------------------------------------------------------------------------
(* Callers of push_inbox.                                                  *)

Goto(t, l) == pc' = [pc EXCEPT ![t] = l]

Begin(t, items) ==
  /\ pc[t] = "idle"
  /\ Goto(t, "seq")
  /\ todo' = [todo EXCEPT ![t] = items]
  /\ UNCHANGED <<next, inbox, db, entry, sent, bundle, clients, restarts, history>>

\* An incoming message, of kind "mesh" or "data", or a broadcast of our own.
Receive(t) ==
  /\ Begin(t, <<[id |-> None, own |-> TRUE, delivered |-> FALSE]>>)
  /\ UNCHANGED used

\* send_mesh_message appends to the outbox before it sends.
SendMessage(t, m) ==
  /\ m \notin used
  /\ used' = used \cup {m}
  /\ Begin(t, <<[id |-> m, own |-> TRUE, delivered |-> FALSE]>>)

\* import_bundle appends every message of the bundle as it is.
ImportBundle(t) ==
  /\ bundle # <<>>
  /\ Begin(t, bundle)
  /\ UNCHANGED used

-----------------------------------------------------------------------------
(* push_inbox.                                                             *)

\* Deviation: the number after the last entry's, without a counter.
TakeSeqFromInbox(t) ==
  /\ pc[t] = "seq"
  /\ next <= MaxSeq
  /\ next' = next + 1
  /\ LET last == IF inbox = <<>> THEN 0 ELSE inbox[Len(inbox)].seq
         item == Head(todo[t])
     IN  entry' = [entry EXCEPT ![t] =
            [seq |-> last + 1, id |-> item.id, own |-> item.own,
             delivered |-> item.delivered]]
  /\ todo' = [todo EXCEPT ![t] = Tail(@)]
  /\ Goto(t, "append")
  /\ UNCHANGED <<inbox, db, used, sent, bundle, clients, restarts, history>>

\* The number is taken and the counter incremented under one lock.
TakeSeq(t) ==
  /\ pc[t] = "seq"
  /\ next <= MaxSeq
  /\ next' = next + 1
  /\ LET item == Head(todo[t])
     IN  entry' = [entry EXCEPT ![t] =
            [seq |-> next, id |-> item.id, own |-> item.own,
             delivered |-> item.delivered]]
  /\ todo' = [todo EXCEPT ![t] = Tail(@)]
  /\ Goto(t, "append")
  /\ UNCHANGED <<inbox, db, used, sent, bundle, clients, restarts, history>>

\* The last n elements of a sequence that is longer than that.
Newest(s, n) == IF Len(s) <= n THEN s ELSE SubSeq(s, Len(s) - n + 1, Len(s))

NoteOrder(seq) ==
  /\ highest'   = IF seq > highest THEN seq ELSE highest
  /\ overtaken' = IF seq < highest THEN overtaken \cup {seq} ELSE overtaken

\* Deviation: nothing is evicted.
AppendWithoutEviction(t) ==
  /\ pc[t] = "append"
  /\ inbox' = Append(inbox, entry[t])
  /\ NoteOrder(entry[t].seq)
  /\ Goto(t, "save")
  /\ UNCHANGED <<next, db, todo, entry, used, sent, bundle, clients, restarts,
                 shown, again, skipped, ahead>>

\* Deviation: send_mesh_message does not wait for its entry to be saved.
AppendAndSend(t) ==
  /\ pc[t] = "append"
  /\ inbox' = Newest(Append(inbox, entry[t]), Capacity)
  /\ NoteOrder(entry[t].seq)
  /\ sent' = sent \cup {m \in Msg : entry[t].own /\ entry[t].id = m}
  /\ Goto(t, "save")
  /\ UNCHANGED <<next, db, todo, entry, used, bundle, clients, restarts,
                 shown, again, skipped, ahead>>

\* Appended under another lock; the oldest entries are evicted.
AppendEntry(t) ==
  /\ pc[t] = "append"
  /\ inbox' = Newest(Append(inbox, entry[t]), Capacity)
  /\ NoteOrder(entry[t].seq)
  /\ Goto(t, "save")
  /\ UNCHANGED <<next, db, todo, entry, used, sent, bundle, clients, restarts,
                 shown, again, skipped, ahead>>

\* MessageStore::save of the copy made before the append.
Save(t) ==
  /\ pc[t] = "save"
  /\ LET e == entry[t] IN
     db' = IF e.id = None THEN db
           ELSE {r \in db : r.id # e.id \/ r.seq # e.seq}
                  \cup {[seq |-> e.seq, id |-> e.id, delivered |-> e.delivered]}
  /\ Goto(t, "notify")
  /\ UNCHANGED <<next, inbox, todo, entry, used, sent, bundle, clients, restarts, history>>

\* notify_waiters wakes the clients that wait, and leaves nothing for others.
\* send_mesh_message goes on to send the message.
NotifyWaiters(t) ==
  /\ pc[t] = "notify"
  /\ woken' = woken \cup {c \in Client : cpc[c] = "waiting"}
  /\ sent'  = sent \cup {m \in Msg : entry[t].own /\ entry[t].id = m}
  /\ entry' = [entry EXCEPT ![t] = None]
  /\ Goto(t, IF todo[t] = <<>> THEN "idle" ELSE "seq")
  /\ UNCHANGED <<next, inbox, db, todo, used, bundle, cpc, cursor, restarts, history>>

-----------------------------------------------------------------------------
(* mark_message_delivered.                                                 *)

\* A reader takes a MessageAck: every entry with the id is flagged.
TakeAck(t, m) ==
  /\ pc[t] = "idle"
  /\ m \in sent
  /\ inbox' = [i \in DOMAIN inbox |->
                 IF inbox[i].id = m THEN [inbox[i] EXCEPT !.delivered = TRUE] ELSE inbox[i]]
  /\ entry' = [entry EXCEPT ![t] = m]
  /\ Goto(t, "persist")
  /\ UNCHANGED <<next, db, todo, used, sent, bundle, clients, restarts, history>>

\* update_delivered flags the first record with the id in the order of the
\* keys, which are strings: that is any of them.
PersistAck(t) ==
  /\ pc[t] = "persist"
  /\ LET matching == {r \in db : r.id = entry[t]} IN
     IF matching = {} THEN UNCHANGED db
     ELSE \E r \in matching : db' = (db \ {r}) \cup {[r EXCEPT !.delivered = TRUE]}
  /\ entry' = [entry EXCEPT ![t] = None]
  /\ Goto(t, "idle")
  /\ UNCHANGED <<next, inbox, todo, used, sent, bundle, clients, restarts, history>>

-----------------------------------------------------------------------------
(* list_inbox and watch_inbox.                                             *)

\* Deviation: `>=` for `>`.
NewerOrSame(since) == {i \in DOMAIN inbox : inbox[i].seq >= since}

\* The positions of the entries a request with this cursor asks for.
Newer(since) == {i \in DOMAIN inbox : inbox[i].seq > since}

\* Of these positions, the last `Limit`.
LastOf(S) == {i \in S : Cardinality({j \in S : j > i}) < Limit}

SeqsAt(S) == {inbox[i].seq : i \in S}

\* Deviation: the next cursor is the last number given out.
NextSinceOfCounter(since) == IF inbox = <<>> THEN since ELSE next - 1

\* The last entry's number, whatever was returned.
NextSince(since) == IF inbox = <<>> THEN since ELSE inbox[Len(inbox)].seq

\* list_inbox under the read lock, and the client taking its answer.
Answer(c) ==
  LET out    == Newer(cursor[c])
      answer == SeqsAt(LastOf(out))
  IN  /\ cursor'  = [cursor EXCEPT ![c] = NextSince(@)]
      /\ shown'   = [shown EXCEPT ![c] = @ \cup answer]
      /\ again'   = [again EXCEPT ![c] = @ \cup (shown[c] \cap answer)]
      /\ skipped' = [skipped EXCEPT ![c] = @ \cup (SeqsAt(out) \ answer)]
      /\ cpc'     = [cpc EXCEPT ![c] = "idle"]
      /\ woken'   = woken \ {c}
      /\ UNCHANGED <<next, inbox, db, tasks, bundle, restarts, ahead, highest, overtaken>>

\* The fast path of watch_inbox: there are newer entries.
WatchFindsNewer(c) ==
  /\ cpc[c] = "idle"
  /\ Newer(cursor[c]) # {}
  /\ Answer(c)

WatchFindsNothing(c) ==
  /\ cpc[c] = "idle"
  /\ Newer(cursor[c]) = {}
  /\ cpc' = [cpc EXCEPT ![c] = "register"]
  /\ UNCHANGED <<next, inbox, db, tasks, bundle, cursor, woken, restarts, history>>

\* `notified()`: only notifications from here on wake the client.
Register(c) ==
  /\ cpc[c] = "register"
  /\ cpc' = [cpc EXCEPT ![c] = "waiting"]
  /\ UNCHANGED <<next, inbox, db, tasks, bundle, cursor, woken, restarts, history>>

WatchWakes(c) ==
  /\ cpc[c] = "waiting"
  /\ c \in woken
  /\ Answer(c)

\* Deviation: no timeout around the wait.
WatchNeverTimesOut(c) == FALSE /\ Answer(c)

WatchTimesOut(c) ==
  /\ cpc[c] = "waiting"
  /\ Answer(c)

\* The client's own timeout is over first (5 s in the Python client, which
\* asks for 20 s), or its connection fails: it asks again with the same cursor.
GiveUp(c) ==
  /\ cpc[c] # "idle"
  /\ cpc' = [cpc EXCEPT ![c] = "idle"]
  /\ woken' = woken \ {c}
  /\ UNCHANGED <<next, inbox, db, tasks, bundle, cursor, restarts, history>>

-----------------------------------------------------------------------------
(* Bundles and restarts.                                                   *)

\* MessageBundle::new: the entries without their numbers, which the import
\* replaces.
Bundle(entries) ==
  [i \in DOMAIN entries |-> [id |-> entries[i].id, own |-> FALSE,
                             delivered |-> entries[i].delivered]]

\* export_bundle: the newest entries.
ExportBundle ==
  /\ bundle' = Bundle(Newest(inbox, Limit))
  /\ UNCHANGED <<next, inbox, db, tasks, clients, restarts, history>>

\* MessageBundle::load refuses the bundle from now on: its time is over, or the
\* node ended while the file was written.
BundleUnusable ==
  /\ bundle # <<>>
  /\ bundle' = <<>>
  /\ UNCHANGED <<next, inbox, db, tasks, clients, restarts, history>>

\* The node is started again (Node::new): numbers start at 1, the inbox is
\* empty, the database is as it was, and clients keep their cursors.
Restart ==
  /\ restarts < MaxRestarts
  /\ restarts'  = restarts + 1
  /\ next'      = 1
  /\ inbox'     = <<>>
  /\ pc'        = [t \in Task |-> "idle"]
  /\ todo'      = [t \in Task |-> <<>>]
  /\ entry'     = [t \in Task |-> None]
  /\ cpc'       = [c \in Client |-> "idle"]
  /\ woken'     = {}
  /\ shown'     = [c \in Client |-> {}]
  /\ again'     = [c \in Client |-> {}]
  /\ skipped'   = [c \in Client |-> {}]
  /\ ahead'     = cursor
  /\ highest'   = 0
  /\ overtaken' = {}
  /\ UNCHANGED <<db, used, sent, bundle, cursor>>

-----------------------------------------------------------------------------
Push(t) ==
  \/ TakeSeq(t)
  \/ AppendEntry(t)
  \/ Save(t)
  \/ NotifyWaiters(t)
  \/ PersistAck(t)

Caller(t) ==
  \/ Receive(t)
  \/ \E m \in Msg : SendMessage(t, m)
  \/ ImportBundle(t)
  \/ \E m \in Msg : TakeAck(t, m)

Watch(c) ==
  \/ WatchFindsNewer(c)
  \/ WatchFindsNothing(c)
  \/ Register(c)
  \/ WatchWakes(c)
  \/ WatchTimesOut(c)

Next ==
  \/ \E t \in Task : Push(t) \/ Caller(t)
  \/ \E c \in Client : Watch(c) \/ GiveUp(c)
  \/ ExportBundle
  \/ BundleUnusable
  \/ Restart

Spec == Init /\ [][Next]_vars

\* push_inbox goes on once it is called; a client polls again and again, and
\* its request is answered within its timeout.
Fairness ==
  /\ \A t \in Task : WF_vars(Push(t))
  /\ \A c \in Client : WF_vars(Watch(c)) /\ WF_vars(WatchTimesOut(c))

FairSpec == Spec /\ Fairness

-----------------------------------------------------------------------------
(* Safety.                                                                 *)

\* Clients name entries by their numbers: no two entries in memory share one,
\* however many tasks append (node.rs 274-281).
SeqIdentifies ==
  \A i, j \in DOMAIN inbox : inbox[i].seq = inbox[j].seq => i = j

\* An entry at or below a client's cursor that the client was not shown is
\* explained: it was appended behind a greater number, it was cut off by the
\* limit, or the cursor is from before a restart (node.rs 303-315).
MissedExplained ==
  \A c \in Client, s \in Numbers :
     s <= cursor[c] =>
        \/ s \in shown[c] \cup skipped[c] \cup overtaken
        \/ s <= ahead[c]

\* A client is shown an entry twice only after its cursor went back to an
\* entry that was appended late.
ShownTwiceExplained ==
  \A c \in Client : \A s \in again[c] : \E o \in overtaken : o < s

\* When the acknowledgement of a message this node sent has been handled, the
\* database knows it, although memory and database are written by different
\* tasks without a common lock: the record was saved before the message was
\* sent (node.rs 290, 437-452, 2474-2517).
DeliveredPersisted ==
  \A i \in DOMAIN inbox :
     LET e == inbox[i] IN
     e.own /\ e.delivered /\ (\A t \in Task : pc[t] = "persist" => entry[t] # e.id)
        => \E r \in db : r.id = e.id /\ r.delivered

-----------------------------------------------------------------------------
(* Liveness, under FairSpec.                                               *)

\* A client that keeps watching gets past every entry, shown or explained
\* (MissedExplained), unless the entry is evicted first or the node restarts.
\* A notification lost between the look and the wait costs no more than the
\* timeout.
EntryIsPassed ==
  \A c \in Client, s \in Seqs :
     s \in Numbers ~> (s \in shown[c] \/ cursor[c] >= s \/ s \notin Numbers)

=============================================================================
