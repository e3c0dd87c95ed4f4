---------------------------- MODULE InboxProofs ----------------------------
(***************************************************************************)
(* The safety properties of Inbox, for any number of tasks, clients and    *)
(* messages and any bounds.                                                *)
(*                                                                         *)
(* The inductive invariant has four parts: what a task holds at each of    *)
(* its steps (Staged); that numbers in memory and in the hands of tasks    *)
(* are smaller than the next one and different (NumbersInv); how cursors   *)
(* relate to the greatest number appended (ClientInv); and that a message  *)
(* of our own is in the database before it is sent, under numbers that no  *)
(* later save takes (RecordInv).                                           *)
(***************************************************************************)
EXTENDS Inbox, TLAPS

Holding == {"append", "save", "notify"}
Unsaved == {"append", "save"}

Staged ==
  \A t \in Task :
     /\ pc[t] = "seq" => todo[t] # <<>>
     /\ pc[t] \in Holding => entry[t] \in Entry
     /\ pc[t] = "persist" => entry[t] \in sent

\* Every id anywhere is one that send_mesh_message has given out.
Known ==
  /\ \A t \in Task :
        /\ \A i \in DOMAIN todo[t] : todo[t][i].id \in used \cup {None}
        /\ pc[t] \in Holding => entry[t].id \in used \cup {None}
  /\ \A i \in DOMAIN inbox : inbox[i].id \in used \cup {None}
  /\ \A i \in DOMAIN bundle : bundle[i].id \in used \cup {None}
  /\ \A r \in db : r.id \in used

TypeInv == TypeOK /\ Staged /\ Known

LEMMA NewestIsSuffix ==
  ASSUME NEW S, NEW s \in Seq(S), NEW n \in Nat
  PROVE  /\ Newest(s, n) \in Seq(S) /\ Len(Newest(s, n)) <= n
         /\ n > 0 /\ Len(s) > 0 => Len(Newest(s, n)) > 0
         /\ \E d \in Nat :
               /\ Len(Newest(s, n)) + d = Len(s)
               /\ \A i \in 1..Len(Newest(s, n)) :
                     Newest(s, n)[i] = s[i + d] /\ i + d \in 1..Len(s)
<1>1. CASE Len(s) <= n
  <2>1. Newest(s, n) = s
    BY <1>1 DEF Newest
  <2>2. Len(s) + 0 = Len(s) /\ \A i \in 1..Len(s) : s[i] = s[i + 0] /\ i + 0 \in 1..Len(s)
    OBVIOUS
  <2> QED  BY <1>1, <2>1, <2>2
<1>2. CASE ~(Len(s) <= n)
  <2> DEFINE d == Len(s) - n
             r == SubSeq(s, Len(s) - n + 1, Len(s))
  <2>1. d \in Nat /\ d + 1 \in 1..Len(s) + 1 /\ Len(s) \in Nat
    BY <1>2
  <2>2. r = SubSeq(s, d + 1, Len(s))
    OBVIOUS
  <2>3. Newest(s, n) = r
    BY <1>2 DEF Newest
  <2> HIDE DEF r
  <2>4. /\ r \in Seq(S) /\ Len(r) = n
        /\ \A i \in 1..n : r[i] = s[i + d] /\ i + d \in 1..Len(s)
    BY <1>2, <2>1, <2>2
  <2>5. Len(r) + d = Len(s)
    BY <2>4
  <2> HIDE DEF d
  <2>6. Newest(s, n) \in Seq(S) /\ Len(Newest(s, n)) = n
    BY <2>3, <2>4
  <2>7. \E k \in Nat :
           /\ Len(Newest(s, n)) + k = Len(s)
           /\ \A i \in 1..Len(Newest(s, n)) :
                 Newest(s, n)[i] = s[i + k] /\ i + k \in 1..Len(s)
    BY <2>1, <2>3, <2>4, <2>5
  <2>8. n <= n /\ (n > 0 => n > 0)
    OBVIOUS
  <2> QED  BY <2>6, <2>7, <2>8
<1> QED  BY <1>1, <1>2

\* What AppendEntry makes of the inbox.
LEMMA AppendedIsLast ==
  ASSUME TypeInv, NEW t \in Task, AppendEntry(t)
  PROVE  /\ inbox' \in Seq(Entry) /\ Len(inbox') <= Capacity
         /\ inbox' # <<>> /\ inbox'[Len(inbox')] = entry[t]
         /\ \A i \in DOMAIN inbox' :
               inbox'[i] = entry[t] \/ \E j \in DOMAIN inbox : inbox'[i] = inbox[j]
         /\ \E d \in Nat : \A i \in DOMAIN inbox' :
               /\ i + d \in 1..(Len(inbox) + 1)
               /\ inbox'[i] = Append(inbox, entry[t])[i + d]
<1> DEFINE a == Append(inbox, entry[t])
<1>1. entry[t] \in Entry /\ inbox \in Seq(Entry) /\ Capacity \in Nat /\ Capacity > 0
  BY InboxAssumption DEF AppendEntry, TypeInv, TypeOK, Staged, Holding
<1>2. inbox' = Newest(a, Capacity)
  BY DEF AppendEntry
<1>3. /\ a \in Seq(Entry) /\ Len(a) = Len(inbox) + 1 /\ Len(inbox) \in Nat
      /\ a[Len(inbox) + 1] = entry[t]
      /\ \A j \in 1..Len(inbox) : a[j] = inbox[j]
  BY <1>1
<1>3a. Len(a) > 0
  BY <1>3
<1> HIDE DEF a
<1>4. /\ inbox' \in Seq(Entry) /\ Len(inbox') <= Capacity /\ Len(inbox') > 0
      /\ \E d \in Nat :
            /\ Len(inbox') + d = Len(a)
            /\ \A i \in 1..Len(inbox') : inbox'[i] = a[i + d] /\ i + d \in 1..Len(a)
  BY <1>1, <1>2, <1>3, <1>3a, NewestIsSuffix
<1>5. PICK d \in Nat :
            /\ Len(inbox') + d = Len(a)
            /\ \A i \in 1..Len(inbox') : inbox'[i] = a[i + d] /\ i + d \in 1..Len(a)
  BY <1>4
<1>6. DOMAIN inbox' = 1..Len(inbox') /\ DOMAIN inbox = 1..Len(inbox) /\ Len(inbox') \in Nat
  BY <1>1, <1>4
<1>7. inbox'[Len(inbox')] = entry[t]
  <2>1. Len(inbox') \in 1..Len(inbox')
    BY <1>4, <1>6
  <2>2. inbox'[Len(inbox')] = a[Len(inbox') + d]
    BY <1>5, <2>1
  <2> QED  BY <1>3, <1>5, <2>2
<1>8. ASSUME NEW i \in DOMAIN inbox'
      PROVE  inbox'[i] = entry[t] \/ \E j \in DOMAIN inbox : inbox'[i] = inbox[j]
  <2>1. inbox'[i] = a[i + d] /\ i + d \in 1..Len(a)
    BY <1>5, <1>6
  <2>2. i + d = Len(inbox) + 1 \/ i + d \in 1..Len(inbox)
    BY <1>3, <2>1
  <2> QED  BY <1>3, <1>6, <2>1, <2>2
<1>9. ASSUME NEW i \in DOMAIN inbox'
      PROVE  i + d \in 1..(Len(inbox) + 1) /\ inbox'[i] = a[i + d]
  BY <1>3, <1>5, <1>6
<1>10. inbox' # <<>>
  BY <1>4
<1> QED  BY <1>4, <1>7, <1>8, <1>9, <1>10 DEF a


LEMMA BeginTyped ==
  ASSUME TypeInv, NEW t \in Task, NEW items, items \in Seq(Item), items # <<>>,
         Begin(t, items), used \subseteq used', used' \subseteq Msg,
         \A i \in DOMAIN items : items[i].id \in used' \cup {None}
  PROVE  TypeInv'
<1>1. /\ pc[t] = "idle" /\ pc' = [pc EXCEPT ![t] = "seq"]
      /\ todo' = [todo EXCEPT ![t] = items]
      /\ UNCHANGED <<next, inbox, db, entry, sent, bundle, clients, restarts, history>>
  BY DEF Begin, Goto
<1>2. TypeOK'
  BY <1>1 DEF TypeInv, TypeOK, clients, history
<1>3. Staged'
  BY <1>1 DEF TypeInv, TypeOK, Staged, Holding
<1>4. Known'
  BY <1>1 DEF TypeInv, TypeOK, Known, Holding
<1> QED  BY <1>2, <1>3, <1>4 DEF TypeInv

LEMMA PushTyped ==
  ASSUME TypeInv, NEW t \in Task, Push(t)
  PROVE  TypeInv'
<1> USE InboxAssumption DEF Holding
<1>1. CASE TakeSeq(t)
  <2>1. /\ next \in Seqs /\ next + 1 \in 1..(MaxSeq + 1)
        /\ todo[t] \in Seq(Item) /\ todo[t] # <<>>
    BY <1>1 DEF TakeSeq, TypeInv, TypeOK, Staged, Seqs
  <2>2. Head(todo[t]) \in Item /\ Tail(todo[t]) \in Seq(Item)
    BY <2>1
  <2> DEFINE e == [seq |-> next, id |-> Head(todo[t]).id, own |-> Head(todo[t]).own,
                   delivered |-> Head(todo[t]).delivered]
  <2>3. e \in Entry
    BY <2>1, <2>2 DEF Entry, Item
  <2>4. /\ pc' = [pc EXCEPT ![t] = "append"] /\ entry' = [entry EXCEPT ![t] = e]
        /\ todo' = [todo EXCEPT ![t] = Tail(todo[t])] /\ next' = next + 1
        /\ UNCHANGED <<inbox, db, used, sent, bundle, clients, restarts, history>>
    BY <1>1 DEF TakeSeq, Goto
  <2> HIDE DEF e
  <2>5. TypeOK'
    BY <2>1, <2>2, <2>3, <2>4 DEF TypeInv, TypeOK, clients, history
  <2>6. Staged'
    BY <2>3, <2>4 DEF TypeInv, TypeOK, Staged
  <2>7. Known'
    <3>1. 1 \in DOMAIN todo[t] /\ Head(todo[t]) = todo[t][1]
      BY <2>1
    <3>2. \A i \in DOMAIN Tail(todo[t]) :
             i + 1 \in DOMAIN todo[t] /\ Tail(todo[t])[i] = todo[t][i + 1]
      BY <2>1
    <3>3. Head(todo[t]).id \in used \cup {None}
      BY <3>1 DEF TypeInv, Known
    <3>4. \A i \in DOMAIN Tail(todo[t]) : Tail(todo[t])[i].id \in used \cup {None}
      BY <3>2 DEF TypeInv, Known
    <3>5. e.id \in used \cup {None}
      BY <3>3 DEF e
    <3> QED  BY <2>4, <3>4, <3>5 DEF TypeInv, TypeOK, Known
  <2> QED  BY <2>5, <2>6, <2>7 DEF TypeInv
<1>2. CASE AppendEntry(t)
  <2>1. inbox' \in Seq(Entry) /\ Len(inbox') <= Capacity
    BY <1>2, AppendedIsLast
  <2>2. entry[t] \in Entry
    BY <1>2 DEF AppendEntry, TypeInv, Staged
  <2>3. entry[t].seq \in Seqs
    BY <2>2 DEF Entry
  <2>4. highest' \in 0..MaxSeq /\ overtaken' \subseteq Seqs
    <3>1. /\ highest' = entry[t].seq \/ highest' = highest
          /\ overtaken' = overtaken \cup {entry[t].seq} \/ overtaken' = overtaken
      BY <1>2 DEF AppendEntry, NoteOrder
    <3>2. highest \in 0..MaxSeq /\ overtaken \subseteq Seqs
      BY DEF TypeInv, TypeOK
    <3>3. entry[t].seq \in 0..MaxSeq
      BY <2>3 DEF Seqs
    <3>4. highest' \in 0..MaxSeq
      BY <3>1, <3>2, <3>3
    <3>5. overtaken' \subseteq Seqs
      BY <2>3, <3>1, <3>2
    <3> QED  BY <3>4, <3>5
  <2>5. pc' = [pc EXCEPT ![t] = "save"]
    BY <1>2 DEF AppendEntry, Goto
  <2>6. UNCHANGED <<next, db, todo, entry, used, sent, bundle, clients, restarts,
                    shown, again, skipped, ahead>>
    BY <1>2 DEF AppendEntry
  <2>7. TypeOK'
    BY <2>1, <2>4, <2>5, <2>6 DEF TypeInv, TypeOK, clients
  <2>8. Staged'
    BY <2>2, <2>5, <2>6 DEF TypeInv, TypeOK, Staged
  <2>9. entry[t].id \in used \cup {None}
    BY <1>2 DEF AppendEntry, TypeInv, Known
  <2>10. \A i \in DOMAIN inbox' : inbox'[i].id \in used \cup {None}
    BY <1>2, <2>9, AppendedIsLast DEF TypeInv, Known
  <2>11. Known'
    BY <2>5, <2>6, <2>9, <2>10 DEF TypeInv, TypeOK, Known
  <2> QED  BY <2>7, <2>8, <2>11 DEF TypeInv
<1>3. CASE Save(t)
  <2>1. entry[t] \in Entry
    BY <1>3 DEF Save, TypeInv, Staged
  <2>2. db' \subseteq Record
    <3>1. entry[t].id # None =>
            [seq |-> entry[t].seq, id |-> entry[t].id, delivered |-> entry[t].delivered] \in Record
      BY <2>1 DEF Entry, Record
    <3> QED  BY <1>3, <3>1 DEF Save, TypeInv, TypeOK
  <2>3. /\ pc' = [pc EXCEPT ![t] = "notify"]
        /\ UNCHANGED <<next, inbox, todo, entry, used, sent, bundle, clients, restarts, history>>
    BY <1>3 DEF Save, Goto
  <2>4. TypeOK'
    BY <2>2, <2>3 DEF TypeInv, TypeOK, clients, history
  <2>5. Staged'
    BY <2>1, <2>3 DEF TypeInv, TypeOK, Staged
  <2>6. \A r \in db' : r.id \in used
    BY <1>3 DEF Save, TypeInv, Known
  <2>7. Known'
    BY <1>3, <2>3, <2>6 DEF Save, TypeInv, TypeOK, Known
  <2> QED  BY <2>4, <2>5, <2>7 DEF TypeInv
<1>4. CASE NotifyWaiters(t)
  <2>1. /\ pc' = [pc EXCEPT ![t] = IF todo[t] = <<>> THEN "idle" ELSE "seq"]
        /\ entry' = [entry EXCEPT ![t] = None]
        /\ woken' = woken \cup {c \in Client : cpc[c] = "waiting"}
        /\ sent' = sent \cup {m \in Msg : entry[t].own /\ entry[t].id = m}
        /\ UNCHANGED <<next, inbox, db, todo, used, bundle, cpc, cursor, restarts, history>>
    BY <1>4 DEF NotifyWaiters, Goto
  <2>2. sent' \subseteq used'
    BY <1>4, <2>1 DEF NotifyWaiters, TypeInv, TypeOK, Known
  <2>3. TypeOK'
    BY <2>1, <2>2 DEF TypeInv, TypeOK, history
  <2>4. Staged'
    BY <2>1 DEF TypeInv, TypeOK, Staged
  <2>5. Known'
    BY <2>1 DEF TypeInv, TypeOK, Known
  <2> QED  BY <2>3, <2>4, <2>5 DEF TypeInv
<1>5. CASE PersistAck(t)
  <2>1. /\ pc' = [pc EXCEPT ![t] = "idle"] /\ entry' = [entry EXCEPT ![t] = None]
        /\ UNCHANGED <<next, inbox, todo, used, sent, bundle, clients, restarts, history>>
    BY <1>5 DEF PersistAck, Goto
  <2>2. db' \subseteq Record
    <3>1. ASSUME NEW r \in db PROVE [r EXCEPT !.delivered = TRUE] \in Record
      BY DEF TypeInv, TypeOK, Record
    <3> QED  BY <1>5, <3>1 DEF PersistAck, TypeInv, TypeOK
  <2>3. TypeOK'
    BY <2>1, <2>2 DEF TypeInv, TypeOK, clients, history
  <2>4. Staged'
    BY <2>1 DEF TypeInv, TypeOK, Staged
  <2>5. \A r \in db' : r.id \in used
    <3>1. ASSUME NEW r \in db PROVE [r EXCEPT !.delivered = TRUE].id = r.id
      BY DEF TypeInv, TypeOK, Record
    <3>2. \/ db' = db
          \/ \E r \in db : db' = (db \ {r}) \cup {[r EXCEPT !.delivered = TRUE]}
      BY <1>5 DEF PersistAck
    <3>3. ASSUME NEW r \in db, db' = (db \ {r}) \cup {[r EXCEPT !.delivered = TRUE]}
          PROVE  \A q \in db' : q.id \in used
      BY <3>1, <3>3 DEF TypeInv, Known
    <3> QED  BY <3>2, <3>3 DEF TypeInv, Known
  <2>6. Known'
    BY <2>1, <2>5 DEF TypeInv, TypeOK, Known
  <2> QED  BY <2>3, <2>4, <2>6 DEF TypeInv
<1> QED  BY <1>1, <1>2, <1>3, <1>4, <1>5 DEF Push

LEMMA CallerTyped ==
  ASSUME TypeInv, NEW t \in Task, Caller(t)
  PROVE  TypeInv'
<1>1. CASE Receive(t)
  <2> DEFINE items == <<[id |-> None, own |-> TRUE, delivered |-> FALSE]>>
  <2>1. items \in Seq(Item) /\ items # <<>> /\ \A i \in DOMAIN items : items[i].id = None
    BY DEF Item
  <2>2. Begin(t, items) /\ used' = used
    BY <1>1 DEF Receive
  <2> HIDE DEF items
  <2> QED  BY <2>1, <2>2, BeginTyped DEF TypeInv, TypeOK
<1>2. ASSUME NEW m \in Msg, SendMessage(t, m)
      PROVE  TypeInv'
  <2> DEFINE items == <<[id |-> m, own |-> TRUE, delivered |-> FALSE]>>
  <2>1. items \in Seq(Item) /\ items # <<>> /\ \A i \in DOMAIN items : items[i].id = m
    BY DEF Item
  <2>2. Begin(t, items) /\ used' = used \cup {m}
    BY <1>2 DEF SendMessage
  <2> HIDE DEF items
  <2> QED  BY <2>1, <2>2, BeginTyped DEF TypeInv, TypeOK
<1>3. CASE ImportBundle(t)
  <2>1. bundle # <<>> /\ Begin(t, bundle) /\ used' = used
    BY <1>3 DEF ImportBundle
  <2> QED  BY <2>1, BeginTyped DEF TypeInv, TypeOK, Known
<1>4. ASSUME NEW m \in Msg, TakeAck(t, m)
      PROVE  TypeInv'
  <2>1. /\ m \in sent
        /\ pc' = [pc EXCEPT ![t] = "persist"] /\ entry' = [entry EXCEPT ![t] = m]
        /\ UNCHANGED <<next, db, todo, used, sent, bundle, clients, restarts, history>>
    BY <1>4 DEF TakeAck, Goto
  <2>2. inbox \in Seq(Entry) /\ Len(inbox) <= Capacity
    BY DEF TypeInv, TypeOK
  <2>3. ASSUME NEW i \in DOMAIN inbox
        PROVE  /\ inbox[i] \in Entry
               /\ [inbox[i] EXCEPT !.delivered = TRUE] \in Entry
               /\ [inbox[i] EXCEPT !.delivered = TRUE].id = inbox[i].id
    <3>1. inbox[i] \in Entry
      BY <2>2
    <3> QED  BY <3>1 DEF Entry
  <2>4. /\ DOMAIN inbox' = DOMAIN inbox
        /\ \A i \in DOMAIN inbox : inbox'[i] \in Entry /\ inbox'[i].id = inbox[i].id
    BY <1>4, <2>3 DEF TakeAck
  <2>5. inbox' \in Seq(Entry) /\ Len(inbox') = Len(inbox)
    <3>1. inbox' = [i \in 1..Len(inbox) |->
                      IF inbox[i].id = m THEN [inbox[i] EXCEPT !.delivered = TRUE] ELSE inbox[i]]
      BY <1>4, <2>2 DEF TakeAck
    <3>2. inbox' \in [1..Len(inbox) -> Entry] /\ Len(inbox) \in Nat
      BY <2>2, <2>3, <3>1
    <3> QED  BY <3>2
  <2>6. TypeOK'
    BY <2>1, <2>2, <2>5 DEF TypeInv, TypeOK, clients, history
  <2>7. Staged'
    BY <2>1 DEF TypeInv, TypeOK, Staged, Holding
  <2>8. Known'
    BY <2>1, <2>4 DEF TypeInv, TypeOK, Known, Holding
  <2> QED  BY <2>6, <2>7, <2>8 DEF TypeInv
<1> QED  BY <1>1, <1>2, <1>3, <1>4 DEF Caller

LEMMA AnswerTyped ==
  ASSUME TypeInv, NEW c \in Client, Answer(c)
  PROVE  TypeInv'
<1>1. inbox \in Seq(Entry) /\ DOMAIN inbox = 1..Len(inbox) /\ Len(inbox) \in Nat
  BY DEF TypeInv, TypeOK
<1>2. \A i \in DOMAIN inbox : inbox[i].seq \in Seqs
  <2>1. \A i \in DOMAIN inbox : inbox[i] \in Entry
    BY <1>1
  <2> QED  BY <2>1 DEF Entry
<1>3. NextSince(cursor[c]) \in 0..MaxSeq
  <2>1. inbox # <<>> => Len(inbox) \in DOMAIN inbox
    BY <1>1
  <2>2. inbox # <<>> => inbox[Len(inbox)].seq \in 0..MaxSeq
    BY <1>2, <2>1 DEF Seqs
  <2> QED  BY <2>2 DEF NextSince, TypeInv, TypeOK
<1>4. /\ SeqsAt(Newer(cursor[c])) \subseteq Seqs
      /\ SeqsAt(LastOf(Newer(cursor[c]))) \subseteq Seqs
  BY <1>2 DEF SeqsAt, Newer, LastOf
<1> DEFINE answer == SeqsAt(LastOf(Newer(cursor[c])))
<1>5. /\ cursor' = [cursor EXCEPT ![c] = NextSince(@)]
      /\ shown' = [shown EXCEPT ![c] = @ \cup answer]
      /\ again' = [again EXCEPT ![c] = @ \cup (shown[c] \cap answer)]
      /\ skipped' = [skipped EXCEPT ![c] = @ \cup (SeqsAt(Newer(cursor[c])) \ answer)]
      /\ cpc' = [cpc EXCEPT ![c] = "idle"]
      /\ woken' = woken \ {c}
      /\ UNCHANGED <<next, inbox, db, tasks, bundle, restarts, ahead, highest, overtaken>>
  BY DEF Answer
<1> HIDE DEF answer
<1>6. /\ shown' \in [Client -> SUBSET Seqs] /\ again' \in [Client -> SUBSET Seqs]
      /\ skipped' \in [Client -> SUBSET Seqs]
  BY <1>4, <1>5 DEF TypeInv, TypeOK, answer
<1>7. cursor' \in [Client -> 0..MaxSeq]
  BY <1>3, <1>5 DEF TypeInv, TypeOK
<1>8. TypeOK'
  BY <1>5, <1>6, <1>7 DEF TypeInv, TypeOK, tasks
<1>9. Staged' /\ Known'
  BY <1>5 DEF TypeInv, Staged, Known, tasks
<1> QED  BY <1>8, <1>9 DEF TypeInv

\* The steps of a request that only change where the request is.
LEMMA RequestTyped ==
  ASSUME TypeInv, NEW c \in Client,
         WatchFindsNothing(c) \/ Register(c) \/ GiveUp(c)
  PROVE  TypeInv'
<1>1. /\ cpc' \in [Client -> {"idle", "register", "waiting"}]
      /\ woken' \subseteq Client
      /\ UNCHANGED <<next, inbox, db, tasks, bundle, cursor, restarts, history>>
  BY DEF WatchFindsNothing, Register, GiveUp, TypeInv, TypeOK
<1>2. TypeOK'
  BY <1>1 DEF TypeInv, TypeOK, tasks, history
<1>3. Staged' /\ Known'
  BY <1>1 DEF TypeInv, Staged, Known, tasks
<1> QED  BY <1>2, <1>3 DEF TypeInv

LEMMA BundleTyped ==
  ASSUME TypeInv, ExportBundle \/ BundleUnusable
  PROVE  TypeInv'
<1>1. UNCHANGED <<next, inbox, db, tasks, clients, restarts, history>>
  BY DEF ExportBundle, BundleUnusable
<1>2. bundle' \in Seq(Item) /\ \A i \in DOMAIN bundle' : bundle'[i].id \in used \cup {None}
  <2>1. CASE ExportBundle
    <3> DEFINE n == Newest(inbox, Limit)
    <3>1. inbox \in Seq(Entry) /\ Limit \in Nat
      BY InboxAssumption DEF TypeInv, TypeOK
    <3>2. /\ n \in Seq(Entry)
          /\ \E d \in Nat : \A i \in 1..Len(n) : n[i] = inbox[i + d] /\ i + d \in 1..Len(inbox)
      BY <3>1, NewestIsSuffix
    <3>3. bundle' = Bundle(n)
      BY <2>1 DEF ExportBundle
    <3> HIDE DEF n
    <3>4. \A i \in 1..Len(n) : n[i] \in Entry /\ n[i].id \in used \cup {None}
      <4>1. \A i \in 1..Len(inbox) : inbox[i].id \in used \cup {None}
        BY <3>1 DEF TypeInv, Known
      <4>2. \A i \in 1..Len(n) : \E j \in 1..Len(inbox) : n[i] = inbox[j]
        BY <3>2
      <4> QED  BY <3>2, <4>1, <4>2
    <3>5. \A i \in 1..Len(n) : [id |-> n[i].id, own |-> FALSE, delivered |-> n[i].delivered] \in Item
      BY <3>4 DEF Entry, Item
    <3>6. bundle' = [i \in 1..Len(n) |-> [id |-> n[i].id, own |-> FALSE,
                                          delivered |-> n[i].delivered]]
      BY <3>2, <3>3 DEF Bundle
    <3>7. bundle' \in [1..Len(n) -> Item] /\ Len(n) \in Nat
      BY <3>2, <3>5, <3>6
    <3>8. bundle' \in Seq(Item)
      BY <3>7
    <3> QED  BY <3>4, <3>6, <3>8
  <2>2. CASE BundleUnusable
    BY <2>2 DEF BundleUnusable
  <2> QED  BY <2>1, <2>2
<1>3. TypeOK'
  BY <1>1, <1>2 DEF TypeInv, TypeOK, tasks, clients, history
<1>4. Staged' /\ Known'
  BY <1>1, <1>2 DEF TypeInv, Staged, Known, tasks
<1> QED  BY <1>3, <1>4 DEF TypeInv

LEMMA RestartTyped ==
  ASSUME TypeInv, Restart
  PROVE  TypeInv'
<1>1. TypeOK'
  BY InboxAssumption DEF Restart, TypeInv, TypeOK
<1>2. Staged' /\ Known'
  BY DEF Restart, TypeInv, TypeOK, Staged, Known, Holding
<1> QED  BY <1>1, <1>2 DEF TypeInv

LEMMA TypeInitially == Init => TypeInv
<1> SUFFICES ASSUME Init PROVE TypeInv
  OBVIOUS
<1>1. TypeOK
  BY InboxAssumption DEF Init, TypeOK, Seqs
<1>2. Staged /\ Known
  BY DEF Init, Staged, Known, Holding
<1> QED  BY <1>1, <1>2 DEF TypeInv

LEMMA TypeStep == TypeInv /\ [Next]_vars => TypeInv'
<1> SUFFICES ASSUME TypeInv, [Next]_vars
             PROVE  TypeInv'
  OBVIOUS
<1>1. ASSUME NEW t \in Task, Push(t) \/ Caller(t)
      PROVE  TypeInv'
  BY <1>1, PushTyped, CallerTyped
<1>2. ASSUME NEW c \in Client, Watch(c) \/ GiveUp(c)
      PROVE  TypeInv'
  BY <1>2, AnswerTyped, RequestTyped
     DEF Watch, WatchFindsNewer, WatchWakes, WatchTimesOut
<1>3. CASE UNCHANGED vars
  <2>1. TypeOK'
    BY <1>3 DEF vars, tasks, clients, history, TypeInv, TypeOK
  <2>2. Staged' /\ Known'
    BY <1>3 DEF vars, tasks, clients, history, TypeInv, Staged, Known
  <2> QED  BY <2>1, <2>2 DEF TypeInv
<1> QED  BY <1>1, <1>2, <1>3, BundleTyped, RestartTyped DEF Next

\* The state of Inbox is well typed: the inbox never outgrows its capacity, and
\* only ids that were given out can be acknowledged (push_inbox).
THEOREM InboxTypeCorrect == Spec => []TypeOK
<1>1. TypeInv => TypeOK
  BY DEF TypeInv
<1> QED  BY <1>1, TypeInitially, TypeStep, PTL DEF Spec

-----------------------------------------------------------------------------
(* Numbers.                                                                *)

NumbersInv ==
  /\ \A i \in DOMAIN inbox : inbox[i].seq < next
  /\ \A t \in Task : pc[t] \in Unsaved => entry[t].seq < next
  /\ \A t \in Task : pc[t] = "append" => \A i \in DOMAIN inbox : inbox[i].seq # entry[t].seq
  /\ \A t, u \in Task :
        pc[t] \in Unsaved /\ pc[u] \in Unsaved /\ entry[t].seq = entry[u].seq => t = u
  /\ SeqIdentifies

\* The numbers that have been given out stay the same, and no task gets one.
LEMMA NumbersStay ==
  ASSUME NumbersInv, next' = next, DOMAIN inbox' = DOMAIN inbox,
         \A i \in DOMAIN inbox : inbox'[i].seq = inbox[i].seq,
         \A t \in Task : pc'[t] \in Unsaved =>
            pc[t] \in Unsaved /\ entry'[t] = entry[t] /\ (pc'[t] = "append" => pc[t] = "append")
  PROVE  NumbersInv'
<1>1. \A t \in Task : pc'[t] = "append" => pc[t] = "append" /\ entry'[t] = entry[t]
  BY DEF Unsaved
<1>2. SeqIdentifies'
  BY DEF NumbersInv, SeqIdentifies
<1> QED  BY <1>1, <1>2 DEF NumbersInv

LEMMA TakeSeqNumbers ==
  ASSUME TypeInv, NumbersInv, NEW t \in Task, TakeSeq(t)
  PROVE  NumbersInv'
<1>1. /\ next \in Nat /\ next' = next + 1 /\ inbox' = inbox
      /\ pc' = [pc EXCEPT ![t] = "append"] /\ pc[t] = "seq"
      /\ \A u \in Task \ {t} : entry'[u] = entry[u]
      /\ entry'[t].seq = next
  BY DEF TakeSeq, Goto, TypeInv, TypeOK
<1>2. \A i \in DOMAIN inbox : inbox[i].seq \in Nat
  <2>1. \A i \in DOMAIN inbox : inbox[i] \in Entry
    BY DEF TypeInv, TypeOK
  <2> QED  BY <2>1 DEF Entry, Seqs
<1>3. \A u \in Task : pc[u] \in Unsaved => entry[u].seq \in Nat
  BY DEF TypeInv, Staged, Holding, Unsaved, Entry, Seqs
<1>4. \A u \in Task : u # t => pc'[u] = pc[u]
  BY <1>1 DEF TypeInv, TypeOK
<1>5. pc'[t] = "append"
  BY <1>1 DEF TypeInv, TypeOK
<1>6. \A i \in DOMAIN inbox' : inbox'[i].seq < next' /\ inbox'[i].seq # next
  BY <1>1, <1>2 DEF NumbersInv
<1>7. \A u \in Task : u # t /\ pc'[u] \in Unsaved => entry'[u].seq < next' /\ entry'[u].seq # next
  BY <1>1, <1>3, <1>4 DEF NumbersInv
<1>8. next < next'
  BY <1>1
<1>9. \A u \in Task : pc'[u] \in Unsaved => entry'[u].seq < next'
  BY <1>1, <1>7, <1>8
<1>10. \A u \in Task : pc'[u] = "append" => \A i \in DOMAIN inbox' : inbox'[i].seq # entry'[u].seq
  BY <1>1, <1>4, <1>6 DEF NumbersInv
<1>11. \A u, v \in Task :
         pc'[u] \in Unsaved /\ pc'[v] \in Unsaved /\ entry'[u].seq = entry'[v].seq => u = v
  BY <1>1, <1>4, <1>7 DEF NumbersInv
<1>12. SeqIdentifies'
  BY <1>1 DEF NumbersInv, SeqIdentifies
<1> QED  BY <1>6, <1>9, <1>10, <1>11, <1>12 DEF NumbersInv

LEMMA AppendNumbers ==
  ASSUME TypeInv, NumbersInv, NEW t \in Task, AppendEntry(t)
  PROVE  NumbersInv'
<1>1. /\ next' = next /\ entry' = entry /\ pc' = [pc EXCEPT ![t] = "save"] /\ pc[t] = "append"
  BY DEF AppendEntry, Goto
<1>2. pc[t] \in Unsaved /\ pc'[t] = "save" /\ \A u \in Task : u # t => pc'[u] = pc[u]
  BY <1>1 DEF Unsaved, TypeInv, TypeOK
<1>3. \A u \in Task : pc'[u] \in Unsaved => pc[u] \in Unsaved
  BY <1>2
<1>4. \A u \in Task : pc'[u] = "append" => pc[u] = "append" /\ u # t /\ pc[u] \in Unsaved
  BY <1>2 DEF Unsaved
<1>5. \A i \in DOMAIN inbox' :
         inbox'[i] = entry[t] \/ \E j \in DOMAIN inbox : inbox'[i] = inbox[j]
  BY AppendedIsLast
<1>6. \A i \in DOMAIN inbox' : inbox'[i].seq < next
  BY <1>2, <1>5 DEF NumbersInv
<1>7. ASSUME NEW u \in Task, pc'[u] = "append", NEW i \in DOMAIN inbox'
      PROVE  inbox'[i].seq # entry[u].seq
  BY <1>2, <1>4, <1>5, <1>7 DEF NumbersInv
<1>8. SeqIdentifies'
  <2> SUFFICES ASSUME NEW i \in DOMAIN inbox', NEW j \in DOMAIN inbox',
                      inbox'[i].seq = inbox'[j].seq
               PROVE  i = j
    BY DEF SeqIdentifies
  <2> DEFINE a == Append(inbox, entry[t])
  <2>1. PICK d \in Nat : \A k \in DOMAIN inbox' :
           /\ k + d \in 1..(Len(inbox) + 1)
           /\ inbox'[k] = a[k + d]
    BY AppendedIsLast
  <2>2. /\ inbox \in Seq(Entry) /\ Len(inbox) \in Nat /\ DOMAIN inbox = 1..Len(inbox)
        /\ a[Len(inbox) + 1] = entry[t]
        /\ \A k \in 1..Len(inbox) : a[k] = inbox[k]
    BY DEF TypeInv, TypeOK, Staged
  <2> HIDE DEF a
  <2>3. \A k \in 1..(Len(inbox) + 1) : k = Len(inbox) + 1 \/ k \in DOMAIN inbox
    BY <2>2
  <2>4. \A k, l \in 1..(Len(inbox) + 1) : a[k].seq = a[l].seq => k = l
    BY <1>1, <2>2, <2>3 DEF NumbersInv, SeqIdentifies
  <2>5. i + d = j + d
    BY <2>1, <2>4
  <2>6. i \in Nat /\ j \in Nat
    <3>1. inbox' \in Seq(Entry)
      BY AppendedIsLast
    <3> QED  BY <3>1
  <2> QED  BY <2>1, <2>5, <2>6
<1> QED  BY <1>1, <1>3, <1>6, <1>7, <1>8 DEF NumbersInv

LEMMA NumbersStep == TypeInv /\ NumbersInv /\ [Next]_vars => NumbersInv'
<1> SUFFICES ASSUME TypeInv, NumbersInv, [Next]_vars
             PROVE  NumbersInv'
  OBVIOUS
<1>1. ASSUME NEW t \in Task, Push(t)
      PROVE  NumbersInv'
  <2>1. CASE Save(t) \/ NotifyWaiters(t) \/ PersistAck(t)
    <3>1. /\ next' = next /\ inbox' = inbox
          /\ pc'[t] = "notify" \/ pc'[t] \notin Unsaved
          /\ \A u \in Task : u # t => pc'[u] = pc[u] /\ entry'[u] = entry[u]
      BY <2>1 DEF Save, NotifyWaiters, PersistAck, Goto, Unsaved, TypeInv, TypeOK
    <3>2. \A u \in Task : pc'[u] \in Unsaved => u # t
      BY <3>1 DEF Unsaved
    <3> QED  BY <3>1, <3>2, NumbersStay
  <2> QED  BY <1>1, <2>1, TakeSeqNumbers, AppendNumbers DEF Push
<1>2. ASSUME NEW t \in Task, Caller(t)
      PROVE  NumbersInv'
  <2>1. CASE Receive(t) \/ ImportBundle(t) \/ \E m \in Msg : SendMessage(t, m)
    <3>1. /\ next' = next /\ inbox' = inbox /\ entry' = entry
          /\ pc'[t] = "seq" /\ \A u \in Task : u # t => pc'[u] = pc[u]
      BY <2>1 DEF Receive, ImportBundle, SendMessage, Begin, Goto, TypeInv, TypeOK
    <3>2. \A u \in Task : pc'[u] \in Unsaved => u # t
      BY <3>1 DEF Unsaved
    <3> QED  BY <3>1, <3>2, NumbersStay
  <2>2. ASSUME NEW m \in Msg, TakeAck(t, m)
        PROVE  NumbersInv'
    <3>1. /\ next' = next
          /\ pc'[t] = "persist"
          /\ \A u \in Task : u # t => pc'[u] = pc[u] /\ entry'[u] = entry[u]
      BY <2>2 DEF TakeAck, Goto, TypeInv, TypeOK
    <3>2. \A u \in Task : pc'[u] \in Unsaved => u # t
      BY <3>1 DEF Unsaved
    <3>3. ASSUME NEW i \in DOMAIN inbox
          PROVE  [inbox[i] EXCEPT !.delivered = TRUE].seq = inbox[i].seq
      <4>1. inbox[i] \in Entry
        BY DEF TypeInv, TypeOK
      <4> QED  BY <4>1 DEF Entry
    <3>4. DOMAIN inbox' = DOMAIN inbox /\ \A i \in DOMAIN inbox : inbox'[i].seq = inbox[i].seq
      BY <2>2, <3>3 DEF TakeAck
    <3> QED  BY <3>1, <3>2, <3>4, NumbersStay
  <2> QED  BY <1>2, <2>1, <2>2 DEF Caller
<1>3. ASSUME NEW c \in Client, Watch(c) \/ GiveUp(c)
      PROVE  NumbersInv'
  <2>1. UNCHANGED <<next, inbox, tasks>>
    BY <1>3 DEF Watch, WatchFindsNewer, WatchWakes, WatchTimesOut, Answer,
                WatchFindsNothing, Register, GiveUp
  <2> QED  BY <2>1, NumbersStay DEF tasks
<1>4. CASE ExportBundle \/ BundleUnusable \/ UNCHANGED vars
  <2>1. UNCHANGED <<next, inbox, tasks>>
    BY <1>4 DEF ExportBundle, BundleUnusable, vars
  <2> QED  BY <2>1, NumbersStay DEF tasks
<1>5. CASE Restart
  <2>1. inbox' = <<>> /\ \A t \in Task : pc'[t] = "idle"
    BY <1>5 DEF Restart
  <2>2. DOMAIN inbox' = {} /\ \A t \in Task : pc'[t] \notin Unsaved /\ pc'[t] # "append"
    BY <2>1 DEF Unsaved
  <2> QED  BY <2>2 DEF NumbersInv, SeqIdentifies
<1> QED  BY <1>1, <1>2, <1>3, <1>4, <1>5 DEF Next

LEMMA NumbersInitially == Init => NumbersInv
  BY DEF Init, NumbersInv, SeqIdentifies, Unsaved

\* No two entries in memory share a number, whatever the tasks do between taking
\* a number and appending under it, for any number of tasks (push_inbox).
THEOREM NumbersIdentify == Spec => []SeqIdentifies
<1>1. TypeInv /\ NumbersInv => SeqIdentifies
  BY DEF NumbersInv
<1> QED  BY <1>1, TypeInitially, TypeStep, NumbersInitially, NumbersStep, PTL DEF Spec

-----------------------------------------------------------------------------
(* Cursors.  A number is appended once, so one that is not the greatest when *)
(* it is appended is overtaken; the cursor is the last entry's number, which *)
(* is the greatest, or overtaken.                                            *)

LastSeq == inbox[Len(inbox)].seq

OrderInv ==
  /\ highest < next
  /\ \A i \in DOMAIN inbox : inbox[i].seq <= highest
  /\ \A t \in Task : pc[t] = "append" => entry[t].seq # highest
  /\ inbox # <<>> => LastSeq = highest \/ LastSeq \in overtaken

ClientInv ==
  /\ \A c \in Client :
        /\ cursor[c] <= ahead[c] \/ cursor[c] <= highest
        /\ \A s \in shown[c] :
              s <= highest /\ (s <= cursor[c] \/ \E o \in overtaken : o < s)
  /\ MissedExplained /\ ShownTwiceExplained

LEMMA SeqsAreNat ==
  ASSUME TypeInv
  PROVE  /\ next \in Nat /\ highest \in Nat
         /\ \A i \in DOMAIN inbox : inbox[i].seq \in Nat
         /\ \A t \in Task : pc[t] \in Holding => entry[t].seq \in Nat
         /\ \A c \in Client : /\ cursor[c] \in Nat /\ ahead[c] \in Nat
                              /\ \A s \in shown[c] : s \in Nat
         /\ \A o \in overtaken : o \in Nat
<1>1. \A i \in DOMAIN inbox : inbox[i] \in Entry
  BY DEF TypeInv, TypeOK
<1>2. \A i \in DOMAIN inbox : inbox[i].seq \in Nat
  BY <1>1 DEF Entry, Seqs
<1>3. \A t \in Task : pc[t] \in Holding => entry[t].seq \in Nat
  BY DEF TypeInv, Staged, Entry, Seqs
<1> QED  BY <1>2, <1>3, InboxAssumption DEF TypeInv, TypeOK, Seqs

LEMMA OrderStays ==
  ASSUME OrderInv, UNCHANGED <<next, highest, overtaken>>,
         DOMAIN inbox' = DOMAIN inbox, Len(inbox') = Len(inbox),
         inbox \in Seq(Entry), inbox' = <<>> <=> inbox = <<>>,
         \A i \in DOMAIN inbox : inbox'[i].seq = inbox[i].seq,
         \A t \in Task : pc'[t] = "append" => pc[t] = "append" /\ entry'[t] = entry[t]
  PROVE  OrderInv'
<1>1. inbox # <<>> => Len(inbox) \in DOMAIN inbox
  OBVIOUS
<1>2. inbox' # <<>> => LastSeq' = LastSeq
  BY <1>1 DEF LastSeq
<1> QED  BY <1>2 DEF OrderInv

LEMMA AppendOrder ==
  ASSUME TypeInv, NumbersInv, OrderInv, NEW t \in Task, AppendEntry(t)
  PROVE  OrderInv' /\ highest <= highest' /\ overtaken \subseteq overtaken'
         /\ (entry[t].seq = highest' \/ entry[t].seq \in overtaken')
         /\ entry[t].seq <= highest'
<1>1. /\ next' = next /\ entry' = entry /\ pc' = [pc EXCEPT ![t] = "save"] /\ pc[t] = "append"
      /\ highest' = IF entry[t].seq > highest THEN entry[t].seq ELSE highest
      /\ overtaken' = IF entry[t].seq < highest THEN overtaken \cup {entry[t].seq} ELSE overtaken
  BY DEF AppendEntry, Goto, NoteOrder
<1>2. pc[t] \in Unsaved /\ pc[t] \in Holding
  BY <1>1 DEF Unsaved, Holding
<1>3. /\ entry[t].seq \in Nat /\ highest \in Nat /\ next \in Nat
      /\ entry[t].seq < next /\ highest < next /\ entry[t].seq # highest
  BY <1>1, <1>2, SeqsAreNat DEF NumbersInv, OrderInv
<1>4. /\ highest <= highest' /\ entry[t].seq <= highest' /\ highest' < next' /\ highest' \in Nat
      /\ highest' = highest \/ highest' = entry[t].seq
      /\ entry[t].seq = highest' \/ entry[t].seq \in overtaken'
      /\ overtaken \subseteq overtaken'
  <2>1. CASE entry[t].seq > highest
    BY <1>1, <1>3, <2>1
  <2>2. CASE entry[t].seq < highest
    BY <1>1, <1>3, <2>2
  <2> QED  BY <1>3, <2>1, <2>2
<1>5. \A i \in DOMAIN inbox' : inbox'[i].seq <= highest'
  <2> SUFFICES ASSUME NEW i \in DOMAIN inbox' PROVE inbox'[i].seq <= highest'
    OBVIOUS
  <2>1. CASE inbox'[i] = entry[t]
    BY <1>4, <2>1
  <2>2. ASSUME NEW j \in DOMAIN inbox, inbox'[i] = inbox[j]
        PROVE  inbox'[i].seq <= highest'
    <3>1. inbox[j].seq \in Nat /\ inbox[j].seq <= highest
      BY SeqsAreNat DEF OrderInv
    <3> QED  BY <1>3, <1>4, <2>2, <3>1
  <2> QED  BY <2>1, <2>2, AppendedIsLast
<1>6. ASSUME NEW u \in Task, pc'[u] = "append" PROVE entry'[u].seq # highest'
  <2>1. u # t /\ pc[u] = "append" /\ pc[u] \in Unsaved
    BY <1>1, <1>6 DEF TypeInv, TypeOK, Unsaved
  <2>2. entry[u].seq # entry[t].seq /\ entry[u].seq # highest
    BY <1>2, <2>1 DEF NumbersInv, OrderInv
  <2> QED  BY <1>1, <1>4, <2>2
<1>7. LastSeq' = entry[t].seq
  BY AppendedIsLast DEF LastSeq
<1> QED  BY <1>4, <1>5, <1>6, <1>7 DEF OrderInv

LEMMA OrderStep == TypeInv /\ NumbersInv /\ OrderInv /\ [Next]_vars => OrderInv'
<1> SUFFICES ASSUME TypeInv, NumbersInv, OrderInv, [Next]_vars
             PROVE  OrderInv'
  OBVIOUS
<1>0. inbox \in Seq(Entry) /\ next \in Nat /\ highest \in Nat
  BY SeqsAreNat DEF TypeInv, TypeOK
<1>1. ASSUME NEW t \in Task, Push(t)
      PROVE  OrderInv'
  <2>1. CASE Save(t) \/ NotifyWaiters(t) \/ PersistAck(t)
    <3>1. /\ UNCHANGED <<next, inbox, highest, overtaken>>
          /\ pc'[t] # "append"
          /\ \A u \in Task : u # t => pc'[u] = pc[u] /\ entry'[u] = entry[u]
      BY <2>1 DEF Save, NotifyWaiters, PersistAck, Goto, history, TypeInv, TypeOK
    <3> QED  BY <1>0, <3>1, OrderStays
  <2>2. CASE TakeSeq(t)
    <3>1. /\ next' = next + 1 /\ UNCHANGED <<inbox, highest, overtaken>>
          /\ entry'[t].seq = next
          /\ \A u \in Task : u # t => pc'[u] = pc[u] /\ entry'[u] = entry[u]
      BY <2>2 DEF TakeSeq, Goto, history, TypeInv, TypeOK
    <3>2. highest < next' /\ next # highest
      BY <1>0, <3>1 DEF OrderInv
    <3>3. \A u \in Task : pc'[u] = "append" => entry'[u].seq # highest'
      BY <3>1, <3>2 DEF OrderInv
    <3> QED  BY <3>1, <3>2, <3>3 DEF OrderInv, LastSeq
  <2> QED  BY <1>1, <2>1, <2>2, AppendOrder DEF Push
<1>2. ASSUME NEW t \in Task, Caller(t)
      PROVE  OrderInv'
  <2>1. CASE Receive(t) \/ ImportBundle(t) \/ \E m \in Msg : SendMessage(t, m)
    <3>1. /\ UNCHANGED <<next, inbox, highest, overtaken>> /\ entry' = entry
          /\ pc'[t] = "seq" /\ \A u \in Task : u # t => pc'[u] = pc[u]
      BY <2>1 DEF Receive, ImportBundle, SendMessage, Begin, Goto, history, TypeInv, TypeOK
    <3> QED  BY <1>0, <3>1, OrderStays
  <2>2. ASSUME NEW m \in Msg, TakeAck(t, m)
        PROVE  OrderInv'
    <3>1. /\ UNCHANGED <<next, highest, overtaken>>
          /\ pc'[t] = "persist"
          /\ \A u \in Task : u # t => pc'[u] = pc[u] /\ entry'[u] = entry[u]
      BY <2>2 DEF TakeAck, Goto, history, TypeInv, TypeOK
    <3>2. inbox' = [i \in 1..Len(inbox) |->
                      IF inbox[i].id = m THEN [inbox[i] EXCEPT !.delivered = TRUE] ELSE inbox[i]]
      BY <1>0, <2>2 DEF TakeAck
    <3>3. \A i \in 1..Len(inbox) : inbox'[i].seq = inbox[i].seq /\ inbox'[i] \in Entry
      <4>1. ASSUME NEW i \in 1..Len(inbox)
            PROVE  /\ inbox[i] \in Entry
                   /\ [inbox[i] EXCEPT !.delivered = TRUE].seq = inbox[i].seq
                   /\ [inbox[i] EXCEPT !.delivered = TRUE] \in Entry
        <5>1. inbox[i] \in Entry
          BY <1>0
        <5> QED  BY <5>1 DEF Entry
      <4> QED  BY <3>2, <4>1
    <3>4. inbox' \in [1..Len(inbox) -> Entry] /\ Len(inbox) \in Nat
      BY <1>0, <3>2, <3>3
    <3>5. /\ DOMAIN inbox' = DOMAIN inbox /\ Len(inbox') = Len(inbox)
          /\ inbox' = <<>> <=> inbox = <<>>
          /\ \A i \in DOMAIN inbox : inbox'[i].seq = inbox[i].seq
      BY <1>0, <3>3, <3>4
    <3> QED  BY <1>0, <3>1, <3>5, OrderStays
  <2> QED  BY <1>2, <2>1, <2>2 DEF Caller
<1>3. ASSUME NEW c \in Client, Watch(c) \/ GiveUp(c)
      PROVE  OrderInv'
  <2>1. UNCHANGED <<next, inbox, tasks, highest, overtaken>>
    BY <1>3 DEF Watch, WatchFindsNewer, WatchWakes, WatchTimesOut, Answer,
                WatchFindsNothing, Register, GiveUp, history
  <2> QED  BY <1>0, <2>1, OrderStays DEF tasks
<1>4. CASE ExportBundle \/ BundleUnusable \/ UNCHANGED vars
  <2>1. UNCHANGED <<next, inbox, tasks, highest, overtaken>>
    BY <1>4 DEF ExportBundle, BundleUnusable, vars, history
  <2> QED  BY <1>0, <2>1, OrderStays DEF tasks
<1>5. CASE Restart
  <2>1. /\ inbox' = <<>> /\ next' = 1 /\ highest' = 0
        /\ \A t \in Task : pc'[t] = "idle"
    BY <1>5 DEF Restart
  <2>2. DOMAIN inbox' = {} /\ highest' < next' /\ \A t \in Task : pc'[t] # "append"
    BY <2>1
  <2> QED  BY <2>1, <2>2 DEF OrderInv
<1> QED  BY <1>1, <1>2, <1>3, <1>4, <1>5 DEF Next

LEMMA OrderInitially == Init => OrderInv
<1> SUFFICES ASSUME Init PROVE OrderInv
  OBVIOUS
<1>1. highest < next /\ DOMAIN inbox = {} /\ inbox = <<>> /\ \A t \in Task : pc[t] # "append"
  BY DEF Init
<1> QED  BY <1>1 DEF OrderInv

LEMMA AppendClients ==
  ASSUME TypeInv, TypeInv', NumbersInv, OrderInv, ClientInv, NEW t \in Task, AppendEntry(t)
  PROVE  ClientInv'
<1>1. /\ UNCHANGED <<cursor, ahead, shown, again, skipped>>
      /\ pc[t] = "append" /\ pc[t] \in Holding
  BY DEF AppendEntry, clients, Holding
<1>2. /\ highest <= highest' /\ overtaken \subseteq overtaken'
      /\ entry[t].seq = highest' \/ entry[t].seq \in overtaken'
      /\ overtaken' = IF entry[t].seq < highest THEN overtaken \cup {entry[t].seq} ELSE overtaken
      /\ highest \in Nat /\ highest' \in Nat /\ entry[t].seq \in Nat /\ entry[t].seq # highest
  BY <1>1, AppendOrder, SeqsAreNat DEF TypeInv, TypeOK, OrderInv, AppendEntry, NoteOrder
<1>3. ASSUME NEW c \in Client
      PROVE  /\ cursor'[c] <= ahead'[c] \/ cursor'[c] <= highest'
             /\ \A s \in shown'[c] :
                   s <= highest' /\ (s <= cursor'[c] \/ \E o \in overtaken' : o < s)
  <2>1. cursor[c] \in Nat /\ ahead[c] \in Nat /\ \A s \in shown[c] : s \in Nat
    BY SeqsAreNat
  <2>2. cursor'[c] <= ahead'[c] \/ cursor'[c] <= highest'
    BY <1>1, <1>2, <2>1 DEF ClientInv
  <2>3. ASSUME NEW s \in shown[c]
        PROVE  s <= highest' /\ (s <= cursor[c] \/ \E o \in overtaken' : o < s)
    <3>1. s <= highest /\ (s <= cursor[c] \/ \E o \in overtaken : o < s)
      BY DEF ClientInv
    <3>2. s <= highest'
      BY <1>2, <2>1, <3>1
    <3> QED  BY <1>2, <3>1, <3>2
  <2> QED  BY <1>1, <2>2, <2>3
<1>4. MissedExplained'
  <2> SUFFICES ASSUME NEW c \in Client, NEW i \in DOMAIN inbox', inbox'[i].seq <= cursor[c]
               PROVE  \/ inbox'[i].seq \in shown[c] \cup skipped[c] \cup overtaken'
                      \/ inbox'[i].seq <= ahead[c]
    BY <1>1 DEF MissedExplained, Numbers
  <2>1. cursor[c] \in Nat /\ ahead[c] \in Nat
    BY SeqsAreNat
  <2>2. CASE inbox'[i] = entry[t]
    <3>1. CASE cursor[c] <= ahead[c]
      BY <1>2, <2>1, <2>2, <3>1
    <3>2. CASE cursor[c] <= highest
      <4>1. entry[t].seq < highest
        BY <1>2, <2>1, <2>2, <3>2
      <4> QED  BY <1>2, <2>2, <4>1
    <3> QED  BY <3>1, <3>2 DEF ClientInv
  <2>3. ASSUME NEW j \in DOMAIN inbox, inbox'[i] = inbox[j]
        PROVE  \/ inbox'[i].seq \in shown[c] \cup skipped[c] \cup overtaken'
               \/ inbox'[i].seq <= ahead[c]
    BY <1>2, <2>3 DEF ClientInv, MissedExplained, Numbers
  <2> QED  BY <2>2, <2>3, AppendedIsLast
<1>5. ShownTwiceExplained'
  BY <1>1, <1>2 DEF ClientInv, ShownTwiceExplained
<1> QED  BY <1>3, <1>4, <1>5 DEF ClientInv

LEMMA AnswerClients ==
  ASSUME TypeInv, OrderInv, ClientInv, NEW c \in Client, Answer(c)
  PROVE  ClientInv'
<1> DEFINE out    == SeqsAt(Newer(cursor[c]))
           answer == SeqsAt(LastOf(Newer(cursor[c])))
<1>1. /\ cursor' = [cursor EXCEPT ![c] = NextSince(@)]
      /\ shown' = [shown EXCEPT ![c] = @ \cup answer]
      /\ again' = [again EXCEPT ![c] = @ \cup (shown[c] \cap answer)]
      /\ skipped' = [skipped EXCEPT ![c] = @ \cup (out \ answer)]
      /\ UNCHANGED <<inbox, ahead, highest, overtaken>>
  BY DEF Answer
<1>2. answer \subseteq out /\ out \subseteq Numbers /\ \A s \in out : s > cursor[c]
  BY DEF SeqsAt, Newer, LastOf, Numbers
<1>3. \A s \in Numbers : s \in Nat /\ s <= highest /\ (s > cursor[c] => s \in out)
  BY SeqsAreNat DEF Numbers, OrderInv, SeqsAt, Newer
<1>4. /\ cursor[c] \in Nat /\ ahead[c] \in Nat /\ highest \in Nat
      /\ \A s \in shown[c] : s \in Nat
      /\ \A o \in overtaken : o \in Nat
  BY SeqsAreNat
<1> HIDE DEF out, answer
<1>5. /\ cursor'[c] = NextSince(cursor[c]) /\ shown'[c] = shown[c] \cup answer
      /\ again'[c] = again[c] \cup (shown[c] \cap answer)
      /\ skipped'[c] = skipped[c] \cup (out \ answer)
      /\ \A b \in Client : b # c =>
            /\ cursor'[b] = cursor[b] /\ shown'[b] = shown[b]
            /\ again'[b] = again[b] /\ skipped'[b] = skipped[b]
  BY <1>1 DEF TypeInv, TypeOK
<1>6. \/ inbox = <<>> /\ cursor'[c] = cursor[c]
      \/ inbox # <<>> /\ cursor'[c] = LastSeq /\ LastSeq \in Numbers
  <2>1. inbox # <<>> => Len(inbox) \in DOMAIN inbox
    BY DEF TypeInv, TypeOK
  <2> QED  BY <1>5, <2>1 DEF NextSince, LastSeq, Numbers
<1>7. inbox = <<>> => answer = {} /\ Numbers = {}
  <2>1. inbox = <<>> => DOMAIN inbox = {}
    OBVIOUS
  <2> QED  BY <1>2, <2>1 DEF Numbers
<1>8. cursor'[c] <= ahead[c] \/ cursor'[c] <= highest
  BY <1>3, <1>6 DEF ClientInv
<1>9. ASSUME NEW s \in shown'[c]
      PROVE  s <= highest /\ (s <= cursor'[c] \/ \E o \in overtaken : o < s)
  <2>1. s \in Nat /\ s <= highest
    BY <1>2, <1>3, <1>4, <1>5 DEF ClientInv
  <2>2. CASE inbox = <<>>
    BY <1>5, <1>6, <1>7, <2>1, <2>2 DEF ClientInv
  <2>3. CASE inbox # <<>>
    <3>1. cursor'[c] = LastSeq /\ LastSeq \in Nat
      BY <1>3, <1>6, <2>3
    <3>2. CASE LastSeq = highest
      BY <2>1, <3>1, <3>2
    <3>3. CASE LastSeq \in overtaken
      <4>1. s <= LastSeq \/ LastSeq < s
        BY <2>1, <3>1
      <4> QED  BY <2>1, <3>1, <3>3, <4>1
    <3> QED  BY <2>3, <3>2, <3>3 DEF OrderInv
  <2> QED  BY <2>2, <2>3
<1>10. MissedExplained'
  <2> SUFFICES ASSUME NEW b \in Client, NEW s \in Numbers, s <= cursor'[b]
               PROVE  s \in shown'[b] \cup skipped'[b] \cup overtaken \/ s <= ahead[b]
    BY <1>1 DEF MissedExplained, Numbers
  <2>1. CASE b # c
    BY <1>5, <2>1 DEF ClientInv, MissedExplained
  <2>2. CASE b = c /\ s > cursor[c]
    BY <1>3, <1>5, <2>2
  <2>3. CASE b = c /\ s <= cursor[c]
    BY <1>5, <2>3 DEF ClientInv, MissedExplained
  <2>4. s \in Nat
    BY <1>3
  <2>5. s > cursor[c] \/ s <= cursor[c]
    BY <1>4, <2>4
  <2> QED  BY <2>1, <2>2, <2>3, <2>5
<1>11. ShownTwiceExplained'
  <2> SUFFICES ASSUME NEW b \in Client, NEW s \in again'[b]
               PROVE  \E o \in overtaken : o < s
    BY <1>1 DEF ShownTwiceExplained
  <2>1. CASE s \in again[b]
    BY <2>1 DEF ClientInv, ShownTwiceExplained
  <2>2. CASE b = c /\ s \in shown[c] \cap answer
    <3>1. s > cursor[c] /\ s \in Nat
      BY <1>2, <1>3, <2>2
    <3>2. ~(s <= cursor[c])
      BY <1>4, <3>1
    <3> QED  BY <2>2, <3>2 DEF ClientInv
  <2> QED  BY <1>5, <2>1, <2>2
<1> QED  BY <1>1, <1>5, <1>8, <1>9, <1>10, <1>11 DEF ClientInv

LEMMA ClientsStay ==
  ASSUME ClientInv, UNCHANGED <<cursor, ahead, highest, overtaken, shown, again, skipped>>,
         Numbers' = Numbers
  PROVE  ClientInv'
<1>1. MissedExplained'
  BY DEF ClientInv, MissedExplained
<1>2. ShownTwiceExplained'
  BY DEF ClientInv, ShownTwiceExplained
<1> QED  BY <1>1, <1>2 DEF ClientInv

LEMMA ClientStep ==
  TypeInv /\ TypeInv' /\ NumbersInv /\ OrderInv /\ ClientInv /\ [Next]_vars => ClientInv'
<1> SUFFICES ASSUME TypeInv, TypeInv', NumbersInv, OrderInv, ClientInv, [Next]_vars
             PROVE  ClientInv'
  OBVIOUS
<1>1. ASSUME NEW t \in Task, Push(t)
      PROVE  ClientInv'
  <2>1. CASE TakeSeq(t) \/ Save(t) \/ NotifyWaiters(t) \/ PersistAck(t)
    <3>1. UNCHANGED <<cursor, ahead, highest, overtaken, shown, again, skipped, inbox>>
      BY <2>1 DEF TakeSeq, Save, NotifyWaiters, PersistAck, clients, history
    <3> QED  BY <3>1, ClientsStay DEF Numbers
  <2> QED  BY <1>1, <2>1, AppendClients DEF Push
<1>2. ASSUME NEW t \in Task, Caller(t)
      PROVE  ClientInv'
  <2>1. UNCHANGED <<cursor, ahead, highest, overtaken, shown, again, skipped>>
    BY <1>2 DEF Caller, Receive, ImportBundle, SendMessage, Begin, TakeAck, clients, history
  <2>2. CASE Receive(t) \/ ImportBundle(t) \/ \E m \in Msg : SendMessage(t, m)
    <3>1. inbox' = inbox
      BY <2>2 DEF Receive, ImportBundle, SendMessage, Begin
    <3> QED  BY <2>1, <3>1, ClientsStay DEF Numbers
  <2>3. ASSUME NEW m \in Msg, TakeAck(t, m)
        PROVE  ClientInv'
    <3>1. ASSUME NEW i \in DOMAIN inbox
          PROVE  [inbox[i] EXCEPT !.delivered = TRUE].seq = inbox[i].seq
      <4>1. inbox[i] \in Entry
        BY DEF TypeInv, TypeOK
      <4> QED  BY <4>1 DEF Entry
    <3>2. DOMAIN inbox' = DOMAIN inbox /\ \A i \in DOMAIN inbox : inbox'[i].seq = inbox[i].seq
      BY <2>3, <3>1 DEF TakeAck
    <3>3. Numbers' = Numbers
      BY <3>2 DEF Numbers
    <3> QED  BY <2>1, <3>3, ClientsStay
  <2> QED  BY <1>2, <2>2, <2>3 DEF Caller
<1>3. ASSUME NEW c \in Client, Watch(c) \/ GiveUp(c)
      PROVE  ClientInv'
  <2>1. CASE WatchFindsNothing(c) \/ Register(c) \/ GiveUp(c)
    <3>1. UNCHANGED <<cursor, ahead, highest, overtaken, shown, again, skipped, inbox>>
      BY <2>1 DEF WatchFindsNothing, Register, GiveUp, history
    <3> QED  BY <3>1, ClientsStay DEF Numbers
  <2> QED  BY <1>3, <2>1, AnswerClients DEF Watch, WatchFindsNewer, WatchWakes, WatchTimesOut
<1>4. CASE ExportBundle \/ BundleUnusable \/ UNCHANGED vars
  <2>1. UNCHANGED <<cursor, ahead, highest, overtaken, shown, again, skipped, inbox>>
    BY <1>4 DEF ExportBundle, BundleUnusable, vars, clients, history
  <2> QED  BY <2>1, ClientsStay DEF Numbers
<1>5. CASE Restart
  <2>1. /\ ahead' = cursor /\ cursor' = cursor /\ inbox' = <<>>
        /\ \A c \in Client : shown'[c] = {} /\ again'[c] = {}
    BY <1>5 DEF Restart
  <2>2. \A c \in Client : cursor[c] <= cursor[c]
    BY SeqsAreNat
  <2>3. Numbers' = {}
    BY <2>1 DEF Numbers
  <2> QED  BY <2>1, <2>2, <2>3 DEF ClientInv, MissedExplained, ShownTwiceExplained
<1> QED  BY <1>1, <1>2, <1>3, <1>4, <1>5 DEF Next

LEMMA ClientInitially == Init => ClientInv
<1> SUFFICES ASSUME Init PROVE ClientInv
  OBVIOUS
<1>1. /\ Numbers = {}
      /\ \A c \in Client : cursor[c] <= ahead[c] /\ shown[c] = {} /\ again[c] = {}
  BY DEF Init, Numbers
<1> QED  BY <1>1 DEF ClientInv, MissedExplained, ShownTwiceExplained

WatchInv == TypeInv /\ NumbersInv /\ OrderInv /\ ClientInv

LEMMA WatchInvariant == Spec => []WatchInv
<1>1. Init => WatchInv
  BY TypeInitially, NumbersInitially, OrderInitially, ClientInitially DEF WatchInv
<1>2. WatchInv /\ [Next]_vars => WatchInv'
  BY TypeStep, NumbersStep, OrderStep, ClientStep DEF WatchInv
<1> QED  BY <1>1, <1>2, PTL DEF Spec

\* What a client is not shown, although its cursor is past it, was appended late,
\* cut off by the limit, or comes after a restart (list_inbox, watch_inbox).
THEOREM MissesAreExplained == Spec => []MissedExplained
<1>1. WatchInv => MissedExplained
  BY DEF WatchInv, ClientInv
<1> QED  BY <1>1, WatchInvariant, PTL

\* A client sees an entry again only after the cursor went back to a number that
\* was appended late (list_inbox).
THEOREM RepeatsAreExplained == Spec => []ShownTwiceExplained
<1>1. WatchInv => ShownTwiceExplained
  BY DEF WatchInv, ClientInv
<1> QED  BY <1>1, WatchInvariant, PTL

-----------------------------------------------------------------------------
(* Acknowledgements.                                                       *)

Sending(t, m) ==
  \/ \E i \in DOMAIN todo[t] : todo[t][i].own /\ todo[t][i].id = m
  \/ pc[t] \in Holding /\ entry[t].own /\ entry[t].id = m

\* A message of our own is appended by one task, before it is sent.
SendingInv ==
  /\ \A i \in DOMAIN bundle : ~bundle[i].own
  /\ \A t \in Task : \A i \in DOMAIN todo[t] :
        todo[t][i].own => pc[t] = "seq" /\ Len(todo[t]) = 1 /\ ~todo[t][i].delivered
  /\ \A t \in Task : pc[t] \in Holding /\ entry[t].own => ~entry[t].delivered
  /\ \A t \in Task, m \in Msg : Sending(t, m) => m \in used \ sent
  /\ \A t, u \in Task, m \in Msg : Sending(t, m) /\ Sending(u, m) => t = u

LEMMA SendingStays ==
  ASSUME SendingInv, bundle' = bundle, used \subseteq used', sent' = sent,
         NEW t \in Task,
         \A u \in Task : u # t => pc'[u] = pc[u] /\ todo'[u] = todo[u] /\ entry'[u] = entry[u],
         \A i \in DOMAIN todo'[t] :
            todo'[t][i].own => pc'[t] = "seq" /\ Len(todo'[t]) = 1 /\ ~todo'[t][i].delivered,
         pc'[t] \in Holding /\ entry'[t].own => ~entry'[t].delivered,
         \A m \in Msg : Sending(t, m)' => Sending(t, m) \/ m \in used' \ used,
         \A u \in Task, m \in Msg : Sending(u, m) => m \in used,
         sent \subseteq used
  PROVE  SendingInv'
<1>1. \A u \in Task, m \in Msg : u # t => (Sending(u, m)' <=> Sending(u, m))
  BY DEF Sending
<1>2. \A u \in Task, m \in Msg : Sending(u, m)' => m \in used' \ sent'
  BY <1>1 DEF SendingInv
<1>3. \A u, v \in Task, m \in Msg : Sending(u, m)' /\ Sending(v, m)' => u = v
  BY <1>1 DEF SendingInv
<1> QED  BY <1>2, <1>3 DEF SendingInv

LEMMA SendingStep == TypeInv /\ SendingInv /\ [Next]_vars => SendingInv'
<1> SUFFICES ASSUME TypeInv, SendingInv, [Next]_vars
             PROVE  SendingInv'
  OBVIOUS
<1>0. /\ \A t \in Task, m \in Msg : Sending(t, m) => m \in used
      /\ sent \subseteq used /\ pc \in [Task -> {"idle", "seq", "append", "save", "notify", "persist"}]
      /\ todo \in [Task -> Seq(Item)] /\ DOMAIN entry = Task
  BY DEF SendingInv, TypeInv, TypeOK
<1>1. ASSUME NEW t \in Task, TakeSeq(t)
      PROVE  SendingInv'
  <2>1. /\ pc[t] = "seq" /\ pc' = [pc EXCEPT ![t] = "append"]
        /\ todo' = [todo EXCEPT ![t] = Tail(@)]
        /\ entry' = [entry EXCEPT ![t] =
              [seq |-> next, id |-> Head(todo[t]).id, own |-> Head(todo[t]).own,
               delivered |-> Head(todo[t]).delivered]]
        /\ UNCHANGED <<used, sent, bundle>>
    BY <1>1 DEF TakeSeq, Goto
  <2>2. /\ entry'[t].id = Head(todo[t]).id /\ entry'[t].own = Head(todo[t]).own
        /\ entry'[t].delivered = Head(todo[t]).delivered
        /\ todo'[t] = Tail(todo[t]) /\ pc'[t] = "append"
        /\ \A u \in Task : u # t => pc'[u] = pc[u] /\ todo'[u] = todo[u] /\ entry'[u] = entry[u]
    BY <1>0, <2>1
  <2>3. todo[t] \in Seq(Item) /\ todo[t] # <<>>
    BY <2>1 DEF TypeInv, TypeOK, Staged
  <2>4. /\ 1 \in DOMAIN todo[t] /\ Head(todo[t]) = todo[t][1]
        /\ \A i \in DOMAIN Tail(todo[t]) : i + 1 \in DOMAIN todo[t]
                                        /\ Tail(todo[t])[i] = todo[t][i + 1]
        /\ Len(todo[t]) = 1 => DOMAIN Tail(todo[t]) = {}
    <3>1. 1 \in DOMAIN todo[t] /\ Head(todo[t]) = todo[t][1]
      BY <2>3
    <3>2. \A i \in DOMAIN Tail(todo[t]) : i + 1 \in DOMAIN todo[t]
                                       /\ Tail(todo[t])[i] = todo[t][i + 1]
      BY <2>3
    <3>3. /\ DOMAIN Tail(todo[t]) = 1..Len(Tail(todo[t]))
          /\ Len(Tail(todo[t])) = Len(todo[t]) - 1
      BY <2>3
    <3>4. ASSUME Len(todo[t]) = 1 PROVE DOMAIN Tail(todo[t]) = {}
      <4>1. Len(Tail(todo[t])) = 0
        BY <3>3, <3>4
      <4>2. DOMAIN Tail(todo[t]) = 1..0
        BY <3>3, <4>1
      <4>3. 1..0 = {}
        OBVIOUS
      <4> QED  BY <4>2, <4>3
    <3> QED  BY <3>1, <3>2, <3>4
  <2>5. \A i \in DOMAIN todo'[t] : ~todo'[t][i].own
    BY <2>2, <2>4 DEF SendingInv
  <2>6. entry'[t].own => ~entry'[t].delivered
    BY <2>2, <2>4 DEF SendingInv
  <2>7. \A m \in Msg : Sending(t, m)' => Sending(t, m)
    BY <2>2, <2>4, <2>5 DEF Sending
  <2> QED  BY <1>0, <2>1, <2>2, <2>5, <2>6, <2>7, SendingStays
<1>2. ASSUME NEW t \in Task, AppendEntry(t) \/ Save(t)
      PROVE  SendingInv'
  <2>1. /\ pc[t] \in Unsaved /\ pc'[t] \in Holding
        /\ UNCHANGED <<todo, entry, used, sent, bundle>>
        /\ \A u \in Task : u # t => pc'[u] = pc[u]
    BY <1>0, <1>2 DEF AppendEntry, Save, Goto, Unsaved, Holding
  <2>2. pc[t] \in Holding /\ pc[t] # "seq"
    BY <2>1 DEF Unsaved, Holding
  <2> QED  BY <1>0, <2>1, <2>2, SendingStays DEF SendingInv, Sending
<1>3. ASSUME NEW t \in Task, NotifyWaiters(t)
      PROVE  SendingInv'
  <2>1. /\ pc[t] = "notify" /\ pc'[t] \in {"idle", "seq"}
        /\ sent' = sent \cup {m \in Msg : entry[t].own /\ entry[t].id = m}
        /\ UNCHANGED <<todo, used, bundle>>
        /\ \A u \in Task : u # t => pc'[u] = pc[u] /\ entry'[u] = entry[u]
    BY <1>0, <1>3 DEF NotifyWaiters, Goto
  <2>2. \A i \in DOMAIN todo[t] : ~todo[t][i].own
    BY <2>1 DEF SendingInv
  <2>3. \A m \in Msg : ~Sending(t, m)'
    BY <2>1, <2>2 DEF Sending, Holding
  <2>4. \A u \in Task, m \in Msg : u # t => (Sending(u, m)' <=> Sending(u, m))
    BY <2>1 DEF Sending
  <2>5. \A m \in Msg : entry[t].own /\ entry[t].id = m => Sending(t, m)
    BY <2>1 DEF Sending, Holding
  <2>6. \A u \in Task, m \in Msg : Sending(u, m)' => m \in used' \ sent'
    BY <2>1, <2>3, <2>4, <2>5 DEF SendingInv
  <2>7. \A u, v \in Task, m \in Msg : Sending(u, m)' /\ Sending(v, m)' => u = v
    BY <2>3, <2>4 DEF SendingInv
  <2>8. \A u \in Task : \A i \in DOMAIN todo'[u] :
           todo'[u][i].own => pc'[u] = "seq" /\ Len(todo'[u]) = 1 /\ ~todo'[u][i].delivered
    BY <2>1, <2>2 DEF SendingInv
  <2>9. \A u \in Task : pc'[u] \in Holding /\ entry'[u].own => ~entry'[u].delivered
    BY <2>1 DEF SendingInv, Holding
  <2> QED  BY <2>1, <2>6, <2>7, <2>8, <2>9 DEF SendingInv
<1>4. ASSUME NEW t \in Task, PersistAck(t) \/ \E m \in Msg : TakeAck(t, m)
      PROVE  SendingInv'
  <2>1. /\ pc[t] \in {"idle", "persist"} /\ pc'[t] \in {"idle", "persist"}
        /\ UNCHANGED <<todo, used, sent, bundle>>
        /\ \A u \in Task : u # t => pc'[u] = pc[u] /\ entry'[u] = entry[u]
    BY <1>0, <1>4 DEF PersistAck, TakeAck, Goto
  <2>2. pc'[t] \notin Holding /\ \A i \in DOMAIN todo[t] : ~todo[t][i].own
    BY <2>1 DEF Holding, SendingInv
  <2>3. \A m \in Msg : ~Sending(t, m)'
    BY <2>1, <2>2 DEF Sending
  <2> QED  BY <1>0, <2>1, <2>2, <2>3, SendingStays
<1>5. ASSUME NEW t \in Task, Receive(t) \/ ImportBundle(t) \/ \E m \in Msg : SendMessage(t, m)
      PROVE  SendingInv'
  <2>1. PICK items : /\ Begin(t, items)
                     /\ \/ items = bundle /\ used' = used
                        \/ items = <<[id |-> None, own |-> TRUE, delivered |-> FALSE]>> /\ used' = used
                        \/ \E m \in Msg \ used :
                              /\ items = <<[id |-> m, own |-> TRUE, delivered |-> FALSE]>>
                              /\ used' = used \cup {m}
    BY <1>5 DEF Receive, ImportBundle, SendMessage
  <2>2. /\ pc[t] = "idle" /\ pc'[t] = "seq" /\ todo'[t] = items
        /\ UNCHANGED <<entry, sent, bundle>>
        /\ \A u \in Task : u # t => pc'[u] = pc[u] /\ todo'[u] = todo[u]
    BY <1>0, <2>1 DEF Begin, Goto
  <2>3. used \subseteq used' /\ pc'[t] \notin Holding
    BY <2>1, <2>2 DEF Holding
  <2>4. CASE items = bundle /\ used' = used
    <3>1. \A i \in DOMAIN todo'[t] : ~todo'[t][i].own
      BY <2>2, <2>4 DEF SendingInv
    <3>2. \A m \in Msg : ~Sending(t, m)'
      BY <2>3, <3>1 DEF Sending
    <3> QED  BY <1>0, <2>2, <2>3, <3>1, <3>2, SendingStays
  <2>5. ASSUME NEW m \in (Msg \ used) \cup {None},
               items = <<[id |-> m, own |-> TRUE, delivered |-> FALSE]>>,
               m # None => used' = used \cup {m}
        PROVE  SendingInv'
    <3>1. /\ Len(items) = 1 /\ DOMAIN items = {1} /\ items[1].id = m
          /\ items[1].own /\ ~items[1].delivered
      BY <2>5
    <3>2. \A k \in Msg : Sending(t, k)' => k \in used' \ used
      BY <2>2, <2>3, <2>5, <3>1, InboxAssumption DEF Sending
    <3>3. \A i \in DOMAIN todo'[t] : Len(todo'[t]) = 1 /\ ~todo'[t][i].delivered
      BY <2>2, <3>1
    <3> QED  BY <1>0, <2>2, <2>3, <3>2, <3>3, SendingStays
  <2> QED  BY <2>1, <2>4, <2>5
<1>6. ASSUME UNCHANGED tasks, \A i \in DOMAIN bundle' : ~bundle'[i].own
      PROVE  SendingInv'
  BY <1>6 DEF SendingInv, Sending, tasks
<1>7. CASE ExportBundle
  <2>1. bundle' = Bundle(Newest(inbox, Limit)) /\ UNCHANGED tasks
    BY <1>7 DEF ExportBundle
  <2>2. \A i \in DOMAIN bundle' : ~bundle'[i].own
    BY <2>1 DEF Bundle
  <2> QED  BY <1>6, <2>1, <2>2
<1>8. CASE BundleUnusable
  BY <1>6, <1>8 DEF BundleUnusable
<1>9. ASSUME NEW c \in Client, Watch(c) \/ GiveUp(c)
      PROVE  SendingInv'
  <2>1. UNCHANGED tasks /\ UNCHANGED bundle
    BY <1>9 DEF Watch, WatchFindsNewer, WatchWakes, WatchTimesOut, Answer,
                WatchFindsNothing, Register, GiveUp
  <2> QED  BY <1>6, <2>1 DEF SendingInv
<1>10. CASE Restart
  <2>1. /\ \A t \in Task : pc'[t] = "idle" /\ todo'[t] = <<>>
        /\ bundle' = bundle
    BY <1>10 DEF Restart
  <2>2. \A t \in Task : DOMAIN todo'[t] = {} /\ pc'[t] \notin Holding
    BY <2>1 DEF Holding
  <2> QED  BY <2>1, <2>2 DEF SendingInv, Sending
<1>11. CASE UNCHANGED vars
  BY <1>6, <1>11 DEF vars, SendingInv
<1> QED  BY <1>1, <1>2, <1>3, <1>4, <1>5, <1>7, <1>8, <1>9, <1>10, <1>11 DEF Next, Push, Caller

LEMMA SendingInitially == Init => SendingInv
<1> SUFFICES ASSUME Init PROVE SendingInv
  OBVIOUS
<1>1. /\ DOMAIN bundle = {}
      /\ \A t \in Task : DOMAIN todo[t] = {} /\ pc[t] \notin Holding
  BY DEF Init, Holding
<1> QED  BY <1>1 DEF SendingInv, Sending

OwnHere(m) ==
  \/ \E t \in Task : Sending(t, m)
  \/ \E i \in DOMAIN inbox : inbox[i].own /\ inbox[i].id = m

Recorded(m) == \E r \in db : r.id = m
Flagged(m)  == \E r \in db : r.id = m /\ r.delivered

RecordInv ==
  /\ \A t \in Task, m \in Msg :
        pc[t] = "notify" /\ entry[t].own /\ entry[t].id = m => Recorded(m)
  /\ \A m \in sent : Recorded(m)
  /\ \A m \in Msg : OwnHere(m) =>
        \A r \in db : r.id = m =>
           r.seq < next /\ \A t \in Task : pc[t] \in Unsaved => r.seq # entry[t].seq
  /\ DeliveredPersisted

\* Steps that take no number, keep the database and flag nothing.
LEMMA RecordsStay ==
  ASSUME RecordInv, UNCHANGED <<next, db, sent>>,
         \A m \in Msg : OwnHere(m)' => OwnHere(m) \/ ~Recorded(m),
         \A i \in DOMAIN inbox' : inbox'[i].own /\ inbox'[i].delivered =>
            \E j \in DOMAIN inbox : inbox'[i] = inbox[j],
         \A t \in Task : pc'[t] \in Unsaved => pc[t] \in Unsaved /\ entry'[t] = entry[t],
         \A t \in Task : pc'[t] = "notify" => pc[t] = "notify" /\ entry'[t] = entry[t],
         \A t \in Task : pc[t] = "persist" => pc'[t] = "persist" /\ entry'[t] = entry[t]
  PROVE  RecordInv'
<1>1. \A m : Recorded(m)' <=> Recorded(m)
  BY DEF Recorded
<1>2. ASSUME NEW m \in Msg, OwnHere(m)', NEW r \in db, r.id = m
      PROVE  r.seq < next' /\ \A t \in Task : pc'[t] \in Unsaved => r.seq # entry'[t].seq
  <2>1. OwnHere(m)
    BY <1>2 DEF Recorded
  <2> QED  BY <1>2, <2>1 DEF RecordInv
<1>3. DeliveredPersisted'
  <2> SUFFICES ASSUME NEW i \in DOMAIN inbox', inbox'[i].own, inbox'[i].delivered,
                      \A t \in Task : pc'[t] = "persist" => entry'[t] # inbox'[i].id
               PROVE  \E r \in db : r.id = inbox'[i].id /\ r.delivered
    BY DEF DeliveredPersisted
  <2>1. PICK j \in DOMAIN inbox : inbox'[i] = inbox[j]
    OBVIOUS
  <2>2. \A t \in Task : pc[t] = "persist" => entry[t] # inbox[j].id
    BY <2>1
  <2> QED  BY <2>1, <2>2 DEF RecordInv, DeliveredPersisted
<1>4. \A t \in Task, m \in Msg :
        pc'[t] = "notify" /\ entry'[t].own /\ entry'[t].id = m => Recorded(m)'
  BY <1>1 DEF RecordInv
<1>5. \A m \in sent' : Recorded(m)'
  BY <1>1 DEF RecordInv
<1>6. \A m \in Msg : OwnHere(m)' =>
        \A r \in db' : r.id = m =>
           r.seq < next' /\ \A t \in Task : pc'[t] \in Unsaved => r.seq # entry'[t].seq
  BY <1>2
<1> QED  BY <1>3, <1>4, <1>5, <1>6 DEF RecordInv

LEMMA TakeSeqRecords ==
  ASSUME TypeInv, SendingInv, RecordInv, NEW t \in Task, TakeSeq(t)
  PROVE  RecordInv'
<1>1. /\ next \in Nat /\ next' = next + 1 /\ pc[t] = "seq" /\ pc'[t] = "append"
      /\ UNCHANGED <<inbox, db, used, sent>>
      /\ todo'[t] = Tail(todo[t])
      /\ entry'[t].seq = next /\ entry'[t].id = Head(todo[t]).id /\ entry'[t].own = Head(todo[t]).own
      /\ \A u \in Task : u # t => pc'[u] = pc[u] /\ todo'[u] = todo[u] /\ entry'[u] = entry[u]
  BY DEF TakeSeq, Goto, TypeInv, TypeOK
<1>2. todo[t] \in Seq(Item) /\ todo[t] # <<>>
  BY <1>1 DEF TypeInv, TypeOK, Staged
<1>3. 1 \in DOMAIN todo[t] /\ Head(todo[t]) = todo[t][1]
  BY <1>2
<1>4. \A i \in DOMAIN Tail(todo[t]) : i + 1 \in DOMAIN todo[t] /\ Tail(todo[t])[i] = todo[t][i + 1]
  BY <1>2
<1>5. \A u \in Task, m \in Msg : Sending(u, m)' => Sending(u, m)
  <2>1. ASSUME NEW m \in Msg, Sending(t, m)' PROVE Sending(t, m)
    <3>1. \/ Head(todo[t]).own /\ Head(todo[t]).id = m
          \/ \E i \in DOMAIN Tail(todo[t]) : Tail(todo[t])[i].own /\ Tail(todo[t])[i].id = m
      BY <1>1, <2>1 DEF Sending
    <3> QED  BY <1>3, <1>4, <3>1 DEF Sending
  <2>2. ASSUME NEW u \in Task, u # t, NEW m \in Msg, Sending(u, m)' PROVE Sending(u, m)
    BY <1>1, <2>2 DEF Sending
  <2> QED  BY <2>1, <2>2
<1>6. \A m \in Msg : OwnHere(m)' => OwnHere(m)
  BY <1>1, <1>5 DEF OwnHere
<1>7. \A r \in db : r.seq \in Nat
  BY DEF TypeInv, TypeOK, Record, Seqs
<1>8. ASSUME NEW m \in Msg, OwnHere(m)', NEW r \in db, r.id = m
      PROVE  r.seq < next' /\ \A u \in Task : pc'[u] \in Unsaved => r.seq # entry'[u].seq
  <2>1. r.seq < next /\ \A u \in Task : pc[u] \in Unsaved => r.seq # entry[u].seq
    BY <1>6, <1>8 DEF RecordInv
  <2>2. r.seq < next' /\ r.seq # next
    BY <1>1, <1>7, <2>1
  <2> QED  BY <1>1, <2>1, <2>2
<1>9. /\ \A u \in Task : pc'[u] = "notify" => pc[u] = "notify" /\ entry'[u] = entry[u]
      /\ \A u \in Task : pc[u] = "persist" => pc'[u] = "persist" /\ entry'[u] = entry[u]
  BY <1>1
<1>10. DeliveredPersisted'
  BY <1>1, <1>9 DEF RecordInv, DeliveredPersisted
<1> QED  BY <1>1, <1>8, <1>9, <1>10 DEF RecordInv, Recorded

LEMMA AppendRecords ==
  ASSUME TypeInv, SendingInv, RecordInv, NEW t \in Task, AppendEntry(t)
  PROVE  RecordInv'
<1>1. /\ pc[t] = "append" /\ pc'[t] = "save" /\ \A u \in Task : u # t => pc'[u] = pc[u]
      /\ UNCHANGED <<next, db, todo, entry, used, sent>>
  BY DEF AppendEntry, Goto, TypeInv, TypeOK
<1>2. pc[t] \in Unsaved /\ pc[t] \in Holding /\ pc'[t] \in Holding
  BY <1>1 DEF Unsaved, Holding
<1>3. \A u \in Task, m \in Msg : Sending(u, m)' <=> Sending(u, m)
  BY <1>1, <1>2 DEF Sending
<1>4. \A i \in DOMAIN inbox' :
         inbox'[i] = entry[t] \/ \E j \in DOMAIN inbox : inbox'[i] = inbox[j]
  BY AppendedIsLast
<1>5. \A m \in Msg : entry[t].own /\ entry[t].id = m => Sending(t, m)
  BY <1>2 DEF Sending
<1>6. \A m \in Msg : OwnHere(m)' => OwnHere(m)
  BY <1>3, <1>4, <1>5 DEF OwnHere
<1>7. \A i \in DOMAIN inbox' : inbox'[i].own /\ inbox'[i].delivered =>
         \E j \in DOMAIN inbox : inbox'[i] = inbox[j]
  BY <1>2, <1>4 DEF SendingInv
<1>8. /\ \A u \in Task : pc'[u] \in Unsaved => pc[u] \in Unsaved
      /\ \A u \in Task : pc'[u] = "notify" => pc[u] = "notify"
      /\ \A u \in Task : pc[u] = "persist" => pc'[u] = "persist"
  BY <1>1, <1>2
<1> QED  BY <1>1, <1>6, <1>7, <1>8, RecordsStay

LEMMA SaveRecords ==
  ASSUME TypeInv, NumbersInv, RecordInv, NEW t \in Task, Save(t)
  PROVE  RecordInv'
<1> DEFINE e == entry[t]
           new == [seq |-> e.seq, id |-> e.id, delivered |-> e.delivered]
<1>1. /\ pc[t] = "save" /\ pc'[t] = "notify" /\ \A u \in Task : u # t => pc'[u] = pc[u]
      /\ UNCHANGED <<next, inbox, todo, entry, used, sent>>
      /\ db' = IF e.id = None THEN db
               ELSE {r \in db : r.id # e.id \/ r.seq # e.seq} \cup {new}
  BY DEF Save, Goto, TypeInv, TypeOK
<1>2. new.id = e.id /\ new.seq = e.seq
  OBVIOUS
<1> HIDE DEF new
<1>3. pc[t] \in Unsaved /\ pc[t] \in Holding /\ pc'[t] \notin Unsaved /\ pc'[t] \in Holding
  BY <1>1 DEF Unsaved, Holding
<1>4. \A u \in Task, m \in Msg : Sending(u, m)' <=> Sending(u, m)
  BY <1>1, <1>3 DEF Sending
<1>5. \A m \in Msg : OwnHere(m)' <=> OwnHere(m)
  BY <1>1, <1>4 DEF OwnHere
<1>6. \A m : Recorded(m) => Recorded(m)'
  BY <1>1, <1>2 DEF Recorded
<1>7. \A m \in Msg : m = e.id => Recorded(m)'
  BY <1>1, <1>2, InboxAssumption DEF Recorded
<1>8. ASSUME NEW m \in Msg, OwnHere(m), NEW r \in db', r.id = m
      PROVE  r.seq < next /\ \A u \in Task : pc'[u] \in Unsaved => r.seq # entry[u].seq
  <2>1. \A u \in Task : pc'[u] \in Unsaved => u # t /\ pc[u] \in Unsaved
    BY <1>1, <1>3
  <2>2. CASE r \in db
    BY <1>8, <2>1, <2>2 DEF RecordInv
  <2>3. CASE r = new
    BY <1>2, <1>3, <2>1, <2>3 DEF NumbersInv
  <2> QED  BY <1>1, <2>2, <2>3
<1>9. ASSUME NEW m \in Msg, OwnHere(m), Flagged(m)
      PROVE  Flagged(m)'
  <2>1. PICK r \in db : r.id = m /\ r.delivered
    BY <1>9 DEF Flagged
  <2>2. r.seq # e.seq
    BY <1>3, <1>9, <2>1 DEF RecordInv
  <2> QED  BY <1>1, <2>1, <2>2 DEF Flagged
<1>10. DeliveredPersisted'
  <2> SUFFICES ASSUME NEW i \in DOMAIN inbox, inbox[i].own, inbox[i].delivered,
                      \A u \in Task : pc'[u] = "persist" => entry[u] # inbox[i].id
               PROVE  \E k : k = inbox[i].id /\ Flagged(k)'
    BY <1>1 DEF DeliveredPersisted, Flagged
  <2>1. \A u \in Task : pc[u] = "persist" => pc'[u] = "persist"
    BY <1>1
  <2>2. Flagged(inbox[i].id)
    BY <2>1 DEF RecordInv, DeliveredPersisted, Flagged
  <2>3. inbox[i].id \in Msg
    BY <2>2 DEF Flagged, TypeInv, TypeOK, Record
  <2>4. OwnHere(inbox[i].id)
    BY DEF OwnHere
  <2> QED  BY <1>9, <2>2, <2>3, <2>4
<1>11. ASSUME NEW u \in Task, NEW m \in Msg, pc'[u] = "notify", entry[u].own, entry[u].id = m
       PROVE  Recorded(m)'
  <2>1. CASE u = t
    BY <1>7, <1>11, <2>1
  <2>2. CASE u # t
    BY <1>1, <1>6, <1>11, <2>2 DEF RecordInv
  <2> QED  BY <2>1, <2>2
<1>12. \A m \in sent' : Recorded(m)'
  BY <1>1, <1>6 DEF RecordInv
<1> QED  BY <1>1, <1>5, <1>8, <1>10, <1>11, <1>12 DEF RecordInv

LEMMA PersistRecords ==
  ASSUME TypeInv, RecordInv, NEW t \in Task, PersistAck(t)
  PROVE  RecordInv'
<1>1. /\ pc[t] = "persist" /\ pc'[t] = "idle"
      /\ \A u \in Task : u # t => pc'[u] = pc[u] /\ entry'[u] = entry[u]
      /\ UNCHANGED <<next, inbox, todo, used, sent>>
  BY DEF PersistAck, Goto, TypeInv, TypeOK
<1>2. entry[t] \in sent /\ Recorded(entry[t])
  BY <1>1 DEF TypeInv, Staged, RecordInv
<1>3. PICK q \in db : /\ q.id = entry[t]
                     /\ db' = (db \ {q}) \cup {[q EXCEPT !.delivered = TRUE]}
  BY <1>2 DEF PersistAck, Recorded
<1> DEFINE n == [q EXCEPT !.delivered = TRUE]
<1>4. n.id = q.id /\ n.seq = q.seq /\ n.delivered
  BY DEF TypeInv, TypeOK, Record
<1>5. db' = (db \ {q}) \cup {n}
  BY <1>3
<1> HIDE DEF n
<1>6. /\ \A r \in db' : \E p \in db : p.id = r.id /\ p.seq = r.seq
      /\ \A m : Recorded(m) => Recorded(m)'
      /\ \A m : Flagged(m) => Flagged(m)'
      /\ \A m : m = entry[t] => Flagged(m)'
  <2>1. \A r \in db' : r \in db \/ (r.id = q.id /\ r.seq = q.seq)
    BY <1>4, <1>5
  <2>2. \A r \in db : \E p \in db' : p.id = r.id /\ (r.delivered => p.delivered)
    BY <1>4, <1>5
  <2>3. n \in db' /\ n.id = entry[t] /\ n.delivered
    BY <1>3, <1>4, <1>5
  <2>4. \A m : Recorded(m) => Recorded(m)'
    BY <2>2 DEF Recorded
  <2>5. \A m : Flagged(m) => Flagged(m)'
    BY <2>2 DEF Flagged
  <2>6. \A m : m = entry[t] => Flagged(m)'
    BY <2>3 DEF Flagged
  <2> QED  BY <2>1, <2>4, <2>5, <2>6
<1>7. /\ \A u \in Task : pc'[u] \in Holding => u # t /\ pc[u] \in Holding
      /\ \A u \in Task : pc'[u] \in Unsaved => u # t /\ pc[u] \in Unsaved
  BY <1>1 DEF Holding, Unsaved
<1>8. \A m \in Msg : OwnHere(m)' => OwnHere(m)
  <2>1. \A u \in Task, m \in Msg : Sending(u, m)' => Sending(u, m)
    BY <1>1, <1>7 DEF Sending
  <2> QED  BY <1>1, <2>1 DEF OwnHere
<1>9. \A m \in Msg : OwnHere(m)' =>
        \A r \in db' : r.id = m =>
           r.seq < next' /\ \A u \in Task : pc'[u] \in Unsaved => r.seq # entry'[u].seq
  <2> SUFFICES ASSUME NEW m \in Msg, OwnHere(m)', NEW r \in db', r.id = m
               PROVE  r.seq < next' /\ \A u \in Task : pc'[u] \in Unsaved => r.seq # entry'[u].seq
    OBVIOUS
  <2>1. PICK p \in db : p.id = r.id /\ p.seq = r.seq
    BY <1>6
  <2>2. p.seq < next /\ \A u \in Task : pc[u] \in Unsaved => p.seq # entry[u].seq
    BY <1>8, <2>1 DEF RecordInv
  <2> QED  BY <1>1, <1>7, <2>1, <2>2
<1>10. DeliveredPersisted'
  <2> SUFFICES ASSUME NEW i \in DOMAIN inbox, inbox[i].own, inbox[i].delivered,
                      \A u \in Task : pc'[u] = "persist" => entry'[u] # inbox[i].id
               PROVE  \E k : k = inbox[i].id /\ Flagged(k)'
    BY <1>1 DEF DeliveredPersisted, Flagged
  <2>1. CASE inbox[i].id = entry[t]
    BY <1>6, <2>1
  <2>2. CASE inbox[i].id # entry[t]
    <3>1. \A u \in Task : pc[u] = "persist" => entry[u] # inbox[i].id
      BY <1>1, <2>2
    <3> QED  BY <1>6, <3>1 DEF RecordInv, DeliveredPersisted, Flagged
  <2> QED  BY <2>1, <2>2
<1>11. \A u \in Task, m \in Msg :
         pc'[u] = "notify" /\ entry'[u].own /\ entry'[u].id = m => Recorded(m)'
  BY <1>1, <1>6 DEF RecordInv
<1>12. \A m \in sent' : Recorded(m)'
  BY <1>1, <1>6 DEF RecordInv
<1> QED  BY <1>9, <1>10, <1>11, <1>12 DEF RecordInv

LEMMA RecordStep ==
  TypeInv /\ TypeInv' /\ NumbersInv /\ SendingInv /\ SendingInv' /\ RecordInv /\ [Next]_vars
    => RecordInv'
<1> SUFFICES ASSUME TypeInv, TypeInv', NumbersInv, SendingInv, SendingInv', RecordInv, [Next]_vars
             PROVE  RecordInv'
  OBVIOUS
<1>0. pc \in [Task -> {"idle", "seq", "append", "save", "notify", "persist"}]
  BY DEF TypeInv, TypeOK
<1>1. ASSUME NEW t \in Task, NotifyWaiters(t)
      PROVE  RecordInv'
  <2>1. /\ pc[t] = "notify" /\ pc'[t] \in {"idle", "seq"}
        /\ sent' = sent \cup {m \in Msg : entry[t].own /\ entry[t].id = m}
        /\ UNCHANGED <<next, inbox, db, todo>>
        /\ \A u \in Task : u # t => pc'[u] = pc[u] /\ entry'[u] = entry[u]
    BY <1>0, <1>1 DEF NotifyWaiters, Goto
  <2>2. /\ \A u \in Task : pc'[u] \in Holding => u # t
        /\ \A u \in Task : pc'[u] \in Unsaved => u # t
        /\ \A u \in Task : pc'[u] = "notify" => u # t
        /\ \A u \in Task : pc[u] = "persist" => u # t
    BY <2>1 DEF Holding, Unsaved
  <2>3. \A m \in Msg : OwnHere(m)' => OwnHere(m)
    <3>1. \A u \in Task, m \in Msg : Sending(u, m)' => Sending(u, m)
      BY <2>1, <2>2 DEF Sending
    <3> QED  BY <2>1, <3>1 DEF OwnHere
  <2>4. \A m \in sent' : Recorded(m)'
    <3>1. \A m \in sent' : Recorded(m)
      BY <2>1 DEF RecordInv
    <3> QED  BY <2>1, <3>1 DEF Recorded
  <2>5. \A u \in Task, m \in Msg :
          pc'[u] = "notify" /\ entry'[u].own /\ entry'[u].id = m => Recorded(m)'
    <3>1. \A u \in Task, m \in Msg :
            pc'[u] = "notify" /\ entry'[u].own /\ entry'[u].id = m => Recorded(m)
      BY <2>1, <2>2 DEF RecordInv
    <3> QED  BY <2>1, <3>1 DEF Recorded
  <2>6. DeliveredPersisted'
    <3> SUFFICES ASSUME NEW i \in DOMAIN inbox, inbox[i].own, inbox[i].delivered,
                        \A u \in Task : pc'[u] = "persist" => entry'[u] # inbox[i].id
                 PROVE  \E r \in db : r.id = inbox[i].id /\ r.delivered
      BY <2>1 DEF DeliveredPersisted
    <3>1. \A u \in Task : pc[u] = "persist" => entry[u] # inbox[i].id
      BY <2>1, <2>2
    <3> QED  BY <3>1 DEF RecordInv, DeliveredPersisted
  <2>7. \A m \in Msg : OwnHere(m)' =>
          \A r \in db' : r.id = m =>
             r.seq < next' /\ \A u \in Task : pc'[u] \in Unsaved => r.seq # entry'[u].seq
    BY <2>1, <2>2, <2>3 DEF RecordInv
  <2> QED  BY <2>4, <2>5, <2>6, <2>7 DEF RecordInv
<1>2. ASSUME NEW t \in Task, NEW m \in Msg, TakeAck(t, m)
      PROVE  RecordInv'
  <2>1. /\ pc[t] = "idle" /\ pc'[t] = "persist" /\ entry'[t] = m
        /\ UNCHANGED <<next, db, todo, used, sent>>
        /\ \A u \in Task : u # t => pc'[u] = pc[u] /\ entry'[u] = entry[u]
    BY <1>0, <1>2 DEF TakeAck, Goto, TypeInv, TypeOK
  <2>2. /\ DOMAIN inbox' = DOMAIN inbox
        /\ \A i \in DOMAIN inbox :
              /\ inbox'[i].own = inbox[i].own /\ inbox'[i].id = inbox[i].id
              /\ inbox[i].id # m => inbox'[i] = inbox[i]
    <3>1. ASSUME NEW i \in DOMAIN inbox
          PROVE  /\ [inbox[i] EXCEPT !.delivered = TRUE].own = inbox[i].own
                 /\ [inbox[i] EXCEPT !.delivered = TRUE].id = inbox[i].id
      <4>1. inbox[i] \in Entry
        BY DEF TypeInv, TypeOK
      <4> QED  BY <4>1 DEF Entry
    <3> QED  BY <1>2, <3>1 DEF TakeAck
  <2>3. /\ \A u \in Task : pc'[u] \in Holding => u # t
        /\ \A u \in Task : pc'[u] \in Unsaved => u # t
        /\ \A u \in Task : pc'[u] = "notify" => u # t
        /\ \A u \in Task : pc[u] = "persist" => u # t
    BY <2>1 DEF Holding, Unsaved
  <2>4. \A k \in Msg : OwnHere(k)' => OwnHere(k)
    <3>1. \A u \in Task, k \in Msg : Sending(u, k)' => Sending(u, k)
      BY <2>1, <2>3 DEF Sending
    <3> QED  BY <2>2, <3>1 DEF OwnHere
  <2>5. DeliveredPersisted'
    <3> SUFFICES ASSUME NEW i \in DOMAIN inbox, inbox'[i].own, inbox'[i].delivered,
                        \A u \in Task : pc'[u] = "persist" => entry'[u] # inbox'[i].id
                 PROVE  \E r \in db : r.id = inbox'[i].id /\ r.delivered
      BY <2>1, <2>2 DEF DeliveredPersisted
    <3>1. inbox[i].id # m /\ inbox'[i] = inbox[i]
      BY <2>1, <2>2
    <3>2. \A u \in Task : pc[u] = "persist" => entry[u] # inbox[i].id
      BY <2>1, <2>3, <3>1
    <3> QED  BY <3>1, <3>2 DEF RecordInv, DeliveredPersisted
  <2>6. \A k \in sent' : Recorded(k)'
    BY <2>1 DEF RecordInv, Recorded
  <2>7. \A u \in Task, k \in Msg :
          pc'[u] = "notify" /\ entry'[u].own /\ entry'[u].id = k => Recorded(k)'
    BY <2>1, <2>3 DEF RecordInv, Recorded
  <2>8. \A k \in Msg : OwnHere(k)' =>
          \A r \in db' : r.id = k =>
             r.seq < next' /\ \A u \in Task : pc'[u] \in Unsaved => r.seq # entry'[u].seq
    BY <2>1, <2>3, <2>4 DEF RecordInv
  <2> QED  BY <2>5, <2>6, <2>7, <2>8 DEF RecordInv
<1>3. ASSUME NEW t \in Task, Receive(t) \/ ImportBundle(t) \/ \E m \in Msg : SendMessage(t, m)
      PROVE  RecordInv'
  <2>1. /\ pc[t] = "idle" /\ pc'[t] = "seq"
        /\ UNCHANGED <<next, inbox, db, entry, sent>>
        /\ \A u \in Task : u # t => pc'[u] = pc[u] /\ todo'[u] = todo[u]
    BY <1>0, <1>3 DEF Receive, ImportBundle, SendMessage, Begin, Goto, TypeInv, TypeOK
  <2>2. PICK items : /\ todo'[t] = items
                     /\ \/ \A i \in DOMAIN items : ~items[i].own
                        \/ \E m \in (Msg \ used) \cup {None} : \A i \in DOMAIN items : items[i].id = m
    <3>1. CASE Receive(t)
      <4> DEFINE it == <<[id |-> None, own |-> TRUE, delivered |-> FALSE]>>
      <4>1. \A i \in DOMAIN it : it[i].id = None
        OBVIOUS
      <4>2. todo'[t] = it
        BY <3>1 DEF Receive, Begin, TypeInv, TypeOK
      <4> QED  BY <4>1, <4>2
    <3>2. CASE ImportBundle(t)
      BY <3>2 DEF ImportBundle, Begin, TypeInv, TypeOK, SendingInv
    <3>3. ASSUME NEW m \in Msg, SendMessage(t, m)
          PROVE  \E items : /\ todo'[t] = items
                            /\ \E k \in (Msg \ used) \cup {None} :
                                  \A i \in DOMAIN items : items[i].id = k
      <4> DEFINE it == <<[id |-> m, own |-> TRUE, delivered |-> FALSE]>>
      <4>1. \A i \in DOMAIN it : it[i].id = m
        OBVIOUS
      <4>2. todo'[t] = it /\ m \notin used
        BY <3>3 DEF SendMessage, Begin, TypeInv, TypeOK
      <4> QED  BY <4>1, <4>2
    <3> QED  BY <1>3, <3>1, <3>2, <3>3
  <2>3. \A u \in Task : pc'[u] \in Unsaved \/ pc'[u] \in Holding \/ pc'[u] = "notify" => u # t
    BY <2>1 DEF Unsaved, Holding
  <2>4. ASSUME NEW m \in Msg, OwnHere(m)' PROVE OwnHere(m) \/ ~Recorded(m)
    <3>1. \A u \in Task : u # t => (Sending(u, m)' => Sending(u, m))
      BY <2>1 DEF Sending
    <3>2. Sending(t, m)' => ~Recorded(m)
      <4>1. Sending(t, m)' => m \notin used
        BY <2>1, <2>2, <2>3, InboxAssumption DEF Sending
      <4> QED  BY <4>1 DEF Recorded, TypeInv, Known
    <3> QED  BY <2>1, <2>4, <3>1, <3>2 DEF OwnHere
  <2> QED  BY <2>1, <2>3, <2>4, RecordsStay
<1>4. CASE UNCHANGED <<next, inbox, db, tasks>>
  BY <1>4, RecordsStay DEF tasks, OwnHere, Sending
<1>5. ASSUME NEW c \in Client, Watch(c) \/ GiveUp(c)
      PROVE  RecordInv'
  <2>1. UNCHANGED <<next, inbox, db, tasks>>
    BY <1>5 DEF Watch, WatchFindsNewer, WatchWakes, WatchTimesOut, Answer,
                WatchFindsNothing, Register, GiveUp
  <2> QED  BY <1>4, <2>1
<1>6. CASE ExportBundle \/ BundleUnusable \/ UNCHANGED vars
  <2>1. UNCHANGED <<next, inbox, db, tasks>>
    BY <1>6 DEF ExportBundle, BundleUnusable, vars
  <2> QED  BY <1>4, <2>1
<1>7. CASE Restart
  <2>1. /\ UNCHANGED <<db, sent>> /\ inbox' = <<>>
        /\ \A t \in Task : pc'[t] = "idle" /\ todo'[t] = <<>>
    BY <1>7 DEF Restart
  <2>2. /\ \A m \in sent' : Recorded(m)'
        /\ \A m : ~OwnHere(m)'
    BY <2>1 DEF RecordInv, Recorded, OwnHere, Sending, Holding
  <2>3. DeliveredPersisted'
    BY <2>1 DEF DeliveredPersisted
  <2> QED  BY <2>1, <2>2, <2>3 DEF RecordInv
<1> QED  BY <1>1, <1>2, <1>3, <1>5, <1>6, <1>7, TakeSeqRecords, AppendRecords,
            SaveRecords, PersistRecords DEF Next, Push, Caller

LEMMA RecordInitially == Init => RecordInv
<1> SUFFICES ASSUME Init PROVE RecordInv
  OBVIOUS
<1>1. db = {} /\ sent = {} /\ DOMAIN inbox = {} /\ \A t \in Task : pc[t] # "notify"
  BY DEF Init
<1> QED  BY <1>1 DEF RecordInv, DeliveredPersisted

\* A message this node sent and knows to be delivered is flagged in the database
\* too, once the task that takes the acknowledgement is done (push_inbox,
\* mark_message_delivered, MessageStore::update_delivered).
THEOREM DeliveryIsPersisted == Spec => []DeliveredPersisted
<1> DEFINE I == TypeInv /\ NumbersInv /\ SendingInv /\ RecordInv
<1>1. Init => I
  BY TypeInitially, NumbersInitially, SendingInitially, RecordInitially
<1>2. I /\ [Next]_vars => I'
  BY TypeStep, NumbersStep, SendingStep, RecordStep
<1>3. I => DeliveredPersisted
  BY DEF RecordInv
<1> QED  BY <1>1, <1>2, <1>3, PTL DEF Spec

=============================================================================
