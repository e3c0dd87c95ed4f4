--------------------------- MODULE MeshFloodProofs ---------------------------
(***************************************************************************)
(* Theorems about MeshFlood, for every network, every number of messages   *)
(* and every value of the bounds.  One invariant, Inv, is inductive; the   *)
(* safety properties and the refinement of MeshDelivery follow from it.    *)
(***************************************************************************)
EXTENDS MeshFlood, FiniteSetTheorems, SequenceTheorems, TLAPS

-----------------------------------------------------------------------------
(* The inductive invariant.                                                *)

Elements(q) == {q[i] : i \in 1..Len(q)}

Reached(n, m) == \E x \in Node : <<n, x>> \in Link /\ mesh[<<n, x>>][m] > 0

\* A packet on its way from n to x.
Good(n, x, p) ==
  /\ origin[p.id] \in Node
  /\ target[p.id] \in Node \cup {Broadcast}
  /\ p.kind = "data" =>
       /\ x # origin[p.id] /\ x \notin p.path
       /\ p.path = {} => n = origin[p.id]
       /\ p.path # {} => n \in p.path
       /\ IsFiniteSet(p.path)
       /\ p.ttl + Cardinality(p.path) = DefaultTtl
       /\ target[p.id] # Broadcast => x = target[p.id]
  /\ p.kind = "ack" => target[p.id] \in Node /\ Reached(target[p.id], p.id)

QueueInv ==
  \A n, x \in Node : <<n, x>> \in Link =>
     \A p \in Elements(queue[<<n, x>>]) : Good(n, x, p)

\* What the reader of n for x knows of the packet p it works on.
Working(n, x, p) ==
  /\ p.kind = "data"
  /\ at[<<n, x>>] # "show" => p.ttl # 0
  /\ at[<<n, x>>] = "deliver" => ForUs(n, p.id)
  /\ at[<<n, x>>] = "ack" => target[p.id] = n /\ mesh[<<n, x>>][p.id] > 0
  /\ at[<<n, x>>] \in {"select", "forward"} => target[p.id] = Broadcast
  /\ at[<<n, x>>] = "forward" =>
       \A y \in todo[<<n, x>>] : y # origin[p.id] /\ y \notin p.path /\ <<n, y>> \in Link

ReaderInv ==
  \A n, x \in Node : <<n, x>> \in Link /\ at[<<n, x>>] \in Busy =>
     queue[<<x, n>>] # <<>> /\ Working(n, x, Current(n, x))

SendInv ==
  \A m \in Msg : \A x \in sending[m] :
     /\ origin[m] \in Node
     /\ <<origin[m], x>> \in Link
     /\ target[m] \in {Broadcast, x}

\* An inbox entry is one of a message that was sent, and to this node.
EntryInv ==
  \A n, x \in Node : <<n, x>> \in Link =>
     \A m \in Msg : mesh[<<n, x>>][m] > 0 \/ data[<<n, x>>][m] > 0 =>
        origin[m] \in Node /\ target[m] \in {Broadcast, n}

Windows(n, m) == IF <<n, m>> \in late THEN 2 ELSE 1

\* The reader of n for x passed the check with m and has not delivered it yet.
Pending(n, x, m) ==
  /\ at[<<n, x>>] \in {"mark", "deliver"}
  /\ Current(n, x).id = m

\* Deliveries of m from x, pending ones included, are bounded by the windows
\* of m at n; once the bound is reached, m is in the duplicate table, or the
\* reader is about to put it there.
CopyBound(n, x) ==
  \A m \in Msg :
     LET k == mesh[<<n, x>>][m] + (IF Pending(n, x, m) THEN 1 ELSE 0) IN
     /\ k <= Windows(n, m)
     /\ k = Windows(n, m) =>
           m \in seen[n] \/ (Pending(n, x, m) /\ at[<<n, x>>] = "mark")

CopyInv == \A n, x \in Node : <<n, x>> \in Link => CopyBound(n, x)

Inv == TypeOK /\ QueueInv /\ ReaderInv /\ SendInv /\ EntryInv /\ CopyInv

-----------------------------------------------------------------------------
(* Sequences.                                                              *)

LEMMA AppendElements ==
  ASSUME NEW S, NEW q \in Seq(S), NEW p \in S
  PROVE  /\ Append(q, p) \in Seq(S)
         /\ Elements(Append(q, p)) \subseteq Elements(q) \cup {p}
         /\ Append(q, p) # <<>>
         /\ q # <<>> => Head(Append(q, p)) = Head(q)
<1>1. /\ Append(q, p) \in Seq(S)
      /\ Len(Append(q, p)) = Len(q) + 1
      /\ \A i \in 1..Len(q) : Append(q, p)[i] = q[i]
      /\ Append(q, p)[Len(q) + 1] = p
      /\ Len(q) \in Nat
  BY AppendProperties, LenProperties
<1>2. Elements(Append(q, p)) \subseteq Elements(q) \cup {p}
  BY <1>1 DEF Elements
<1>3. Append(q, p) # <<>>
  BY <1>1, EmptySeq
<1>4. ASSUME q # <<>>
      PROVE  Head(Append(q, p)) = Head(q)
  <2>1. Len(q) # 0
    BY <1>4, EmptySeq
  <2>2. Head(Append(q, p)) = Append(q, p)[1] /\ Head(q) = q[1]
    OBVIOUS
  <2> QED
    BY <1>1, <2>1, <2>2
<1> QED
  BY <1>1, <1>2, <1>3, <1>4

LEMMA TailElements ==
  ASSUME NEW S, NEW q \in Seq(S), q # <<>>
  PROVE  /\ Tail(q) \in Seq(S)
         /\ Elements(Tail(q)) \subseteq Elements(q)
         /\ Head(q) \in Elements(q)
         /\ Head(q) \in S
<1>1. Tail(q) \in Seq(S) /\ Len(Tail(q)) = Len(q) - 1 /\ Len(q) \in Nat \ {0}
  BY HeadTailProperties, EmptySeq, LenProperties
<1>2. \A i \in 1..Len(Tail(q)) : i + 1 \in 1..Len(q) /\ Tail(q)[i] = q[i + 1]
  BY <1>1, HeadTailProperties
<1>3. Elements(Tail(q)) \subseteq Elements(q)
  BY <1>2 DEF Elements
<1>4. Head(q) = q[1] /\ 1 \in 1..Len(q)
  BY <1>1
<1> QED
  BY <1>1, <1>3, <1>4, ElementOfSeq DEF Elements

LEMMA PrefixElements ==
  ASSUME NEW S, NEW q \in Seq(S), NEW k \in 0..Len(q)
  PROVE  /\ SubSeq(q, 1, k) \in Seq(S)
         /\ Elements(SubSeq(q, 1, k)) \subseteq Elements(q)
         /\ k > 0 => /\ SubSeq(q, 1, k) # <<>>
                     /\ Head(SubSeq(q, 1, k)) = Head(q)
<1>1. /\ SubSeq(q, 1, k) \in Seq(S)
      /\ Len(SubSeq(q, 1, k)) = k
      /\ \A i \in 1..k : SubSeq(q, 1, k)[i] = q[i]
      /\ \A i \in 1..k : i \in 1..Len(q)
  BY LenProperties, SubSeqProperties
<1>2. Elements(SubSeq(q, 1, k)) \subseteq Elements(q)
  BY <1>1 DEF Elements
<1>3. ASSUME k > 0
      PROVE  SubSeq(q, 1, k) # <<>> /\ Head(SubSeq(q, 1, k)) = Head(q)
  BY <1>1, <1>3
<1> QED
  BY <1>1, <1>2, <1>3

-----------------------------------------------------------------------------
(* How the actions change the queues.                                      *)

\* Queue e still has the head it had, if it had one.
SameHead(e) ==
  queue[e] # <<>> => queue'[e] # <<>> /\ Head(queue'[e]) = Head(queue[e])

LEMMA EnqueueEffect ==
  ASSUME TypeOK, NEW n \in Node, NEW x \in Node, NEW p \in Packet,
         <<n, x>> \in Link, Enqueue(n, x, p)
  PROVE  /\ queue' \in [Link -> Seq(Packet)]
         /\ Elements(queue'[<<n, x>>]) \subseteq Elements(queue[<<n, x>>]) \cup {p}
         /\ \A e \in Link : e # <<n, x>> => queue'[e] = queue[e]
         /\ \A e \in Link : SameHead(e)
<1> DEFINE q == queue[<<n, x>>]
<1>1. q \in Seq(Packet)
  BY DEF TypeOK
<1>2. /\ Append(q, p) \in Seq(Packet)
      /\ Elements(Append(q, p)) \subseteq Elements(q) \cup {p}
      /\ Append(q, p) # <<>>
      /\ q # <<>> => Head(Append(q, p)) = Head(q)
  BY <1>1, AppendElements
<1> HIDE DEF q
<1>3. CASE queue' = queue
  BY <1>3 DEF TypeOK, SameHead
<1>4. CASE queue' = [queue EXCEPT ![<<n, x>>] = Append(q, p)]
  <2>1. queue' \in [Link -> Seq(Packet)] /\ queue'[<<n, x>>] = Append(q, p)
    BY <1>2, <1>4 DEF TypeOK
  <2>2. \A e \in Link : e # <<n, x>> => queue'[e] = queue[e]
    BY <1>4 DEF TypeOK
  <2>3. \A e \in Link : SameHead(e)
    BY <1>2, <2>1, <2>2 DEF SameHead, q
  <2> QED
    BY <1>2, <2>1, <2>2, <2>3 DEF q
<1> QED
  BY <1>3, <1>4 DEF Enqueue, q

LEMMA DequeueEffect ==
  ASSUME TypeOK, NEW n \in Node, NEW x \in Node, <<x, n>> \in Link,
         queue[<<x, n>>] # <<>>, queue' = [queue EXCEPT ![<<x, n>>] = Tail(@)]
  PROVE  /\ queue' \in [Link -> Seq(Packet)]
         /\ \A e \in Link : Elements(queue'[e]) \subseteq Elements(queue[e])
         /\ \A e \in Link : e # <<x, n>> => SameHead(e)
<1> DEFINE q == queue[<<x, n>>]
<1>1. Tail(q) \in Seq(Packet) /\ Elements(Tail(q)) \subseteq Elements(q)
  BY TailElements DEF TypeOK
<1>2. queue' = [queue EXCEPT ![<<x, n>>] = Tail(q)]
  OBVIOUS
<1> HIDE DEF q
<1>3. queue' \in [Link -> Seq(Packet)] /\ queue'[<<x, n>>] = Tail(q)
  BY <1>1, <1>2 DEF TypeOK
<1>4. \A e \in Link : e # <<x, n>> => queue'[e] = queue[e]
  BY <1>2 DEF TypeOK
<1> QED
  BY <1>1, <1>3, <1>4 DEF SameHead, q

\* A prefix of a queue that keeps what the reader is working on.
LEMMA PrefixEffect ==
  ASSUME TypeOK, NEW n \in Node, NEW x \in Node, <<n, x>> \in Link,
         NEW rest \in Prefixes(n, x)
  PROVE  /\ rest \in Seq(Packet)
         /\ Elements(rest) \subseteq Elements(queue[<<n, x>>])
         /\ at[<<x, n>>] \in Busy => rest # <<>> /\ Head(rest) = Head(queue[<<n, x>>])
<1>1. queue[<<n, x>>] \in Seq(Packet) /\ Len(queue[<<n, x>>]) \in Nat
  BY LenProperties DEF TypeOK
<1>2. PICK k \in (IF at[<<x, n>>] \in Busy THEN 1 ELSE 0)..Len(queue[<<n, x>>]) :
         rest = SubSeq(queue[<<n, x>>], 1, k)
  BY DEF Prefixes
<1>3. k \in 0..Len(queue[<<n, x>>]) /\ (at[<<x, n>>] \in Busy => k > 0)
  BY <1>1, <1>2
<1> QED
  BY <1>1, <1>2, <1>3, PrefixElements

LEMMA HeadTyped ==
  ASSUME TypeOK, NEW e \in Link, queue[e] # <<>>
  PROVE  Head(queue[e]) \in Packet /\ Head(queue[e]) \in Elements(queue[e])
  BY TailElements DEF TypeOK

LEMMA LinkPairs ==
  \A e \in Link : e = <<e[1], e[2]>> /\ e[1] \in Node /\ e[2] \in Node
                  /\ e[1] # e[2] /\ <<e[2], e[1]>> \in Link
  BY LinkAssumption

-----------------------------------------------------------------------------
(* What is known of a message that was sent stays true of it.              *)

Steady ==
  /\ \A m \in Msg : origin[m] \in Node =>
        origin'[m] = origin[m] /\ target'[m] = target[m]
  /\ \A e \in Link, m \in Msg : mesh'[e][m] >= mesh[e][m]

LEMMA GoodStable ==
  ASSUME TypeOK, TypeOK', Steady, NEW n \in Node, NEW x \in Node, NEW p \in Packet,
         Good(n, x, p)
  PROVE  Good(n, x, p)'
<1>1. p.id \in Msg
  BY DEF Packet
<1>2. origin'[p.id] = origin[p.id] /\ target'[p.id] = target[p.id]
  BY <1>1 DEF Good, Steady
<1>3. ASSUME NEW k \in Node, Reached(k, p.id)
      PROVE  Reached(k, p.id)'
  <2>1. PICK y \in Node : <<k, y>> \in Link /\ mesh[<<k, y>>][p.id] > 0
    BY <1>3 DEF Reached
  <2>2. mesh'[<<k, y>>][p.id] >= mesh[<<k, y>>][p.id]
    BY <1>1, <2>1 DEF Steady
  <2>3. mesh[<<k, y>>][p.id] \in Nat /\ mesh'[<<k, y>>][p.id] \in Nat
    BY <1>1, <2>1 DEF TypeOK
  <2> QED
    BY <2>1, <2>2, <2>3 DEF Reached
<1> QED
  BY <1>2, <1>3 DEF Good

\* The queue invariant is kept when every packet of the new queues is good.
LEMMA QueueKept ==
  ASSUME TypeOK, TypeOK', Steady,
         \A n, x \in Node : <<n, x>> \in Link =>
            \A p \in Elements(queue'[<<n, x>>]) : Good(n, x, p)
  PROVE  QueueInv'
<1> SUFFICES ASSUME NEW n \in Node, NEW x \in Node, <<n, x>> \in Link,
                    NEW p \in Elements(queue'[<<n, x>>])
             PROVE  Good(n, x, p)'
  BY DEF QueueInv
<1>1. p \in Packet
  <2>1. queue'[<<n, x>>] \in Seq(Packet)
    BY DEF TypeOK
  <2> QED
    BY <2>1, ElementOfSeq DEF Elements
<1> QED
  BY <1>1, GoodStable

\* A reader that does not move keeps what it knows.
LEMMA WorkingStable ==
  ASSUME TypeOK, TypeOK', Steady, QueueInv, ReaderInv,
         NEW n \in Node, NEW x \in Node, <<n, x>> \in Link,
         at[<<n, x>>] \in Busy, at'[<<n, x>>] = at[<<n, x>>], todo'[<<n, x>>] = todo[<<n, x>>],
         SameHead(<<x, n>>)
  PROVE  /\ queue'[<<x, n>>] # <<>> /\ Current(n, x)' = Current(n, x)
         /\ Working(n, x, Current(n, x))'
<1>0. PICK p : p = Current(n, x)
  OBVIOUS
<1>1. <<x, n>> \in Link
  BY LinkAssumption
<1>2. queue[<<x, n>>] # <<>> /\ Working(n, x, p)
  BY <1>0 DEF ReaderInv
<1>3. p \in Packet /\ p \in Elements(queue[<<x, n>>])
  BY <1>0, <1>1, <1>2, HeadTyped DEF Current
<1>4. Good(x, n, p)
  BY <1>1, <1>3 DEF QueueInv
<1>5. queue'[<<x, n>>] # <<>> /\ Current(n, x)' = p
  BY <1>0, <1>2 DEF SameHead, Current
<1>6. p.id \in Msg
  BY <1>3 DEF Packet
<1>7. origin'[p.id] = origin[p.id] /\ target'[p.id] = target[p.id]
  BY <1>4, <1>6 DEF Good, Steady
<1>8. /\ mesh'[<<n, x>>][p.id] >= mesh[<<n, x>>][p.id]
      /\ mesh'[<<n, x>>][p.id] \in Nat /\ mesh[<<n, x>>][p.id] \in Nat
  BY <1>6 DEF Steady, TypeOK
<1>9. Working(n, x, p)'
  BY <1>2, <1>7, <1>8 DEF Working, ForUs
<1> QED
  BY <1>0, <1>5, <1>9

\* The reader invariant is kept when every reader that works is fine now, or
\* was at work before, in the same place and on the same message.
Undisturbed(n, x) ==
  /\ at'[<<n, x>>] = at[<<n, x>>]
  /\ todo'[<<n, x>>] = todo[<<n, x>>]
  /\ at[<<n, x>>] \in Busy => SameHead(<<x, n>>)

LEMMA ReaderKept ==
  ASSUME TypeOK, TypeOK', Steady, QueueInv, ReaderInv,
         \A u, v \in Node : <<u, v>> \in Link /\ at'[<<u, v>>] \in Busy =>
            \/ Undisturbed(u, v)
            \/ queue'[<<v, u>>] # <<>> /\ Working(u, v, Current(u, v))'
  PROVE  ReaderInv'
<1> SUFFICES ASSUME NEW u \in Node, NEW v \in Node, <<u, v>> \in Link,
                    at'[<<u, v>>] \in Busy, Undisturbed(u, v)
             PROVE  queue'[<<v, u>>] # <<>> /\ Working(u, v, Current(u, v))'
  BY DEF ReaderInv
<1> QED
  BY WorkingStable DEF Undisturbed

\* The bound on copies is kept for an end that delivers nothing and whose
\* reader neither passes the check nor leaves "mark" without marking.
LEMMA CopyKept ==
  ASSUME TypeOK, TypeOK', NEW n \in Node, NEW x \in Node, <<n, x>> \in Link,
         CopyBound(n, x),
         mesh'[<<n, x>>] = mesh[<<n, x>>],
         late \subseteq late',
         \A m \in Msg : m \in seen[n] => m \in seen'[n] \/ <<n, m>> \in late' \ late,
         \A m \in Msg : /\ Pending(n, x, m)' <=> Pending(n, x, m)
                        /\ at[<<n, x>>] = "mark" /\ Pending(n, x, m)
                              => at'[<<n, x>>] = "mark" \/ m \in seen'[n]
  PROVE  CopyBound(n, x)'
<1> SUFFICES ASSUME NEW m \in Msg
             PROVE  LET k == mesh'[<<n, x>>][m] + (IF Pending(n, x, m)' THEN 1 ELSE 0) IN
                    /\ k <= Windows(n, m)'
                    /\ k = Windows(n, m)' =>
                          m \in seen'[n] \/ (Pending(n, x, m)' /\ at'[<<n, x>>] = "mark")
  BY DEF CopyBound
<1> DEFINE k == mesh[<<n, x>>][m] + (IF Pending(n, x, m) THEN 1 ELSE 0)
<1>1. /\ k <= Windows(n, m)
      /\ k = Windows(n, m) => m \in seen[n] \/ (Pending(n, x, m) /\ at[<<n, x>>] = "mark")
  BY DEF CopyBound
<1>2. mesh[<<n, x>>][m] \in Nat
  BY DEF TypeOK
<1>3. k = mesh'[<<n, x>>][m] + (IF Pending(n, x, m)' THEN 1 ELSE 0) /\ k \in Nat
  BY <1>2
<1>4. CASE <<n, m>> \in late' \ late
  <2>1. Windows(n, m) = 1 /\ Windows(n, m)' = 2
    BY <1>4 DEF Windows
  <2>2. k # 2
    BY <1>1, <1>3, <2>1
  <2> QED
    BY <1>1, <1>3, <2>1, <2>2
<1>5. CASE <<n, m>> \notin late' \ late
  <2>1. Windows(n, m)' = Windows(n, m)
    BY <1>5 DEF Windows
  <2> QED
    BY <1>1, <1>3, <1>5, <2>1
<1> QED
  BY <1>4, <1>5

\* In particular for an end that is not disturbed, when nothing is forgotten.
LEMMA CopyUndisturbed ==
  ASSUME TypeOK, TypeOK', ReaderInv, NEW n \in Node, NEW x \in Node, <<n, x>> \in Link,
         CopyBound(n, x), mesh'[<<n, x>>] = mesh[<<n, x>>],
         late' = late, seen[n] \subseteq seen'[n],
         \/ Undisturbed(n, x)
         \/ {at[<<n, x>>], at'[<<n, x>>]} \cap {"mark", "deliver"} = {}
  PROVE  CopyBound(n, x)'
<1>1. ASSUME NEW m \in Msg
      PROVE  /\ Pending(n, x, m)' <=> Pending(n, x, m)
             /\ at[<<n, x>>] = "mark" /\ Pending(n, x, m)
                   => at'[<<n, x>>] = "mark" \/ m \in seen'[n]
  <2>1. CASE Undisturbed(n, x) /\ at[<<n, x>>] \in Busy
    <3>1. queue[<<x, n>>] # <<>>
      BY <2>1 DEF ReaderInv
    <3>2. Current(n, x)' = Current(n, x) /\ at'[<<n, x>>] = at[<<n, x>>]
      BY <2>1, <3>1 DEF Undisturbed, SameHead, Current
    <3> QED
      BY <3>2 DEF Pending
  <2>2. CASE Undisturbed(n, x) /\ at[<<n, x>>] \notin Busy
    BY <2>2 DEF Undisturbed, Pending, Busy
  <2>3. CASE {at[<<n, x>>], at'[<<n, x>>]} \cap {"mark", "deliver"} = {}
    BY <2>3 DEF Pending
  <2> QED
    BY <2>1, <2>2, <2>3
<1> QED
  BY <1>1, CopyKept

\* What is known of the message a busy reader works on.
LEMMA AtWork ==
  ASSUME TypeOK, QueueInv, ReaderInv, NEW n \in Node, NEW x \in Node, <<n, x>> \in Link,
         at[<<n, x>>] \in Busy
  PROVE  /\ <<x, n>> \in Link /\ n # x
         /\ queue[<<x, n>>] # <<>>
         /\ Current(n, x) \in Packet
         /\ Current(n, x).id \in Msg
         /\ Good(x, n, Current(n, x))
         /\ Working(n, x, Current(n, x))
<1>1. <<x, n>> \in Link /\ n # x
  BY LinkAssumption
<1>2. queue[<<x, n>>] # <<>> /\ Working(n, x, Current(n, x))
  BY DEF ReaderInv
<1>3. Current(n, x) \in Packet /\ Current(n, x) \in Elements(queue[<<x, n>>])
  BY <1>1, <1>2, HeadTyped DEF Current
<1>4. Good(x, n, Current(n, x))
  BY <1>1, <1>3 DEF QueueInv
<1> QED
  BY <1>1, <1>2, <1>3, <1>4 DEF Packet

-----------------------------------------------------------------------------
(* Preservation, one lemma per action.                                     *)

LEMMA InvInitially == Init => Inv
<1> SUFFICES ASSUME Init PROVE Inv
  OBVIOUS
<1>1. TypeOK
  BY ValueAssumption DEF Init, TypeOK, Busy
<1>2. \A e \in Link : Elements(queue[e]) = {}
  BY DEF Init, Elements
<1>3. QueueInv /\ ReaderInv /\ SendInv /\ EntryInv
  BY <1>2 DEF Init, QueueInv, ReaderInv, SendInv, EntryInv, Busy
<1>4. CopyInv
  BY DEF Init, CopyInv, CopyBound, Windows, Pending
<1> QED
  BY <1>1, <1>3, <1>4 DEF Inv

LEMMA OriginateStep ==
  ASSUME Inv, NEW n \in Node, NEW m \in Msg, NEW to \in Node \cup {Broadcast},
         Originate(n, m, to)
  PROVE  Inv'
<1> USE DEF Inv
<1>1. TypeOK'
  BY DEF Originate, TypeOK, Channels, inbox
<1>2. Steady
  BY ValueAssumption DEF Originate, Steady, TypeOK, inbox
<1>3. QueueInv'
  BY <1>1, <1>2, QueueKept DEF Originate, QueueInv
<1>4. \A u, v \in Node : <<u, v>> \in Link => Undisturbed(u, v)
  BY DEF Originate, Undisturbed, SameHead
<1>5. ReaderInv'
  BY <1>1, <1>2, <1>4, ReaderKept
<1>6. SendInv'
  <2> SUFFICES ASSUME NEW k \in Msg, NEW x \in sending'[k]
               PROVE  /\ origin'[k] \in Node
                      /\ <<origin'[k], x>> \in Link
                      /\ target'[k] \in {Broadcast, x}
    BY DEF SendInv
  <2>1. CASE k = m
    BY <2>1 DEF Originate, Channels, TypeOK
  <2>2. CASE k # m
    BY <2>2 DEF Originate, SendInv, TypeOK
  <2> QED
    BY <2>1, <2>2
<1>7. EntryInv'
  BY ValueAssumption DEF Originate, EntryInv, TypeOK, inbox
<1>8. CopyInv'
  BY <1>1, <1>4, CopyUndisturbed DEF Originate, CopyInv, inbox
<1> QED
  BY <1>1, <1>3, <1>5, <1>6, <1>7, <1>8

LEMMA SendToStep ==
  ASSUME Inv, NEW m \in Msg, NEW x \in Node, SendTo(m, x)
  PROVE  Inv'
<1> USE DEF Inv
<1> DEFINE p == Copy(m, DefaultTtl, {})
<1>1. origin[m] \in Node /\ <<origin[m], x>> \in Link /\ target[m] \in {Broadcast, x}
  BY DEF SendTo, SendInv
<1>2. p \in Packet
  BY ValueAssumption DEF Packet, Copy
<1>3. Good(origin[m], x, p)
  <2>1. IsFiniteSet({}) /\ Cardinality({}) = 0
    BY FS_EmptySet
  <2>2. x # origin[m]
    BY <1>1, LinkAssumption
  <2> QED
    BY <1>1, <2>1, <2>2, ValueAssumption DEF Good, Copy
<1> HIDE DEF p
<1>4. Enqueue(origin[m], x, p)
  BY DEF SendTo, p
<1>5. /\ queue' \in [Link -> Seq(Packet)]
      /\ Elements(queue'[<<origin[m], x>>]) \subseteq Elements(queue[<<origin[m], x>>]) \cup {p}
      /\ \A e \in Link : e # <<origin[m], x>> => queue'[e] = queue[e]
      /\ \A e \in Link : SameHead(e)
  BY <1>1, <1>2, <1>4, EnqueueEffect
<1>6. TypeOK'
  BY <1>5 DEF SendTo, TypeOK, messages, inbox
<1>7. Steady
  BY DEF SendTo, Steady, TypeOK, messages, inbox
<1>8. QueueInv'
  BY <1>3, <1>5, <1>6, <1>7, QueueKept DEF QueueInv
<1>9. \A u, v \in Node : <<u, v>> \in Link => Undisturbed(u, v)
  BY <1>5, LinkAssumption DEF SendTo, Undisturbed
<1>10. ReaderInv'
  BY <1>6, <1>7, <1>9, ReaderKept
<1>11. SendInv'
  BY DEF SendTo, SendInv, TypeOK, messages
<1>12. EntryInv'
  BY DEF SendTo, EntryInv, messages, inbox
<1>13. CopyInv'
  BY <1>6, <1>9, CopyUndisturbed DEF SendTo, CopyInv, inbox
<1> QED
  BY <1>6, <1>8, <1>10, <1>11, <1>12, <1>13

LEMMA CheckSeenStep ==
  ASSUME Inv, NEW n \in Node, NEW x \in Node, <<n, x>> \in Link, CheckSeen(n, x)
  PROVE  Inv'
<1> USE DEF Inv
<1>0. PICK p : p = Current(n, x)
  OBVIOUS
<1>1. TypeOK'
  BY DEF CheckSeen, Goto, TypeOK, Busy, messages, inbox
<1>2. Steady
  BY DEF CheckSeen, Steady, TypeOK, messages, inbox
<1>3. QueueInv'
  BY <1>1, <1>2, QueueKept DEF CheckSeen, QueueInv
<1>4. /\ at[<<n, x>>] = "idle"
      /\ at'[<<n, x>>] = IF ShouldProcess(n, p) THEN "mark" ELSE "show"
      /\ queue' = queue /\ Current(n, x)' = p
      /\ p.kind = "data" /\ queue[<<x, n>>] # <<>>
  BY <1>0 DEF CheckSeen, Goto, TypeOK, Current
<1>5. \A u, v \in Node : <<u, v>> \in Link /\ <<u, v>> # <<n, x>> => Undisturbed(u, v)
  BY DEF CheckSeen, Goto, TypeOK, Undisturbed, SameHead
<1>6. ReaderInv'
  <2>1. queue'[<<x, n>>] # <<>> /\ Working(n, x, p)'
    BY <1>4 DEF Working, ShouldProcess
  <2> QED
    BY <1>1, <1>2, <1>4, <1>5, <2>1, ReaderKept
<1>7. SendInv' /\ EntryInv'
  BY DEF CheckSeen, SendInv, EntryInv, messages, inbox
<1>8. CopyBound(n, x)'
  <2> SUFFICES ASSUME NEW m \in Msg
               PROVE  LET k == mesh'[<<n, x>>][m] + (IF Pending(n, x, m)' THEN 1 ELSE 0) IN
                      /\ k <= Windows(n, m)'
                      /\ k = Windows(n, m)' =>
                            m \in seen'[n] \/ (Pending(n, x, m)' /\ at'[<<n, x>>] = "mark")
    BY DEF CopyBound
  <2>1. /\ mesh[<<n, x>>][m] <= Windows(n, m)
        /\ mesh[<<n, x>>][m] = Windows(n, m) => m \in seen[n]
        /\ mesh[<<n, x>>][m] \in Nat /\ Windows(n, m) \in {1, 2}
    <3>1. CopyBound(n, x) /\ ~Pending(n, x, m) /\ mesh[<<n, x>>][m] \in Nat
      BY <1>4 DEF CopyInv, Pending, TypeOK
    <3> QED
      BY <3>1 DEF CopyBound, Windows
  <2>2. /\ mesh'[<<n, x>>][m] = mesh[<<n, x>>][m] /\ seen' = seen
        /\ Windows(n, m)' = Windows(n, m)
    BY DEF CheckSeen, Windows, inbox
  <2>3. CASE ShouldProcess(n, p) /\ p.id = m
    <3>1. m \notin seen[n] /\ Pending(n, x, m)' /\ at'[<<n, x>>] = "mark"
      BY <1>4, <2>3 DEF ShouldProcess, Pending
    <3> QED
      BY <2>1, <2>2, <3>1
  <2>4. CASE ~(ShouldProcess(n, p) /\ p.id = m)
    <3>1. ~Pending(n, x, m)'
      BY <1>4, <2>4 DEF Pending
    <3> QED
      BY <2>1, <2>2, <3>1
  <2> QED
    BY <2>3, <2>4
<1>9. CopyInv'
  BY <1>1, <1>5, <1>8, CopyUndisturbed DEF CheckSeen, CopyInv, inbox
<1> QED
  BY <1>1, <1>3, <1>6, <1>7, <1>9

LEMMA MarkSeenStep ==
  ASSUME Inv, NEW n \in Node, NEW x \in Node, <<n, x>> \in Link, MarkSeen(n, x)
  PROVE  Inv'
<1> USE DEF Inv
<1>0. PICK p : p = Current(n, x)
  OBVIOUS
<1>1. /\ queue[<<x, n>>] # <<>> /\ p.id \in Msg
      /\ Good(x, n, p) /\ Working(n, x, p) /\ at[<<n, x>>] = "mark"
  BY <1>0, AtWork DEF MarkSeen, Busy
<1>2. p.kind = "data" /\ ForUs(n, p.id)
  BY <1>1 DEF Good, Working, ForUs
<1>3. /\ at'[<<n, x>>] = "deliver" /\ queue' = queue /\ Current(n, x)' = p
      /\ seen'[n] = seen[n] \cup {p.id}
  BY <1>0, <1>2 DEF MarkSeen, Goto, TypeOK, Current
<1>4. TypeOK'
  BY <1>0, <1>1 DEF MarkSeen, Goto, TypeOK, Busy, messages, inbox
<1>5. Steady
  BY DEF MarkSeen, Steady, TypeOK, messages, inbox
<1>6. QueueInv'
  BY <1>4, <1>5, QueueKept DEF MarkSeen, QueueInv
<1>7. \A u, v \in Node : <<u, v>> \in Link /\ <<u, v>> # <<n, x>> => Undisturbed(u, v)
  BY DEF MarkSeen, Goto, TypeOK, Undisturbed, SameHead
<1>8. ReaderInv'
  <2>1. queue'[<<x, n>>] # <<>> /\ Working(n, x, p)'
    BY <1>1, <1>2, <1>3 DEF MarkSeen, Working, ForUs, messages
  <2> QED
    BY <1>3, <1>4, <1>5, <1>7, <2>1, ReaderKept
<1>9. SendInv' /\ EntryInv'
  BY DEF MarkSeen, SendInv, EntryInv, messages, inbox
<1>10. \A u \in Node : seen[u] \subseteq seen'[u]
  BY <1>0, <1>3 DEF MarkSeen, TypeOK
<1>11. CopyBound(n, x)'
  <2>1. \A m \in Msg : /\ Pending(n, x, m)' <=> Pending(n, x, m)
                       /\ Pending(n, x, m) => m \in seen'[n]
    BY <1>0, <1>1, <1>3 DEF Pending
  <2>2. mesh' = mesh /\ late' = late
    BY DEF MarkSeen, inbox
  <2> QED
    BY <1>4, <1>10, <2>1, <2>2, CopyKept DEF CopyInv
<1>12. CopyInv'
  BY <1>4, <1>7, <1>10, <1>11, CopyUndisturbed DEF MarkSeen, CopyInv, inbox
<1> QED
  BY <1>4, <1>6, <1>8, <1>9, <1>12

LEMMA DeliverStep ==
  ASSUME Inv, NEW n \in Node, NEW x \in Node, <<n, x>> \in Link, Deliver(n, x)
  PROVE  Inv'
<1> USE DEF Inv
<1>0. PICK p : p = Current(n, x)
  OBVIOUS
<1>1. /\ queue[<<x, n>>] # <<>> /\ p.id \in Msg
      /\ Good(x, n, p) /\ Working(n, x, p) /\ at[<<n, x>>] = "deliver"
  BY <1>0, AtWork DEF Deliver, Busy
<1>2. target[p.id] \in {Broadcast, n} /\ origin[p.id] \in Node /\ p.kind = "data" /\ p.ttl # 0
  BY <1>1 DEF Good, Working, ForUs
<1>3. /\ at'[<<n, x>>] = IF target[p.id] = Broadcast THEN "select" ELSE "ack"
      /\ queue' = queue /\ Current(n, x)' = p
      /\ mesh' = [mesh EXCEPT ![<<n, x>>][p.id] = @ + 1]
  BY <1>0 DEF Deliver, Goto, TypeOK, Current
<1>4. /\ mesh' \in [Link -> [Msg -> Nat]]
      /\ mesh'[<<n, x>>][p.id] = mesh[<<n, x>>][p.id] + 1
      /\ \A m \in Msg : m # p.id => mesh'[<<n, x>>][m] = mesh[<<n, x>>][m]
      /\ \A e \in Link : e # <<n, x>> => mesh'[e] = mesh[e]
  <2>1. mesh[<<n, x>>] \in [Msg -> Nat] /\ mesh \in [Link -> [Msg -> Nat]]
    BY DEF TypeOK
  <2>2. mesh' = [mesh EXCEPT ![<<n, x>>] =
                   [mesh[<<n, x>>] EXCEPT ![p.id] = mesh[<<n, x>>][p.id] + 1]]
    BY <1>3
  <2>3. [mesh[<<n, x>>] EXCEPT ![p.id] = mesh[<<n, x>>][p.id] + 1] \in [Msg -> Nat]
    <3>1. mesh[<<n, x>>][p.id] + 1 \in Nat
      BY <1>1, <2>1
    <3> QED
      BY <2>1, <3>1
  <2> QED
    BY <1>1, <2>1, <2>2, <2>3
<1>5. TypeOK'
  BY <1>4 DEF Deliver, Goto, TypeOK, Busy, messages
<1>6. Steady
  <2> SUFFICES ASSUME NEW e \in Link, NEW m \in Msg
               PROVE  mesh'[e][m] >= mesh[e][m]
    BY DEF Deliver, Steady, messages
  <2>1. mesh[e][m] \in Nat
    BY DEF TypeOK
  <2> QED
    BY <1>4, <2>1
<1>7. QueueInv'
  BY <1>3, <1>5, <1>6, QueueKept DEF QueueInv
<1>8. \A u, v \in Node : <<u, v>> \in Link /\ <<u, v>> # <<n, x>> => Undisturbed(u, v)
  BY DEF Deliver, Goto, TypeOK, Undisturbed, SameHead
<1>9. ReaderInv'
  <2>1. mesh'[<<n, x>>][p.id] > 0
    BY <1>1, <1>4 DEF TypeOK
  <2>2. queue'[<<x, n>>] # <<>> /\ Working(n, x, p)'
    BY <1>1, <1>2, <1>3, <2>1 DEF Deliver, Working, messages
  <2> QED
    BY <1>3, <1>5, <1>6, <1>8, <2>2, ReaderKept
<1>10. SendInv'
  BY DEF Deliver, SendInv, messages
<1>11. EntryInv'
  BY <1>2, <1>4 DEF Deliver, EntryInv, messages
<1>12. CopyBound(n, x)'
  <2> SUFFICES ASSUME NEW m \in Msg
               PROVE  LET k == mesh'[<<n, x>>][m] + (IF Pending(n, x, m)' THEN 1 ELSE 0) IN
                      /\ k <= Windows(n, m)'
                      /\ k = Windows(n, m)' =>
                            m \in seen'[n] \/ (Pending(n, x, m)' /\ at'[<<n, x>>] = "mark")
    BY DEF CopyBound
  <2>1. /\ CopyBound(n, x) /\ mesh[<<n, x>>][m] \in Nat
        /\ ~Pending(n, x, m)' /\ Windows(n, m)' = Windows(n, m) /\ seen' = seen
    BY <1>3 DEF Deliver, CopyInv, TypeOK, Pending, Windows
  <2>2. mesh'[<<n, x>>][m] = mesh[<<n, x>>][m] + (IF Pending(n, x, m) THEN 1 ELSE 0)
    <3>1. Pending(n, x, m) <=> m = p.id
      BY <1>0, <1>1 DEF Pending
    <3> QED
      BY <1>4, <2>1, <3>1
  <2>3. mesh'[<<n, x>>][m] \in Nat
    BY <1>4
  <2> QED
    BY <1>1, <2>1, <2>2, <2>3 DEF CopyBound
<1>13. CopyInv'
  BY <1>4, <1>5, <1>8, <1>12, CopyUndisturbed DEF Deliver, CopyInv
<1> QED
  BY <1>5, <1>7, <1>9, <1>10, <1>11, <1>13

LEMMA AcknowledgeStep ==
  ASSUME Inv, NEW n \in Node, NEW x \in Node, <<n, x>> \in Link, Acknowledge(n, x)
  PROVE  Inv'
<1> USE DEF Inv
<1>0. PICK p : p = Current(n, x)
  OBVIOUS
<1> DEFINE ack == Ack(p.id)
<1>1. /\ queue[<<x, n>>] # <<>> /\ p.id \in Msg /\ <<x, n>> \in Link /\ n # x
      /\ Good(x, n, p) /\ Working(n, x, p) /\ at[<<n, x>>] = "ack"
  BY <1>0, AtWork DEF Acknowledge, Busy
<1>2. ack \in Packet /\ Good(n, x, ack)
  BY <1>1, ValueAssumption DEF Ack, Packet, Good, Working, Reached
<1> HIDE DEF ack
<1>3. Enqueue(n, x, ack)
  BY <1>0 DEF Acknowledge, ack
<1>4. /\ queue' \in [Link -> Seq(Packet)]
      /\ Elements(queue'[<<n, x>>]) \subseteq Elements(queue[<<n, x>>]) \cup {ack}
      /\ \A e \in Link : e # <<n, x>> => queue'[e] = queue[e]
      /\ \A e \in Link : SameHead(e)
  BY <1>2, <1>3, EnqueueEffect
<1>5. TypeOK'
  BY <1>4 DEF Acknowledge, Goto, TypeOK, Busy, messages, inbox
<1>6. Steady
  BY DEF Acknowledge, Steady, TypeOK, messages, inbox
<1>7. QueueInv'
  BY <1>2, <1>4, <1>5, <1>6, QueueKept DEF QueueInv
<1>8. \A u, v \in Node : <<u, v>> \in Link /\ <<u, v>> # <<n, x>> => Undisturbed(u, v)
  BY <1>4, LinkAssumption DEF Acknowledge, Goto, TypeOK, Undisturbed
<1>9. at'[<<n, x>>] = "show" /\ queue'[<<x, n>>] = queue[<<x, n>>] /\ Current(n, x)' = p
  BY <1>0, <1>1, <1>4 DEF Acknowledge, Goto, TypeOK, Current
<1>10. ReaderInv'
  <2>1. queue'[<<x, n>>] # <<>> /\ Working(n, x, p)'
    BY <1>1, <1>9 DEF Working
  <2> QED
    BY <1>5, <1>6, <1>8, <1>9, <2>1, ReaderKept
<1>11. SendInv' /\ EntryInv'
  BY DEF Acknowledge, SendInv, EntryInv, messages, inbox
<1>12. CopyInv'
  BY <1>1, <1>5, <1>8, <1>9, CopyUndisturbed DEF Acknowledge, CopyInv, inbox
<1> QED
  BY <1>5, <1>7, <1>10, <1>11, <1>12

LEMMA SelectPeersStep ==
  ASSUME Inv, NEW n \in Node, NEW x \in Node, <<n, x>> \in Link, SelectPeers(n, x)
  PROVE  Inv'
<1> USE DEF Inv
<1>0. PICK p : p = Current(n, x)
  OBVIOUS
<1>1. /\ queue[<<x, n>>] # <<>> /\ p.id \in Msg
      /\ Good(x, n, p) /\ Working(n, x, p) /\ at[<<n, x>>] = "select"
  BY <1>0, AtWork DEF SelectPeers, Busy
<1>2. PICK connected \in ConnectedSets(n) : \E best \in Best(Eligible(connected, p)) :
           /\ todo' = [todo EXCEPT ![<<n, x>>] = best]
           /\ Goto(n, x, IF best = {} THEN "show" ELSE "forward")
  BY <1>0 DEF SelectPeers
<1>3. PICK best \in Best(Eligible(connected, p)) :
           /\ todo' = [todo EXCEPT ![<<n, x>>] = best]
           /\ Goto(n, x, IF best = {} THEN "show" ELSE "forward")
  BY <1>2
<1>4. best \subseteq Eligible(connected, p)
  BY DEF Best
<1>5. \A y \in connected : y \in Node /\ <<n, y>> \in Link
  BY DEF ConnectedSets, Neighbours
<1>6. \A y \in best : y \in Node /\ y # origin[p.id] /\ y \notin p.path /\ <<n, y>> \in Link
  BY <1>4, <1>5 DEF Eligible
<1>7. TypeOK'
  BY <1>3, <1>6 DEF SelectPeers, Goto, TypeOK, Busy, messages, inbox
<1>8. Steady
  BY DEF SelectPeers, Steady, TypeOK, messages, inbox
<1>9. QueueInv'
  BY <1>7, <1>8, QueueKept DEF SelectPeers, QueueInv
<1>10. \A u, v \in Node : <<u, v>> \in Link /\ <<u, v>> # <<n, x>> => Undisturbed(u, v)
  BY <1>3 DEF SelectPeers, Goto, TypeOK, Undisturbed, SameHead
<1>11. /\ at'[<<n, x>>] \in {"show", "forward"} /\ todo'[<<n, x>>] = best
       /\ queue' = queue /\ Current(n, x)' = p
  BY <1>0, <1>3 DEF SelectPeers, Goto, TypeOK, Current
<1>12. ReaderInv'
  <2>1. queue'[<<x, n>>] # <<>> /\ Working(n, x, p)'
    BY <1>1, <1>6, <1>11 DEF SelectPeers, Working, messages
  <2> QED
    BY <1>7, <1>8, <1>10, <1>11, <2>1, ReaderKept
<1>13. SendInv' /\ EntryInv'
  BY DEF SelectPeers, SendInv, EntryInv, messages, inbox
<1>14. CopyInv'
  BY <1>1, <1>7, <1>10, <1>11, CopyUndisturbed DEF SelectPeers, CopyInv, inbox
<1> QED
  BY <1>7, <1>9, <1>12, <1>13, <1>14

LEMMA ForwardToStep ==
  ASSUME Inv, NEW n \in Node, NEW x \in Node, <<n, x>> \in Link, NEW y \in Node,
         ForwardTo(n, x, y)
  PROVE  Inv'
<1> USE DEF Inv
<1>0. PICK p : p = Current(n, x)
  OBVIOUS
<1> DEFINE f == Forwarded(n, p)
<1>1. /\ queue[<<x, n>>] # <<>> /\ p \in Packet /\ p.id \in Msg
      /\ <<x, n>> \in Link /\ n # x
      /\ Good(x, n, p) /\ Working(n, x, p) /\ at[<<n, x>>] = "forward"
  BY <1>0, AtWork DEF ForwardTo, Busy
<1>2. y # origin[p.id] /\ y \notin p.path /\ <<n, y>> \in Link /\ y # n
  BY <1>1, LinkAssumption DEF ForwardTo, Working
<1>3. p.ttl \in 1..DefaultTtl /\ p.path \subseteq Node /\ p.kind = "data"
  BY <1>1, ValueAssumption DEF Packet, Working
<1>4. f \in Packet
  BY <1>1, <1>3, ValueAssumption DEF Packet, Forwarded, Copy
<1>5. Good(n, y, f)
  <2>1. IsFiniteSet(p.path) /\ n \notin p.path /\ p.ttl + Cardinality(p.path) = DefaultTtl
    BY <1>1, <1>3 DEF Good
  <2>2. /\ IsFiniteSet(p.path \cup {n})
        /\ Cardinality(p.path \cup {n}) = Cardinality(p.path) + 1
        /\ Cardinality(p.path) \in Nat
    BY <2>1, FS_AddElement, FS_CardinalityType
  <2>3. (p.ttl - 1) + Cardinality(p.path \cup {n}) = DefaultTtl
    BY <1>3, <2>1, <2>2, ValueAssumption
  <2>4. origin[p.id] \in Node /\ target[p.id] = Broadcast
    BY <1>1 DEF Good, Working
  <2> QED
    BY <1>2, <2>2, <2>3, <2>4 DEF Good, Forwarded, Copy
<1> HIDE DEF f
<1>6. Enqueue(n, y, f)
  BY <1>0 DEF ForwardTo, f
<1>7. /\ queue' \in [Link -> Seq(Packet)]
      /\ Elements(queue'[<<n, y>>]) \subseteq Elements(queue[<<n, y>>]) \cup {f}
      /\ \A e \in Link : e # <<n, y>> => queue'[e] = queue[e]
      /\ \A e \in Link : SameHead(e)
  BY <1>2, <1>4, <1>6, EnqueueEffect
<1>8. TypeOK'
  BY <1>7 DEF ForwardTo, Goto, TypeOK, Busy, messages, inbox
<1>9. Steady
  BY DEF ForwardTo, Steady, TypeOK, messages, inbox
<1>10. QueueInv'
  BY <1>2, <1>5, <1>7, <1>8, <1>9, QueueKept DEF QueueInv
<1>11. \A u, v \in Node : <<u, v>> \in Link /\ <<u, v>> # <<n, x>> => Undisturbed(u, v)
  BY <1>7, LinkAssumption DEF ForwardTo, Goto, TypeOK, Undisturbed
<1>12. /\ at'[<<n, x>>] \in {"show", "forward"}
       /\ todo'[<<n, x>>] = todo[<<n, x>>] \ {y}
       /\ queue'[<<x, n>>] = queue[<<x, n>>] /\ Current(n, x)' = p
  BY <1>0, <1>1, <1>7 DEF ForwardTo, Goto, TypeOK, Current
<1>13. ReaderInv'
  <2>1. queue'[<<x, n>>] # <<>> /\ Working(n, x, p)'
    BY <1>1, <1>12 DEF ForwardTo, Working, messages
  <2> QED
    BY <1>8, <1>9, <1>11, <1>12, <2>1, ReaderKept
<1>14. SendInv' /\ EntryInv'
  BY DEF ForwardTo, SendInv, EntryInv, messages, inbox
<1>15. CopyInv'
  BY <1>1, <1>8, <1>11, <1>12, CopyUndisturbed DEF ForwardTo, CopyInv, inbox
<1> QED
  BY <1>8, <1>10, <1>13, <1>14, <1>15

LEMMA ShowStep ==
  ASSUME Inv, NEW n \in Node, NEW x \in Node, <<n, x>> \in Link, Show(n, x)
  PROVE  Inv'
<1> USE DEF Inv
<1>0. PICK p : p = Current(n, x)
  OBVIOUS
<1>1. /\ queue[<<x, n>>] # <<>> /\ p.id \in Msg /\ <<x, n>> \in Link
      /\ Good(x, n, p) /\ Working(n, x, p) /\ at[<<n, x>>] = "show"
  BY <1>0, AtWork DEF Show, Busy
<1>2. origin[p.id] \in Node /\ target[p.id] \in {Broadcast, n}
  BY <1>1 DEF Good, Working
<1>3. /\ queue' \in [Link -> Seq(Packet)]
      /\ \A e \in Link : Elements(queue'[e]) \subseteq Elements(queue[e])
      /\ \A e \in Link : e # <<x, n>> => SameHead(e)
  BY <1>1, DequeueEffect DEF Show
<1>4. data' = [data EXCEPT ![<<n, x>>][p.id] = @ + 1] /\ at'[<<n, x>>] = "idle"
  BY <1>0 DEF Show, Goto, TypeOK
<1>5. /\ data' \in [Link -> [Msg -> Nat]]
      /\ \A m \in Msg : m # p.id => data'[<<n, x>>][m] = data[<<n, x>>][m]
      /\ \A e \in Link : e # <<n, x>> => data'[e] = data[e]
  <2>1. data[<<n, x>>] \in [Msg -> Nat] /\ data \in [Link -> [Msg -> Nat]]
    BY DEF TypeOK
  <2>2. data' = [data EXCEPT ![<<n, x>>] =
                   [data[<<n, x>>] EXCEPT ![p.id] = data[<<n, x>>][p.id] + 1]]
    BY <1>4
  <2>3. [data[<<n, x>>] EXCEPT ![p.id] = data[<<n, x>>][p.id] + 1] \in [Msg -> Nat]
    <3>1. data[<<n, x>>][p.id] + 1 \in Nat
      BY <1>1, <2>1
    <3> QED
      BY <2>1, <3>1
  <2> QED
    BY <1>1, <2>1, <2>2, <2>3
<1>6. TypeOK'
  BY <1>3, <1>5 DEF Show, Goto, TypeOK, Busy, messages
<1>7. Steady
  BY DEF Show, Steady, TypeOK, messages
<1>8. QueueInv'
  BY <1>3, <1>6, <1>7, QueueKept DEF QueueInv
<1>9. \A u, v \in Node : <<u, v>> \in Link /\ <<u, v>> # <<n, x>> => Undisturbed(u, v)
  BY <1>3, LinkAssumption DEF Show, Goto, TypeOK, Undisturbed
<1>10. ReaderInv'
  BY <1>4, <1>6, <1>7, <1>9, ReaderKept DEF Busy
<1>11. SendInv'
  BY DEF Show, SendInv, messages
<1>12. EntryInv'
  BY <1>2, <1>5 DEF Show, EntryInv, messages
<1>13. CopyInv'
  BY <1>1, <1>4, <1>6, <1>9, CopyUndisturbed DEF Show, CopyInv
<1> QED
  BY <1>6, <1>8, <1>10, <1>11, <1>12, <1>13

LEMMA TakeAckStep ==
  ASSUME Inv, NEW n \in Node, NEW x \in Node, <<n, x>> \in Link, TakeAck(n, x)
  PROVE  Inv'
<1> USE DEF Inv
<1>1. <<x, n>> \in Link
  BY LinkAssumption
<1>2. Current(n, x).id \in Msg
  BY <1>1, HeadTyped DEF TakeAck, Current, Packet
<1>3. /\ queue' \in [Link -> Seq(Packet)]
      /\ \A e \in Link : Elements(queue'[e]) \subseteq Elements(queue[e])
      /\ \A e \in Link : e # <<x, n>> => SameHead(e)
  BY <1>1, DequeueEffect DEF TakeAck
<1>4. TypeOK'
  BY <1>2, <1>3 DEF TakeAck, TypeOK, inbox
<1>5. Steady
  BY DEF TakeAck, Steady, TypeOK, inbox
<1>6. QueueInv'
  BY <1>3, <1>4, <1>5, QueueKept DEF QueueInv
<1>7. \A u, v \in Node : <<u, v>> \in Link => Undisturbed(u, v)
  BY <1>3, LinkAssumption DEF TakeAck, Undisturbed, Busy
<1>8. ReaderInv'
  BY <1>4, <1>5, <1>7, ReaderKept
<1>9. SendInv' /\ EntryInv'
  BY DEF TakeAck, SendInv, EntryInv, inbox
<1>10. CopyInv'
  BY <1>4, <1>7, CopyUndisturbed DEF TakeAck, CopyInv, inbox
<1> QED
  BY <1>4, <1>6, <1>8, <1>9, <1>10

LEMMA WindowElapsesStep ==
  ASSUME Inv, NEW n \in Node, NEW m \in Msg, WindowElapses(n, m)
  PROVE  Inv'
<1> USE DEF Inv
<1>1. TypeOK'
  BY DEF WindowElapses, TypeOK, messages, inbox
<1>2. Steady
  BY DEF WindowElapses, Steady, TypeOK, messages, inbox
<1>3. QueueInv'
  BY <1>1, <1>2, QueueKept DEF WindowElapses, QueueInv
<1>4. \A u, v \in Node : <<u, v>> \in Link => Undisturbed(u, v)
  BY DEF WindowElapses, Undisturbed, SameHead
<1>5. ReaderInv'
  BY <1>1, <1>2, <1>4, ReaderKept
<1>6. SendInv' /\ EntryInv'
  BY DEF WindowElapses, SendInv, EntryInv, messages, inbox
<1>7. CopyInv'
  <2> SUFFICES ASSUME NEW u \in Node, NEW v \in Node, <<u, v>> \in Link
               PROVE  CopyBound(u, v)'
    BY DEF CopyInv
  <2>1. late \subseteq late' /\ mesh' = mesh /\ at' = at
    BY DEF WindowElapses, inbox
  <2>2. \A k \in Msg : k \in seen[u] => k \in seen'[u] \/ <<u, k>> \in late' \ late
    BY DEF WindowElapses, TypeOK
  <2>3. \A k \in Msg : Pending(u, v, k)' <=> Pending(u, v, k)
    BY DEF WindowElapses, Pending, Current
  <2>4. CopyBound(u, v)
    BY DEF CopyInv
  <2> QED
    BY <1>1, <2>1, <2>2, <2>3, <2>4, CopyKept
<1> QED
  BY <1>1, <1>3, <1>5, <1>6, <1>7

LEMMA WriterEndsStep ==
  ASSUME Inv, NEW n \in Node, NEW x \in Node, <<n, x>> \in Link, WriterEnds(n, x)
  PROVE  Inv'
<1> USE DEF Inv
<1>1. PICK rest \in Prefixes(n, x) : queue' = [queue EXCEPT ![<<n, x>>] = rest]
  BY DEF WriterEnds
<1>2. /\ rest \in Seq(Packet)
      /\ Elements(rest) \subseteq Elements(queue[<<n, x>>])
      /\ at[<<x, n>>] \in Busy => rest # <<>> /\ Head(rest) = Head(queue[<<n, x>>])
  BY PrefixEffect
<1>3. /\ queue' \in [Link -> Seq(Packet)] /\ queue'[<<n, x>>] = rest
      /\ \A e \in Link : e # <<n, x>> => queue'[e] = queue[e]
  BY <1>1, <1>2 DEF TypeOK
<1>4. TypeOK'
  <2>1. breaks' \in Nat
    BY DEF WriterEnds, TypeOK
  <2> QED
    BY <1>3, <2>1 DEF WriterEnds, TypeOK, messages, inbox
<1>5. Steady
  BY DEF WriterEnds, Steady, TypeOK, messages, inbox
<1>6. QueueInv'
  BY <1>2, <1>3, <1>4, <1>5, QueueKept DEF QueueInv
<1>7. \A u, v \in Node : <<u, v>> \in Link => Undisturbed(u, v)
  BY <1>2, <1>3, LinkAssumption DEF WriterEnds, Undisturbed, SameHead
<1>8. ReaderInv'
  BY <1>4, <1>5, <1>7, ReaderKept
<1>9. SendInv' /\ EntryInv'
  BY DEF WriterEnds, SendInv, EntryInv, messages, inbox
<1>10. CopyInv'
  BY <1>4, <1>7, CopyUndisturbed DEF WriterEnds, CopyInv, inbox
<1> QED
  BY <1>4, <1>6, <1>8, <1>9, <1>10

LEMMA ReaderEndsStep ==
  ASSUME Inv, NEW n \in Node, NEW x \in Node, <<n, x>> \in Link, ReaderEnds(n, x)
  PROVE  Inv'
<1> USE DEF Inv
<1>1. PICK rest \in Prefixes(n, x) :
         queue' = [queue EXCEPT ![<<n, x>>] = rest, ![<<x, n>>] = <<>>]
  BY DEF ReaderEnds
<1>2. /\ rest \in Seq(Packet)
      /\ Elements(rest) \subseteq Elements(queue[<<n, x>>])
      /\ at[<<x, n>>] \in Busy => rest # <<>> /\ Head(rest) = Head(queue[<<n, x>>])
  BY PrefixEffect
<1>3. <<x, n>> \in Link /\ n # x /\ <<>> \in Seq(Packet) /\ Elements(<<>>) = {}
  BY LinkAssumption, EmptySeq DEF Elements
<1>4. /\ queue' \in [Link -> Seq(Packet)]
      /\ queue'[<<n, x>>] = rest /\ queue'[<<x, n>>] = <<>>
      /\ \A e \in Link : e # <<n, x>> /\ e # <<x, n>> => queue'[e] = queue[e]
  BY <1>1, <1>2, <1>3 DEF TypeOK
<1>5. TypeOK'
  <2>1. breaks' \in Nat
    BY DEF ReaderEnds, TypeOK
  <2>2. at' \in [Link -> Busy \cup {"off", "idle"}] /\ chan' \subseteq Link
    BY DEF ReaderEnds, TypeOK
  <2> QED
    BY <1>4, <2>1, <2>2 DEF ReaderEnds, TypeOK, messages, inbox
<1>6. Steady
  BY DEF ReaderEnds, Steady, TypeOK, messages, inbox
<1>7. QueueInv'
  BY <1>2, <1>3, <1>4, <1>5, <1>6, QueueKept DEF QueueInv
<1>8. \A u, v \in Node : <<u, v>> \in Link /\ <<u, v>> # <<n, x>> => Undisturbed(u, v)
  BY <1>2, <1>4, LinkAssumption DEF ReaderEnds, TypeOK, Undisturbed, SameHead
<1>9. at[<<n, x>>] = "idle" /\ at'[<<n, x>>] = "off"
  BY DEF ReaderEnds, TypeOK
<1>10. ReaderInv'
  BY <1>5, <1>6, <1>8, <1>9, ReaderKept DEF Busy
<1>11. SendInv' /\ EntryInv'
  BY DEF ReaderEnds, SendInv, EntryInv, messages, inbox
<1>12. CopyInv'
  BY <1>5, <1>8, <1>9, CopyUndisturbed DEF ReaderEnds, CopyInv, inbox
<1> QED
  BY <1>5, <1>7, <1>10, <1>11, <1>12

LEMMA ReconnectStep ==
  ASSUME Inv, NEW n \in Node, NEW x \in Node, <<n, x>> \in Link, Reconnect(n, x)
  PROVE  Inv'
<1> USE DEF Inv
<1>1. <<x, n>> \in Link /\ n # x
  BY LinkAssumption
<1>2. TypeOK'
  BY <1>1 DEF Reconnect, TypeOK, Busy, messages, inbox
<1>3. Steady
  BY DEF Reconnect, Steady, TypeOK, messages, inbox
<1>4. QueueInv'
  BY <1>2, <1>3, QueueKept DEF Reconnect, QueueInv
<1>5. \A u, v \in Node : <<u, v>> \in Link =>
         \/ Undisturbed(u, v)
         \/ at[<<u, v>>] = "off" /\ at'[<<u, v>>] = "idle"
  BY <1>1 DEF Reconnect, TypeOK, Undisturbed, SameHead
<1>6. ReaderInv'
  BY <1>2, <1>3, <1>5, ReaderKept DEF Busy
<1>7. SendInv' /\ EntryInv'
  BY DEF Reconnect, SendInv, EntryInv, messages, inbox
<1>8. CopyInv'
  BY <1>2, <1>5, CopyUndisturbed DEF Reconnect, CopyInv, inbox
<1> QED
  BY <1>2, <1>4, <1>6, <1>7, <1>8

LEMMA DemoteStep ==
  ASSUME Inv, NEW n \in Node, NEW x \in Node, <<n, x>> \in Link, Demote(n, x)
  PROVE  Inv'
<1> USE DEF Inv
<1>1. TypeOK'
  BY DEF Demote, TypeOK, messages, inbox
<1>2. Steady
  BY DEF Demote, Steady, TypeOK, messages, inbox
<1>3. QueueInv'
  BY <1>1, <1>2, QueueKept DEF Demote, QueueInv
<1>4. \A u, v \in Node : <<u, v>> \in Link => Undisturbed(u, v)
  BY DEF Demote, Undisturbed, SameHead
<1>5. ReaderInv'
  BY <1>1, <1>2, <1>4, ReaderKept
<1>6. SendInv' /\ EntryInv'
  BY DEF Demote, SendInv, EntryInv, messages, inbox
<1>7. CopyInv'
  BY <1>1, <1>4, CopyUndisturbed DEF Demote, CopyInv, inbox
<1> QED
  BY <1>1, <1>3, <1>5, <1>6, <1>7

-----------------------------------------------------------------------------
(* The theorems.                                                           *)

LEMMA InvStep == Inv /\ [Next]_vars => Inv'
<1> SUFFICES ASSUME Inv, [Next]_vars PROVE Inv'
  OBVIOUS
<1>1. CASE Api
  BY <1>1, OriginateStep, SendToStep DEF Api
<1>2. CASE \E e \in Link : Handle(e[1], e[2]) \/ Failure(e[1], e[2])
  <2>1. PICK n \in Node, x \in Node : <<n, x>> \in Link /\ (Handle(n, x) \/ Failure(n, x))
    BY <1>2, LinkPairs
  <2>2. CASE Handle(n, x)
    BY <2>1, <2>2, CheckSeenStep, MarkSeenStep, DeliverStep, AcknowledgeStep,
       SelectPeersStep, ForwardToStep, ShowStep, TakeAckStep DEF Handle
  <2>3. CASE Failure(n, x)
    BY <2>1, <2>3, WriterEndsStep, ReaderEndsStep, ReconnectStep, DemoteStep DEF Failure
  <2> QED
    BY <2>1, <2>2, <2>3
<1>3. CASE \E n \in Node, m \in Msg : WindowElapses(n, m)
  BY <1>3, WindowElapsesStep
<1>4. CASE UNCHANGED vars
  <2> USE <1>4 DEF vars, messages, inbox
  <2>1. TypeOK'
    BY DEF Inv, TypeOK
  <2>2. QueueInv' /\ SendInv' /\ EntryInv'
    BY DEF Inv, QueueInv, Good, Reached, SendInv, EntryInv
  <2>3. ReaderInv'
    BY DEF Inv, ReaderInv, Working, Current, ForUs
  <2>4. CopyInv'
    BY DEF Inv, CopyInv, CopyBound, Windows, Pending, Current
  <2> QED
    BY <2>1, <2>2, <2>3, <2>4 DEF Inv
<1> QED
  BY <1>1, <1>2, <1>3, <1>4 DEF Next

\* The inductive invariant holds: what every reader, queue, pending send and
\* inbox of the network knows of the messages (node.rs 2158-2519).
THEOREM Invariant == Spec => []Inv
<1> QED
  BY InvInitially, InvStep, PTL DEF Spec

\* The types of the state, the bounds of the ttl among them.
THEOREM MeshTypeCorrect == Spec => []TypeOK
<1>1. Inv => TypeOK
  BY DEF Inv
<1> QED
  BY <1>1, Invariant, PTL

\* No copy loops, in any network: none reaches its origin or a node it passed
\* through, and none makes more than DefaultTtl hops.
THEOREM FloodHasNoLoops == Spec => []NoLoops
<1>1. Inv => NoLoops
  <2> SUFFICES ASSUME Inv, NEW e \in Link, NEW i \in 1..Len(queue[e]),
                      queue[e][i].kind = "data"
               PROVE  LET p == queue[e][i] IN
                      /\ e[2] # origin[p.id] /\ e[2] \notin p.path
                      /\ IF p.path = {} THEN e[1] = origin[p.id] ELSE e[1] \in p.path
                      /\ p.ttl + Cardinality(p.path) = DefaultTtl
    BY DEF NoLoops
  <2>1. Good(e[1], e[2], queue[e][i])
    BY LinkPairs DEF Inv, QueueInv, Elements
  <2> QED
    BY <2>1 DEF Good
<1> QED
  BY <1>1, Invariant, PTL

\* One delivery per peer, message and window of the duplicate table, although
\* the check and the mark are two critical sections.
THEOREM CopiesArePerPeer == Spec => []CopiesPerPeer
<1>1. Inv => CopiesPerPeer
  <2> SUFFICES ASSUME Inv, NEW e \in Link, NEW m \in Msg
               PROVE  mesh[e][m] <= IF <<e[1], m>> \in late THEN 2 ELSE 1
    BY DEF CopiesPerPeer
  <2>1. CopyBound(e[1], e[2]) /\ e = <<e[1], e[2]>>
    BY LinkPairs DEF Inv, CopyInv
  <2>2. mesh[e][m] \in Nat
    BY DEF Inv, TypeOK
  <2> QED
    BY <2>1, <2>2 DEF CopyBound, Windows
<1> QED
  BY <1>1, Invariant, PTL

\* A message for one node leaves no inbox entry at any other node.
THEOREM DirectedIsPrivate == Spec => []DirectedStaysPrivate
<1>1. Inv => DirectedStaysPrivate
  <2> SUFFICES ASSUME Inv, NEW e \in Link, NEW m \in Msg, target[m] \in Node \ {e[1]}
               PROVE  mesh[e][m] = 0 /\ data[e][m] = 0
    BY DEF DirectedStaysPrivate
  <2>1. e = <<e[1], e[2]>> /\ e[1] \in Node /\ e[2] \in Node
    BY LinkPairs
  <2>2. ~(mesh[e][m] > 0 \/ data[e][m] > 0)
    BY <2>1, ValueAssumption DEF Inv, EntryInv
  <2>3. mesh[e][m] \in Nat /\ data[e][m] \in Nat
    BY DEF Inv, TypeOK
  <2> QED
    BY <2>2, <2>3
<1> QED
  BY <1>1, Invariant, PTL

\* The pairs that the refinement mapping regards as received.
Received == {r \in Node \X Msg : \E e \in Link : e[1] = r[1] /\ mesh[e][r[2]] > 0}

LEMMA ReceivedFrom ==
  ASSUME NEW n \in Node, NEW m \in Msg
  PROVE  <<n, m>> \in Received <=> Reached(n, m)
<1>1. ASSUME <<n, m>> \in Received
      PROVE  Reached(n, m)
  <2>1. PICK e \in Link : e[1] = n /\ mesh[e][m] > 0
    BY <1>1 DEF Received
  <2>2. e = <<n, e[2]>> /\ e[2] \in Node
    BY <2>1, LinkPairs
  <2> QED
    BY <2>1, <2>2 DEF Reached
<1>2. ASSUME Reached(n, m)
      PROVE  <<n, m>> \in Received
  BY <1>2 DEF Received, Reached
<1> QED
  BY <1>1, <1>2

\* MeshFlood implements MeshDelivery: a delivery to an inbox is a Receive, an
\* acknowledgement taken by the sender a Confirm, and every other step stutters.
THEOREM FloodImplementsDelivery == Spec => DeliversWhatWasSent
<1>1. Init => Delivery!Init
  BY DEF Init, Delivery!Init
<1>2. Inv /\ [Next]_vars => [Delivery!Next]_Delivery!vars
  <2> SUFFICES ASSUME Inv, [Next]_vars
               PROVE  [Delivery!Next]_Delivery!vars
    OBVIOUS
  <2>1. ASSUME NEW n \in Node, NEW m \in Msg, NEW to \in Node \cup {Broadcast},
               Originate(n, m, to)
        PROVE  Delivery!Next
    <3>1. to # n
      BY <2>1, LinkAssumption, ValueAssumption DEF Originate, Channels, Inv, TypeOK
    <3>2. Delivery!Send(n, m, to)
      BY <2>1, <3>1 DEF Originate, Delivery!Send, inbox
    <3> QED
      BY <3>2 DEF Delivery!Next
  <2>2. ASSUME NEW n \in Node, NEW x \in Node, <<n, x>> \in Link, Deliver(n, x)
        PROVE  Delivery!Next
    <3>0. PICK p : p = Current(n, x)
      OBVIOUS
    <3>1. /\ p.id \in Msg /\ Good(x, n, p) /\ Working(n, x, p)
          /\ at[<<n, x>>] = "deliver"
      BY <2>2, <3>0, AtWork DEF Deliver, Busy, Inv
    <3>2. origin[p.id] \notin {None, n} /\ target[p.id] \in {Broadcast, n}
      BY <3>1, ValueAssumption DEF Good, Working, ForUs
    <3>3. mesh' = [mesh EXCEPT ![<<n, x>>] =
                     [mesh[<<n, x>>] EXCEPT ![p.id] = mesh[<<n, x>>][p.id] + 1]]
      BY <2>2, <3>0 DEF Deliver
    <3>4. mesh \in [Link -> [Msg -> Nat]]
      BY DEF Inv, TypeOK
    <3>5. /\ mesh'[<<n, x>>][p.id] = mesh[<<n, x>>][p.id] + 1
          /\ \A e \in Link, m \in Msg :
                e # <<n, x>> \/ m # p.id => mesh'[e][m] = mesh[e][m]
      BY <2>2, <3>1, <3>3, <3>4
    <3>6. Received' = Received \cup {<<n, p.id>>}
      <4>1. mesh'[<<n, x>>][p.id] > 0
        BY <2>2, <3>1, <3>4, <3>5
      <4>2. \A e \in Link, m \in Msg : mesh[e][m] > 0 => mesh'[e][m] > 0
        BY <3>5, <4>1
      <4>3. \A e \in Link, m \in Msg :
               mesh'[e][m] > 0 => mesh[e][m] > 0 \/ (e = <<n, x>> /\ m = p.id)
        BY <3>5
      <4> QED
        BY <2>2, <3>1, <4>1, <4>2, <4>3 DEF Received
    <3>7. Delivery!Receive(n, p.id)
      BY <2>2, <3>2, <3>6 DEF Delivery!Receive, Deliver, messages, Received
    <3> QED
      BY <3>1, <3>7 DEF Delivery!Next
  <2>3. ASSUME NEW n \in Node, NEW x \in Node, <<n, x>> \in Link, TakeAck(n, x)
        PROVE  Delivery!Next
    <3>0. PICK p : p = Current(n, x)
      OBVIOUS
    <3>1. <<x, n>> \in Link
      BY <2>3, LinkAssumption
    <3>2. p \in Packet /\ p \in Elements(queue[<<x, n>>]) /\ p.kind = "ack"
      BY <2>3, <3>0, <3>1, HeadTyped DEF TakeAck, Current, Inv
    <3>3. p.id \in Msg /\ target[p.id] \in Node /\ Reached(target[p.id], p.id)
      BY <3>1, <3>2 DEF Inv, QueueInv, Good, Packet
    <3>4. <<target[p.id], p.id>> \in Received
      BY <3>3, ReceivedFrom
    <3>5. Delivery!Confirm(p.id)
      BY <2>3, <3>0, <3>4 DEF Delivery!Confirm, TakeAck, inbox, Received
    <3> QED
      BY <3>3, <3>5 DEF Delivery!Next
  <2>4. ASSUME UNCHANGED <<messages, mesh>>
        PROVE  UNCHANGED Delivery!vars
    BY <2>4 DEF Delivery!vars, messages
  <2>5. ASSUME NEW n \in Node, NEW x \in Node, <<n, x>> \in Link,
               Handle(n, x) \/ Failure(n, x)
        PROVE  Delivery!Next \/ UNCHANGED <<messages, mesh>>
    BY <2>2, <2>3, <2>5
       DEF Handle, Failure, CheckSeen, MarkSeen, Acknowledge, SelectPeers, ForwardTo,
           Show, WriterEnds, ReaderEnds, Reconnect, Demote, inbox
  <2>6. CASE Api
    <3>1. CASE \E m \in Msg, x \in Node : SendTo(m, x)
      BY <2>4, <3>1 DEF SendTo, inbox
    <3> QED
      BY <2>1, <2>6, <3>1 DEF Api
  <2>7. CASE \E e \in Link : Handle(e[1], e[2]) \/ Failure(e[1], e[2])
    <3>1. PICK n \in Node, x \in Node :
             <<n, x>> \in Link /\ (Handle(n, x) \/ Failure(n, x))
      BY <2>7, LinkPairs
    <3> QED
      BY <2>4, <2>5, <3>1
  <2>8. CASE \E n \in Node, m \in Msg : WindowElapses(n, m)
    BY <2>4, <2>8 DEF WindowElapses, inbox
  <2>9. CASE UNCHANGED vars
    BY <2>4, <2>9 DEF vars, inbox
  <2> QED
    BY <2>6, <2>7, <2>8, <2>9 DEF Next
<1> QED
  BY <1>1, <1>2, Invariant, PTL DEF Spec, DeliversWhatWasSent, Delivery!Spec

-----------------------------------------------------------------------------
(* Broadcasts while no connection breaks and no entry expires.             *)

Knows(n, m) == n = origin[m] \/ m \in seen[n]

\* A copy of m is on its way over e.
Carries(e, m) == \E p \in Elements(queue[e]) : p.kind = "data" /\ p.id = m

\* The reader of n for x works on m and will forward it to y, unless y is on
\* the way m came.
WillForward(n, x, y, m) ==
  /\ <<n, x>> \in Link
  /\ \/ at[<<n, x>>] \in {"deliver", "select"}
     \/ at[<<n, x>>] = "forward" /\ y \in todo[<<n, x>>]
  /\ Current(n, x).id = m

\* The neighbour y of n knows m, or is about to get a copy from n.
Covered(n, y, m) ==
  \/ Knows(y, m)
  \/ n = origin[m] /\ y \in sending[m]
  \/ Carries(<<n, y>>, m)
  \/ \E x \in Node : WillForward(n, x, y, m)

\* The reader of n for x is between the mark of m and the inbox entry.
Delivering(n, x, m) ==
  <<n, x>> \in Link /\ at[<<n, x>>] = "deliver" /\ Current(n, x).id = m

SentInv ==
  \A m \in Msg : target[m] # None \/ (\E n \in Node : m \in seen[n]) => origin[m] \in Node

\* The nodes a copy passed through know its message, and are not its origin.
PathKnown(p) ==
  p.kind = "data" => origin[p.id] \notin p.path /\ \A n \in p.path : p.id \in seen[n]

PathInv == \A e \in Link : \A p \in Elements(queue[e]) : PathKnown(p)

MarkedInv ==
  \A n, x \in Node : <<n, x>> \in Link /\ at[<<n, x>>] \in Busy \ {"mark"} =>
     Current(n, x).id \in seen[n]

\* A node that knows a message has it in its inbox, or a reader delivers it.
KnownInv ==
  \A n \in Node, m \in Msg :
     /\ Reached(n, m) => m \in seen[n]
     /\ m \in seen[n] => Reached(n, m) \/ \E x \in Node : Delivering(n, x, m)

CoverInv ==
  \A n, y \in Node, m \in Msg :
     <<n, y>> \in Link \ demoted /\ target[m] = Broadcast /\ Knows(n, m) => Covered(n, y, m)

CalmInv ==
  /\ chan = Link /\ \A e \in Link : at[e] # "off"
  /\ SentInv /\ PathInv /\ MarkedInv /\ KnownInv /\ CoverInv

-----------------------------------------------------------------------------
(* What a step that is no failure does to it.                              *)

\* Nothing is taken from a queue but its head.
LEMMA AppendKeeps ==
  ASSUME NEW S, NEW q \in Seq(S), NEW p \in S
  PROVE  Elements(q) \subseteq Elements(Append(q, p)) /\ p \in Elements(Append(q, p))
<1>1. /\ Len(Append(q, p)) = Len(q) + 1
      /\ \A i \in 1..Len(q) : Append(q, p)[i] = q[i]
      /\ Append(q, p)[Len(q) + 1] = p
      /\ Len(q) \in Nat
  BY AppendProperties, LenProperties
<1> QED
  BY <1>1 DEF Elements

LEMMA TailKeeps ==
  ASSUME NEW S, NEW q \in Seq(S), q # <<>>
  PROVE  Elements(q) \subseteq Elements(Tail(q)) \cup {Head(q)}
<1>1. Tail(q) \in Seq(S) /\ Len(Tail(q)) = Len(q) - 1 /\ Len(q) \in Nat \ {0}
  BY HeadTailProperties, EmptySeq, LenProperties
<1>2. \A i \in 1..Len(Tail(q)) : Tail(q)[i] = q[i + 1]
  BY <1>1, HeadTailProperties
<1>3. Head(q) = q[1]
  BY <1>1
<1> SUFFICES ASSUME NEW i \in 1..Len(q)
             PROVE  q[i] = Head(q) \/ \E j \in 1..Len(Tail(q)) : q[i] = Tail(q)[j]
  BY DEF Elements
<1>4. CASE i = 1
  BY <1>3, <1>4
<1>5. CASE i # 1
  <2>1. i - 1 \in 1..Len(Tail(q)) /\ Tail(q)[i - 1] = q[i]
    BY <1>1, <1>2, <1>5
  <2> QED
    BY <2>1
<1> QED
  BY <1>4, <1>5

\* While all connections are up, what is sent is queued.
LEMMA CalmEnqueue ==
  ASSUME TypeOK, chan = Link, \A e \in Link : at[e] # "off",
         NEW n \in Node, NEW x \in Node, NEW p \in Packet, <<n, x>> \in Link,
         Enqueue(n, x, p)
  PROVE  /\ p \in Elements(queue'[<<n, x>>])
         /\ \A e \in Link : Elements(queue[e]) \subseteq Elements(queue'[e])
<1> DEFINE q == queue[<<n, x>>]
<1>1. <<x, n>> \in Link
  BY LinkAssumption
<1>2. queue' = [queue EXCEPT ![<<n, x>>] = Append(q, p)]
  BY <1>1 DEF Enqueue
<1>3. q \in Seq(Packet) /\ queue \in [Link -> Seq(Packet)]
  BY DEF TypeOK
<1>4. Elements(q) \subseteq Elements(Append(q, p)) /\ p \in Elements(Append(q, p))
  BY <1>3, AppendKeeps
<1> HIDE DEF q
<1>5. queue'[<<n, x>>] = Append(q, p) /\ \A e \in Link : e # <<n, x>> => queue'[e] = queue[e]
  BY <1>2, <1>3
<1> QED
  BY <1>4, <1>5 DEF q

LEMMA CalmDequeue ==
  ASSUME TypeOK, NEW n \in Node, NEW x \in Node, <<x, n>> \in Link,
         queue[<<x, n>>] # <<>>, queue' = [queue EXCEPT ![<<x, n>>] = Tail(@)]
  PROVE  /\ Elements(queue[<<x, n>>]) \subseteq Elements(queue'[<<x, n>>]) \cup {Current(n, x)}
         /\ \A e \in Link : e # <<x, n>> => queue'[e] = queue[e]
<1>1. queue[<<x, n>>] \in Seq(Packet) /\ queue \in [Link -> Seq(Packet)]
  BY DEF TypeOK
<1>2. /\ queue'[<<x, n>>] = Tail(queue[<<x, n>>])
      /\ \A e \in Link : e # <<x, n>> => queue'[e] = queue[e]
  BY <1>1
<1> QED
  BY <1>1, <1>2, TailKeeps DEF Current

\* A reader that does not move does what it would have done.
LEMMA ReaderSteady ==
  ASSUME ReaderInv, NEW n \in Node, NEW x \in Node, <<n, x>> \in Link, Undisturbed(n, x)
  PROVE  /\ at[<<n, x>>] \in Busy => Current(n, x)' = Current(n, x)
         /\ \A m \in Msg : Delivering(n, x, m) => Delivering(n, x, m)'
         /\ \A m \in Msg, y \in Node : WillForward(n, x, y, m) => WillForward(n, x, y, m)'
<1>1. ASSUME at[<<n, x>>] \in Busy
      PROVE  Current(n, x)' = Current(n, x)
  BY <1>1 DEF ReaderInv, Undisturbed, SameHead, Current
<1>2. /\ at'[<<n, x>>] = at[<<n, x>>] /\ todo'[<<n, x>>] = todo[<<n, x>>]
      /\ {"deliver", "select", "forward"} \subseteq Busy
  BY DEF Undisturbed, Busy
<1> QED
  BY <1>1, <1>2 DEF Delivering, WillForward

\* A step keeps the invariant when it opens and closes nothing, demotes nobody,
\* forgets nothing, queues copies of known messages only, moves readers only to
\* where they know their message, and takes no message from a node's reach.
CalmMove ==
  /\ chan' = Link /\ demoted' = demoted /\ \A e \in Link : at'[e] # "off"
  /\ \A n \in Node : seen[n] \subseteq seen'[n]
  /\ \A e \in Link : \A p \in Elements(queue'[e]) :
        p \in Elements(queue[e]) \/ PathKnown(p)'
  /\ \A u, v \in Node : <<u, v>> \in Link =>
        \/ Undisturbed(u, v)
        \/ /\ at'[<<u, v>>] \in Busy \ {"mark"} => Current(u, v)' .id \in seen'[u]
           /\ \A m \in Msg : Delivering(u, v, m) => Reached(u, m)'
           /\ \A y \in Node, m \in Msg :
                 <<u, y>> \in Link \ demoted /\ target[m] = Broadcast
                    /\ WillForward(u, v, y, m) =>
                    WillForward(u, v, y, m)' \/ Carries(<<u, y>>, m)' \/ Knows(y, m)'
  /\ \A n \in Node, m \in Msg :
        /\ Reached(n, m)' => Reached(n, m) \/ m \in seen'[n]
        /\ Reached(n, m) => Reached(n, m)'
        /\ m \in seen'[n] =>
              \/ m \in seen[n]
              \/ origin'[m] \in Node /\ \E x \in Node : Delivering(n, x, m)'
  /\ \A m \in Msg : origin[m] \in Node => origin'[m] = origin[m] /\ target'[m] = target[m]
  /\ \A m \in Msg : target'[m] # None => origin'[m] \in Node
  /\ \A n, y \in Node, m \in Msg : <<n, y>> \in Link =>
        /\ target'[m] = Broadcast /\ Knows(n, m)' =>
              (target[m] = Broadcast /\ Knows(n, m)) \/ Covered(n, y, m)'
        /\ target[m] = Broadcast /\ n = origin[m] /\ y \in sending[m] =>
              y \in sending'[m] \/ Carries(<<n, y>>, m)'
        /\ Carries(<<n, y>>, m) => Carries(<<n, y>>, m)' \/ Knows(y, m)'

LEMMA CalmMoves ==
  ASSUME Inv, CalmInv, CalmMove
  PROVE  CalmInv'
<1> USE DEF CalmInv
<1>1. chan' = Link /\ demoted' = demoted /\ \A e \in Link : at'[e] # "off"
  BY DEF CalmMove
<1>2. SentInv'
  BY DEF CalmMove, SentInv
<1>3. PathInv'
  <2> SUFFICES ASSUME NEW e \in Link, NEW p \in Elements(queue'[e]), p \in Elements(queue[e])
               PROVE  PathKnown(p)'
    BY DEF PathInv, CalmMove
  <2>1. p \in Packet
    <3>1. queue[e] \in Seq(Packet)
      BY DEF Inv, TypeOK
    <3> QED
      BY <3>1, ElementOfSeq DEF Elements
  <2>2. Good(e[1], e[2], p)
    BY LinkPairs DEF Inv, QueueInv
  <2>3. p.path \subseteq Node /\ origin'[p.id] = origin[p.id]
    BY <2>1, <2>2 DEF Packet, Good, CalmMove
  <2>4. PathKnown(p)
    BY DEF PathInv
  <2> QED
    BY <2>3, <2>4 DEF PathKnown, CalmMove
<1>4. MarkedInv'
  <2> SUFFICES ASSUME NEW u \in Node, NEW v \in Node, <<u, v>> \in Link,
                      at'[<<u, v>>] \in Busy \ {"mark"}
               PROVE  Current(u, v)' .id \in seen'[u]
    BY DEF MarkedInv
  <2>1. CASE Undisturbed(u, v)
    <3>1. at[<<u, v>>] \in Busy \ {"mark"}
      BY <2>1 DEF Undisturbed
    <3>2. Current(u, v)' = Current(u, v)
      BY <2>1, <3>1, ReaderSteady DEF Inv
    <3> QED
      BY <3>1, <3>2 DEF MarkedInv, CalmMove
  <2>2. CASE ~Undisturbed(u, v)
    BY <2>2 DEF CalmMove
  <2> QED
    BY <2>1, <2>2
<1>5. KnownInv'
  <2> SUFFICES ASSUME NEW n \in Node, NEW m \in Msg
               PROVE  /\ Reached(n, m)' => m \in seen'[n]
                      /\ m \in seen'[n] => Reached(n, m)' \/ \E x \in Node : Delivering(n, x, m)'
    BY DEF KnownInv
  <2>1. Reached(n, m)' => m \in seen'[n]
    BY DEF KnownInv, CalmMove
  <2>2. ASSUME NEW x \in Node, Delivering(n, x, m)
        PROVE  Reached(n, m)' \/ Delivering(n, x, m)'
    <3>1. <<n, x>> \in Link
      BY <2>2 DEF Delivering
    <3>2. CASE Undisturbed(n, x)
      BY <2>2, <3>1, <3>2, ReaderSteady DEF Inv
    <3>3. CASE ~Undisturbed(n, x)
      BY <2>2, <3>1, <3>3 DEF CalmMove
    <3> QED
      BY <3>2, <3>3
  <2>3. CASE m \in seen[n]
    <3>1. Reached(n, m) \/ \E x \in Node : Delivering(n, x, m)
      BY <2>3 DEF KnownInv
    <3> QED
      BY <2>1, <2>2, <3>1 DEF CalmMove
  <2>4. CASE m \notin seen[n]
    BY <2>1, <2>4 DEF CalmMove
  <2> QED
    BY <2>3, <2>4
<1>6. CoverInv'
  <2> SUFFICES ASSUME NEW n \in Node, NEW y \in Node, NEW m \in Msg,
                      <<n, y>> \in Link \ demoted, target'[m] = Broadcast, Knows(n, m)'
               PROVE  Covered(n, y, m)'
    BY <1>1 DEF CoverInv
  <2>1. CASE ~(target[m] = Broadcast /\ Knows(n, m))
    BY <2>1 DEF CalmMove
  <2>2. CASE target[m] = Broadcast /\ Knows(n, m)
    <3>1. Covered(n, y, m)
      BY <2>2 DEF CoverInv
    <3>2. origin[m] \in Node /\ origin'[m] = origin[m]
      BY <2>2, ValueAssumption DEF SentInv, CalmMove
    <3>3. CASE Knows(y, m)
      BY <3>2, <3>3 DEF Knows, Covered, CalmMove
    <3>4. CASE n = origin[m] /\ y \in sending[m]
      BY <2>2, <3>2, <3>4 DEF Covered, CalmMove
    <3>5. CASE Carries(<<n, y>>, m)
      BY <3>5 DEF Covered, CalmMove
    <3>6. CASE \E x \in Node : WillForward(n, x, y, m)
      <4>1. PICK x \in Node : WillForward(n, x, y, m)
        BY <3>6
      <4>2. <<n, x>> \in Link
        BY <4>1 DEF WillForward
      <4>3. WillForward(n, x, y, m)' \/ Carries(<<n, y>>, m)' \/ Knows(y, m)'
        <5>1. CASE Undisturbed(n, x)
          BY <4>1, <4>2, <5>1, ReaderSteady DEF Inv
        <5>2. CASE ~Undisturbed(n, x)
          BY <2>2, <4>1, <4>2, <5>2 DEF CalmMove
        <5> QED
          BY <5>1, <5>2
      <4> QED
        BY <4>3 DEF Covered
    <3> QED
      BY <3>1, <3>3, <3>4, <3>5, <3>6 DEF Covered
  <2> QED
    BY <2>1, <2>2
<1> QED
  BY <1>1, <1>2, <1>3, <1>4, <1>5, <1>6

\* The steps of a reader that neither mark nor deliver.
LEMMA CalmReader ==
  ASSUME Inv, CalmInv, NEW n \in Node, NEW x \in Node, <<n, x>> \in Link,
         UNCHANGED <<origin, target, sending, chan, demoted, seen, mesh>>,
         at[<<n, x>>] # "deliver", \A e \in Link : at'[e] # "off",
         \A u, v \in Node : <<u, v>> \in Link /\ <<u, v>> # <<n, x>> => Undisturbed(u, v),
         at'[<<n, x>>] \in Busy \ {"mark"} => Current(n, x)' .id \in seen[n],
         \A e \in Link : \A p \in Elements(queue'[e]) :
            p \in Elements(queue[e]) \/ PathKnown(p)',
         \A u, v \in Node, m \in Msg : <<u, v>> \in Link /\ Carries(<<u, v>>, m) =>
            Carries(<<u, v>>, m)' \/ Knows(v, m),
         \A y \in Node, m \in Msg : <<n, y>> \in Link \ demoted /\ WillForward(n, x, y, m) =>
            WillForward(n, x, y, m)' \/ Carries(<<n, y>>, m)' \/ Knows(y, m)
  PROVE  CalmInv'
<1>1. chan' = Link /\ demoted' = demoted
  BY DEF CalmInv
<1>2. \A k \in Node, m \in Msg : (Knows(k, m)' <=> Knows(k, m)) /\ (Reached(k, m)' <=> Reached(k, m))
  BY DEF Knows, Reached
<1>3. \A u, v \in Node : <<u, v>> \in Link =>
        \/ Undisturbed(u, v)
        \/ /\ at'[<<u, v>>] \in Busy \ {"mark"} => Current(u, v)' .id \in seen'[u]
           /\ \A m \in Msg : Delivering(u, v, m) => Reached(u, m)'
           /\ \A y \in Node, m \in Msg :
                 <<u, y>> \in Link \ demoted /\ target[m] = Broadcast
                    /\ WillForward(u, v, y, m) =>
                    WillForward(u, v, y, m)' \/ Carries(<<u, y>>, m)' \/ Knows(y, m)'
  <2> SUFFICES ASSUME NEW u \in Node, NEW v \in Node, <<u, v>> \in Link, ~Undisturbed(u, v)
               PROVE  /\ at'[<<u, v>>] \in Busy \ {"mark"} => Current(u, v)' .id \in seen'[u]
                      /\ \A m \in Msg : Delivering(u, v, m) => Reached(u, m)'
                      /\ \A y \in Node, m \in Msg :
                            <<u, y>> \in Link \ demoted /\ WillForward(u, v, y, m) =>
                            WillForward(u, v, y, m)' \/ Carries(<<u, y>>, m)' \/ Knows(y, m)'
    OBVIOUS
  <2>1. u = n /\ v = x
    OBVIOUS
  <2>2. \A m \in Msg : ~Delivering(u, v, m)
    BY <2>1 DEF Delivering
  <2> QED
    BY <1>2, <2>1, <2>2
<1>4. \A k, y \in Node, m \in Msg : <<k, y>> \in Link =>
        /\ target'[m] = Broadcast /\ Knows(k, m)' => target[m] = Broadcast /\ Knows(k, m)
        /\ target[m] = Broadcast /\ k = origin[m] /\ y \in sending[m] => y \in sending'[m]
        /\ Carries(<<k, y>>, m) => Carries(<<k, y>>, m)' \/ Knows(y, m)'
  BY <1>2
<1>5. \A m \in Msg : target'[m] # None => origin'[m] \in Node
  BY DEF CalmInv, SentInv
<1>6. CalmMove
  BY <1>1, <1>2, <1>3, <1>4, <1>5 DEF CalmMove
<1> QED
  BY <1>6, CalmMoves

LEMMA CalmCheckSeen ==
  ASSUME WideEnough, Inv, CalmInv, NEW n \in Node, NEW x \in Node, <<n, x>> \in Link,
         CheckSeen(n, x)
  PROVE  CalmInv'
<1> USE DEF Inv
<1>0. PICK p : p = Current(n, x)
  OBVIOUS
<1>1. /\ at[<<n, x>>] = "idle" /\ queue[<<x, n>>] # <<>> /\ p.kind = "data"
      /\ at' = [at EXCEPT ![<<n, x>>] = IF ShouldProcess(n, p) THEN "mark" ELSE "show"]
      /\ queue' = queue /\ Current(n, x)' = p
      /\ UNCHANGED <<origin, target, sending, chan, demoted, seen, mesh>>
  BY <1>0 DEF CheckSeen, Goto, messages, inbox, Current
<1>2. <<x, n>> \in Link /\ n # x
  BY LinkAssumption
<1>3. p \in Packet /\ p \in Elements(queue[<<x, n>>])
  BY <1>0, <1>1, <1>2, HeadTyped DEF Current
<1>4. Good(x, n, p)
  BY <1>2, <1>3 DEF QueueInv
<1>5. /\ origin[p.id] \in Node /\ n # origin[p.id] /\ n \notin p.path
      /\ IsFiniteSet(p.path) /\ p.ttl + Cardinality(p.path) = DefaultTtl
      /\ p.path \subseteq Node /\ p.ttl \in 0..DefaultTtl /\ origin[p.id] \notin p.path
  <2>1. PathKnown(p)
    BY <1>2, <1>3 DEF CalmInv, PathInv
  <2> QED
    BY <1>1, <1>3, <1>4, <2>1 DEF Good, Packet, PathKnown
<1>6. p.ttl # 0
  <2> DEFINE S == p.path \cup {n}
  <2>1. /\ IsFiniteSet(S) /\ Cardinality(S) = Cardinality(p.path) + 1
        /\ Cardinality(p.path) \in Nat
    BY <1>5, FS_AddElement, FS_CardinalityType
  <2>0. origin[p.id] \notin S /\ S \cup {origin[p.id]} \subseteq Node
    BY <1>5
  <2> HIDE DEF S
  <2>2. Cardinality(S \cup {origin[p.id]}) = Cardinality(S) + 1
    BY <2>0, <2>1, FS_AddElement
  <2>3. Cardinality(S \cup {origin[p.id]}) <= Cardinality(Node)
    BY <2>0, FS_Subset DEF WideEnough
  <2>4. Cardinality(Node) \in Nat /\ Cardinality(Node) <= DefaultTtl + 1
    BY FS_CardinalityType DEF WideEnough
  <2> QED
    BY <1>5, <2>1, <2>2, <2>3, <2>4, ValueAssumption
<1>7. /\ at'[<<n, x>>] \in {"mark", "show"} /\ \A e \in Link : e # <<n, x>> => at'[e] = at[e]
      /\ at'[<<n, x>>] = "show" => p.id \in seen[n]
  BY <1>1, <1>5, <1>6 DEF TypeOK, ShouldProcess
<1>8. \A u, v \in Node : <<u, v>> \in Link /\ <<u, v>> # <<n, x>> => Undisturbed(u, v)
  BY <1>7 DEF CheckSeen, Undisturbed, SameHead
<1>9. \A y \in Node, m \in Msg : ~WillForward(n, x, y, m)
  BY <1>1 DEF WillForward
<1>10. \A e \in Link, m \in Msg : Carries(e, m) => Carries(e, m)'
  BY <1>1 DEF Carries, Elements
<1>11. \A e \in Link : at'[e] # "off"
  BY <1>7 DEF CalmInv
<1>12. \A e \in Link : Elements(queue'[e]) = Elements(queue[e])
  BY <1>1
<1> QED
  BY <1>1, <1>7, <1>8, <1>9, <1>10, <1>11, <1>12, CalmReader

LEMMA CalmAcknowledge ==
  ASSUME Inv, CalmInv, NEW n \in Node, NEW x \in Node, <<n, x>> \in Link, Acknowledge(n, x)
  PROVE  CalmInv'
<1> USE DEF Inv
<1>0. PICK p : p = Current(n, x)
  OBVIOUS
<1> DEFINE ack == Ack(p.id)
<1>1. /\ at[<<n, x>>] = "ack" /\ Enqueue(n, x, ack)
      /\ at' = [at EXCEPT ![<<n, x>>] = "show"]
      /\ UNCHANGED <<origin, target, sending, chan, demoted, seen, mesh, todo>>
  BY <1>0 DEF Acknowledge, Goto, messages, inbox
<1>2. queue[<<x, n>>] # <<>> /\ p.id \in Msg /\ <<x, n>> \in Link /\ n # x
  BY <1>0, <1>1, AtWork DEF Busy
<1>3. ack \in Packet /\ ack.kind = "ack" /\ ack.path = {}
  BY <1>2, ValueAssumption DEF Ack, Packet
<1> HIDE DEF ack
<1>4. /\ Elements(queue'[<<n, x>>]) \subseteq Elements(queue[<<n, x>>]) \cup {ack}
      /\ \A e \in Link : e # <<n, x>> => queue'[e] = queue[e]
      /\ \A e \in Link : SameHead(e)
      /\ \A e \in Link : Elements(queue[e]) \subseteq Elements(queue'[e])
  BY <1>1, <1>3, EnqueueEffect, CalmEnqueue DEF CalmInv
<1>5. /\ at'[<<n, x>>] = "show" /\ \A e \in Link : e # <<n, x>> => at'[e] = at[e]
      /\ Current(n, x)' = p
  BY <1>0, <1>1, <1>2, <1>4 DEF TypeOK, Current
<1>6. \A u, v \in Node : <<u, v>> \in Link /\ <<u, v>> # <<n, x>> => Undisturbed(u, v)
  BY <1>1, <1>4, <1>5, LinkAssumption DEF Undisturbed
<1>7. p.id \in seen[n]
  BY <1>0, <1>1 DEF CalmInv, MarkedInv, Busy
<1>8. \A y \in Node, m \in Msg : ~WillForward(n, x, y, m)
  BY <1>1 DEF WillForward
<1>9. \A e \in Link, m \in Msg : Carries(e, m) => Carries(e, m)'
  BY <1>4 DEF Carries
<1>10. \A e \in Link : at'[e] # "off"
  BY <1>5 DEF CalmInv
<1>11. \A e \in Link : \A r \in Elements(queue'[e]) : r \in Elements(queue[e]) \/ PathKnown(r)'
  BY <1>3, <1>4 DEF PathKnown
<1> QED
  BY <1>1, <1>5, <1>6, <1>7, <1>8, <1>9, <1>10, <1>11, CalmReader

\* In a network that is wide enough, the selection leaves only nodes out that are
\* not Connected or know the message: its origin and those on its way.
LEMMA SelectsAll ==
  ASSUME WideEnough, NEW n \in Node, NEW x \in Node, <<n, x>> \in Link, NEW p,
         x = origin[p.id] \/ x \in p.path,
         NEW connected \in SUBSET Neighbours(n), NEW best \in Best(Eligible(connected, p))
  PROVE  best = Eligible(connected, p)
<1> DEFINE S == Neighbours(n)
           E == Eligible(connected, p)
<1>1. IsFiniteSet(S) /\ Cardinality(S) \in Nat /\ Cardinality(S) <= Fanout + 1 /\ x \in S
  BY FS_Subset, FS_CardinalityType DEF WideEnough, Neighbours
<1>2. E \subseteq S \ {x}
  BY DEF Eligible
<1> HIDE DEF S, E
<1>3. /\ IsFiniteSet(S \ {x}) /\ Cardinality(S \ {x}) = Cardinality(S) - 1
  BY <1>1, FS_RemoveElement
<1>4. IsFiniteSet(E) /\ Cardinality(E) <= Cardinality(S \ {x}) /\ Cardinality(E) \in Nat
  BY <1>2, <1>3, FS_Subset, FS_CardinalityType
<1>5. Cardinality(E) <= Fanout
  BY <1>1, <1>3, <1>4, ValueAssumption
<1> QED
  BY <1>5 DEF Best, E

LEMMA CalmSelectPeers ==
  ASSUME WideEnough, Inv, CalmInv, NEW n \in Node, NEW x \in Node, <<n, x>> \in Link,
         SelectPeers(n, x)
  PROVE  CalmInv'
<1> USE DEF Inv
<1>0. PICK p : p = Current(n, x)
  OBVIOUS
<1>1. /\ at[<<n, x>>] = "select" /\ queue' = queue /\ Current(n, x)' = p
      /\ UNCHANGED <<origin, target, sending, chan, demoted, seen, mesh>>
  BY <1>0 DEF SelectPeers, messages, inbox, Current
<1>2. /\ queue[<<x, n>>] # <<>> /\ p \in Packet /\ p.id \in Msg /\ <<x, n>> \in Link
      /\ Good(x, n, p) /\ Working(n, x, p)
  BY <1>0, <1>1, AtWork DEF Busy
<1>3. PICK connected \in ConnectedSets(n) : \E best \in Best(Eligible(connected, p)) :
           /\ todo' = [todo EXCEPT ![<<n, x>>] = best]
           /\ Goto(n, x, IF best = {} THEN "show" ELSE "forward")
  BY <1>0 DEF SelectPeers
<1>4. /\ connected \subseteq Neighbours(n)
      /\ \A y \in Node : <<n, y>> \in Link \ demoted => y \in connected
  BY DEF CalmInv, ConnectedSets, Channels, Neighbours
<1>5. PICK best \in Best(Eligible(connected, p)) :
           /\ todo' = [todo EXCEPT ![<<n, x>>] = best]
           /\ Goto(n, x, IF best = {} THEN "show" ELSE "forward")
  BY <1>3
<1>6. best = Eligible(connected, p)
  BY <1>2, <1>4, SelectsAll DEF Good, Working
<1>7. /\ todo'[<<n, x>>] = best /\ at'[<<n, x>>] = IF best = {} THEN "show" ELSE "forward"
      /\ \A e \in Link : e # <<n, x>> => at'[e] = at[e] /\ todo'[e] = todo[e]
  BY <1>5 DEF Goto, TypeOK
<1>8. \A u, v \in Node : <<u, v>> \in Link /\ <<u, v>> # <<n, x>> => Undisturbed(u, v)
  BY <1>1, <1>7 DEF Undisturbed, SameHead
<1>9. p.id \in seen[n]
  BY <1>0, <1>1 DEF CalmInv, MarkedInv, Busy
<1>10. \A e \in Link, m \in Msg : Carries(e, m) => Carries(e, m)'
  BY <1>1 DEF Carries
<1>11. \A e \in Link : at'[e] # "off"
  BY <1>7 DEF CalmInv
<1>12. ASSUME NEW y \in Node, NEW m \in Msg, <<n, y>> \in Link \ demoted,
              WillForward(n, x, y, m)
       PROVE  WillForward(n, x, y, m)' \/ Knows(y, m)
  <2>1. m = p.id
    BY <1>0, <1>12 DEF WillForward
  <2>2. CASE y \in best
    BY <1>1, <1>7, <2>1, <2>2 DEF WillForward
  <2>3. CASE y \notin best
    <3>1. y = origin[m] \/ y \in p.path
      BY <1>4, <1>6, <1>12, <2>1, <2>3 DEF Eligible
    <3>2. PathKnown(p)
      BY <1>0, <1>2, HeadTyped DEF CalmInv, PathInv, Current
    <3> QED
      BY <1>2, <2>1, <3>1, <3>2 DEF PathKnown, Knows, Working
  <2> QED
    BY <2>2, <2>3
<1>13. \A e \in Link : Elements(queue'[e]) = Elements(queue[e])
  BY <1>1
<1> QED
  BY <1>1, <1>8, <1>9, <1>10, <1>11, <1>12, <1>13, CalmReader

LEMMA CalmForwardTo ==
  ASSUME Inv, CalmInv, NEW n \in Node, NEW x \in Node, <<n, x>> \in Link, NEW y \in Node,
         ForwardTo(n, x, y)
  PROVE  CalmInv'
<1> USE DEF Inv
<1>0. PICK p : p = Current(n, x)
  OBVIOUS
<1> DEFINE f == Forwarded(n, p)
<1>1. /\ at[<<n, x>>] = "forward" /\ Enqueue(n, y, f) /\ y \in todo[<<n, x>>]
      /\ todo' = [todo EXCEPT ![<<n, x>>] = @ \ {y}]
      /\ at' = [at EXCEPT ![<<n, x>>] = IF todo[<<n, x>>] = {y} THEN "show" ELSE "forward"]
      /\ UNCHANGED <<origin, target, sending, chan, demoted, seen, mesh>>
  BY <1>0 DEF ForwardTo, Goto, messages, inbox
<1>2. /\ queue[<<x, n>>] # <<>> /\ p \in Packet /\ p.id \in Msg /\ <<x, n>> \in Link /\ n # x
      /\ Good(x, n, p) /\ Working(n, x, p)
  BY <1>0, <1>1, AtWork DEF Busy
<1>3. <<n, y>> \in Link /\ y # n
  BY <1>1, <1>2, LinkAssumption DEF Working
<1>4. p.id \in seen[n]
  BY <1>0, <1>1 DEF CalmInv, MarkedInv, Busy
<1>5. p.ttl \in 1..DefaultTtl /\ p.path \subseteq Node /\ p.kind = "data"
  BY <1>1, <1>2, ValueAssumption DEF Packet, Working
<1>6. f \in Packet /\ f.id = p.id /\ f.kind = "data" /\ f.path = p.path \cup {n}
  BY <1>2, <1>5, ValueAssumption DEF Packet, Forwarded, Copy
<1>7. PathKnown(f)'
  <2>1. PathKnown(p)
    BY <1>0, <1>2, HeadTyped DEF CalmInv, PathInv, Current
  <2>2. n # origin[p.id]
    BY <1>2, <1>5 DEF Good
  <2> QED
    BY <1>1, <1>4, <1>5, <1>6, <2>1, <2>2 DEF PathKnown
<1> HIDE DEF f
<1>8. /\ Elements(queue'[<<n, y>>]) \subseteq Elements(queue[<<n, y>>]) \cup {f}
      /\ \A e \in Link : e # <<n, y>> => queue'[e] = queue[e]
      /\ \A e \in Link : SameHead(e)
      /\ \A e \in Link : Elements(queue[e]) \subseteq Elements(queue'[e])
      /\ f \in Elements(queue'[<<n, y>>])
  BY <1>1, <1>3, <1>6, EnqueueEffect, CalmEnqueue DEF CalmInv
<1>9. /\ at'[<<n, x>>] = IF todo[<<n, x>>] = {y} THEN "show" ELSE "forward"
      /\ todo'[<<n, x>>] = todo[<<n, x>>] \ {y}
      /\ \A e \in Link : e # <<n, x>> => at'[e] = at[e] /\ todo'[e] = todo[e]
      /\ Current(n, x)' = p
  BY <1>0, <1>1, <1>2, <1>3, <1>8 DEF TypeOK, Current
<1>10. \A u, v \in Node : <<u, v>> \in Link /\ <<u, v>> # <<n, x>> => Undisturbed(u, v)
  BY <1>8, <1>9, LinkAssumption DEF Undisturbed
<1>11. \A e \in Link, m \in Msg : Carries(e, m) => Carries(e, m)'
  BY <1>8 DEF Carries
<1>12. \A e \in Link : at'[e] # "off"
  BY <1>9 DEF CalmInv
<1>13. \A e \in Link : \A r \in Elements(queue'[e]) : r \in Elements(queue[e]) \/ PathKnown(r)'
  BY <1>7, <1>8
<1>14. ASSUME NEW z \in Node, NEW m \in Msg, <<n, z>> \in Link, WillForward(n, x, z, m)
       PROVE  WillForward(n, x, z, m)' \/ Carries(<<n, z>>, m)'
  <2>1. m = p.id /\ z \in todo[<<n, x>>]
    BY <1>0, <1>1, <1>14 DEF WillForward
  <2>2. CASE z = y
    BY <1>6, <1>8, <2>1, <2>2 DEF Carries
  <2>3. CASE z # y
    BY <1>9, <2>1, <2>3 DEF WillForward
  <2> QED
    BY <2>2, <2>3
<1> QED
  BY <1>1, <1>4, <1>9, <1>10, <1>11, <1>12, <1>13, <1>14, CalmReader

LEMMA CalmShow ==
  ASSUME Inv, CalmInv, NEW n \in Node, NEW x \in Node, <<n, x>> \in Link, Show(n, x)
  PROVE  CalmInv'
<1> USE DEF Inv
<1>0. PICK p : p = Current(n, x)
  OBVIOUS
<1>1. /\ at[<<n, x>>] = "show" /\ at' = [at EXCEPT ![<<n, x>>] = "idle"]
      /\ queue' = [queue EXCEPT ![<<x, n>>] = Tail(@)]
      /\ UNCHANGED <<origin, target, sending, chan, demoted, seen, mesh, todo>>
  BY DEF Show, Goto, messages
<1>2. queue[<<x, n>>] # <<>> /\ p.id \in Msg /\ <<x, n>> \in Link
  BY <1>0, <1>1, AtWork DEF Busy
<1>3. /\ \A e \in Link : Elements(queue'[e]) \subseteq Elements(queue[e])
      /\ \A e \in Link : e # <<x, n>> => SameHead(e)
      /\ Elements(queue[<<x, n>>]) \subseteq Elements(queue'[<<x, n>>]) \cup {p}
      /\ \A e \in Link : e # <<x, n>> => queue'[e] = queue[e]
  BY <1>0, <1>1, <1>2, DequeueEffect, CalmDequeue
<1>4. at'[<<n, x>>] = "idle" /\ \A e \in Link : e # <<n, x>> => at'[e] = at[e]
  BY <1>1 DEF TypeOK
<1>5. \A u, v \in Node : <<u, v>> \in Link /\ <<u, v>> # <<n, x>> => Undisturbed(u, v)
  BY <1>1, <1>3, <1>4, LinkAssumption DEF Undisturbed
<1>6. p.id \in seen[n]
  BY <1>0, <1>1 DEF CalmInv, MarkedInv, Busy
<1>7. \A y \in Node, m \in Msg : ~WillForward(n, x, y, m)
  BY <1>1 DEF WillForward
<1>8. \A u, v \in Node, m \in Msg : <<u, v>> \in Link /\ Carries(<<u, v>>, m) =>
         Carries(<<u, v>>, m)' \/ Knows(v, m)
  BY <1>3, <1>6 DEF Carries, Knows
<1>9. \A e \in Link : at'[e] # "off"
  BY <1>4 DEF CalmInv
<1>10. "idle" \notin Busy
  BY DEF Busy
<1> QED
  BY <1>1, <1>3, <1>4, <1>5, <1>7, <1>8, <1>9, <1>10, CalmReader

LEMMA CalmTakeAck ==
  ASSUME Inv, CalmInv, NEW n \in Node, NEW x \in Node, <<n, x>> \in Link, TakeAck(n, x)
  PROVE  CalmInv'
<1> USE DEF Inv
<1>0. PICK p : p = Current(n, x)
  OBVIOUS
<1>1. /\ at[<<n, x>>] = "idle" /\ queue[<<x, n>>] # <<>> /\ p.kind = "ack"
      /\ queue' = [queue EXCEPT ![<<x, n>>] = Tail(@)]
      /\ UNCHANGED <<origin, target, sending, chan, demoted, seen, mesh, at, todo>>
  BY <1>0 DEF TakeAck, inbox
<1>2. <<x, n>> \in Link
  BY LinkAssumption
<1>3. /\ \A e \in Link : Elements(queue'[e]) \subseteq Elements(queue[e])
      /\ \A e \in Link : e # <<x, n>> => SameHead(e)
      /\ Elements(queue[<<x, n>>]) \subseteq Elements(queue'[<<x, n>>]) \cup {p}
      /\ \A e \in Link : e # <<x, n>> => queue'[e] = queue[e]
  BY <1>0, <1>1, <1>2, DequeueEffect, CalmDequeue
<1>4. \A u, v \in Node : <<u, v>> \in Link /\ <<u, v>> # <<n, x>> => Undisturbed(u, v)
  BY <1>1, <1>3, LinkAssumption DEF Undisturbed
<1>5. \A y \in Node, m \in Msg : ~WillForward(n, x, y, m)
  BY <1>1 DEF WillForward
<1>6. \A u, v \in Node, m \in Msg : <<u, v>> \in Link /\ Carries(<<u, v>>, m) =>
         Carries(<<u, v>>, m)'
  BY <1>1, <1>3 DEF Carries
<1>7. \A e \in Link : at'[e] # "off"
  BY <1>1 DEF CalmInv
<1>8. at'[<<n, x>>] \notin Busy
  BY <1>1 DEF Busy
<1> QED
  BY <1>1, <1>3, <1>4, <1>5, <1>6, <1>7, <1>8, CalmReader

LEMMA CalmOriginate ==
  ASSUME Inv, CalmInv, NEW n \in Node, NEW m \in Msg, NEW to \in Node \cup {Broadcast},
         Originate(n, m, to)
  PROVE  CalmInv'
<1> USE DEF Inv
<1>1. /\ origin[m] = None /\ origin' = [origin EXCEPT ![m] = n]
      /\ target' = [target EXCEPT ![m] = to]
      /\ sending' = [sending EXCEPT ![m] = IF to = Broadcast THEN Channels(n) ELSE {to}]
      /\ UNCHANGED <<chan, demoted, queue, at, todo, seen, mesh>>
  BY DEF Originate, inbox
<1>2. /\ origin'[m] = n /\ target'[m] = to
      /\ to = Broadcast => sending'[m] = Neighbours(n)
      /\ \A k \in Msg : k # m => /\ origin'[k] = origin[k] /\ target'[k] = target[k]
                                 /\ sending'[k] = sending[k]
  BY <1>1 DEF TypeOK, CalmInv, Channels, Neighbours
<1>3. origin[m] \notin Node /\ target[m] = None /\ \A k \in Node : m \notin seen[k]
  BY <1>1, ValueAssumption DEF CalmInv, SentInv
<1>4. \A u, v \in Node : <<u, v>> \in Link => Undisturbed(u, v)
  BY <1>1 DEF Undisturbed, SameHead
<1>5. \A k \in Node, j \in Msg : Reached(k, j)' <=> Reached(k, j)
  BY <1>1 DEF Reached
<1>6. \A e \in Link, j \in Msg : Carries(e, j)' <=> Carries(e, j)
  BY <1>1 DEF Carries, Elements
<1>7. \A e \in Link : Elements(queue'[e]) = Elements(queue[e])
  BY <1>1
<1>8. ASSUME NEW u \in Node, NEW y \in Node, NEW k \in Msg, <<u, y>> \in Link
      PROVE  /\ target'[k] = Broadcast /\ Knows(u, k)' =>
                   (target[k] = Broadcast /\ Knows(u, k)) \/ Covered(u, y, k)'
             /\ target[k] = Broadcast /\ u = origin[k] /\ y \in sending[k] => y \in sending'[k]
             /\ Carries(<<u, y>>, k) => Carries(<<u, y>>, k)'
  <2>1. CASE k = m
    BY <1>1, <1>2, <1>3, <1>6, <1>8, <2>1, ValueAssumption DEF Knows, Covered, Neighbours
  <2>2. CASE k # m
    BY <1>1, <1>2, <1>6, <1>8, <2>2 DEF Knows
  <2> QED
    BY <2>1, <2>2
<1>9. CalmMove
  BY <1>1, <1>2, <1>3, <1>4, <1>5, <1>7, <1>8 DEF CalmMove, CalmInv, SentInv
<1> QED
  BY <1>9, CalmMoves

LEMMA CalmSendTo ==
  ASSUME Inv, CalmInv, NEW m \in Msg, NEW x \in Node, SendTo(m, x)
  PROVE  CalmInv'
<1> USE DEF Inv
<1> DEFINE p == Copy(m, DefaultTtl, {})
<1>1. /\ x \in sending[m] /\ Enqueue(origin[m], x, p)
      /\ sending' = [sending EXCEPT ![m] = @ \ {x}]
      /\ UNCHANGED <<origin, target, chan, demoted, at, todo, seen, mesh>>
  BY DEF SendTo, messages, inbox
<1>2. origin[m] \in Node /\ <<origin[m], x>> \in Link
  BY <1>1 DEF SendInv
<1>3. p \in Packet /\ p.kind = "data" /\ p.id = m /\ p.path = {}
  BY ValueAssumption DEF Packet, Copy
<1> HIDE DEF p
<1>4. /\ Elements(queue'[<<origin[m], x>>]) \subseteq Elements(queue[<<origin[m], x>>]) \cup {p}
      /\ \A e \in Link : e # <<origin[m], x>> => queue'[e] = queue[e]
      /\ \A e \in Link : SameHead(e)
      /\ \A e \in Link : Elements(queue[e]) \subseteq Elements(queue'[e])
      /\ p \in Elements(queue'[<<origin[m], x>>])
  BY <1>1, <1>2, <1>3, EnqueueEffect, CalmEnqueue DEF CalmInv
<1>5. \A u, v \in Node : <<u, v>> \in Link => Undisturbed(u, v)
  BY <1>1, <1>4, LinkAssumption DEF Undisturbed
<1>6. \A k \in Node, j \in Msg : /\ Reached(k, j)' <=> Reached(k, j)
                                 /\ Knows(k, j)' <=> Knows(k, j)
  BY <1>1 DEF Reached, Knows
<1>7. \A e \in Link, j \in Msg : Carries(e, j) => Carries(e, j)'
  BY <1>4 DEF Carries
<1>8. \A e \in Link : \A r \in Elements(queue'[e]) : r \in Elements(queue[e]) \/ PathKnown(r)'
  BY <1>3, <1>4 DEF PathKnown
<1>9. ASSUME NEW u \in Node, NEW y \in Node, NEW k \in Msg, <<u, y>> \in Link,
             u = origin[k], y \in sending[k]
      PROVE  y \in sending'[k] \/ Carries(<<u, y>>, k)'
  <2>1. CASE k = m /\ y = x
    BY <1>3, <1>4, <1>9, <2>1 DEF Carries
  <2>2. CASE ~(k = m /\ y = x)
    BY <1>1, <1>9, <2>2 DEF TypeOK
  <2> QED
    BY <2>1, <2>2
<1>10. CalmMove
  BY <1>1, <1>5, <1>6, <1>7, <1>8, <1>9 DEF CalmMove, CalmInv, SentInv
<1> QED
  BY <1>10, CalmMoves

LEMMA CalmMarkSeen ==
  ASSUME Inv, CalmInv, NEW n \in Node, NEW x \in Node, <<n, x>> \in Link, MarkSeen(n, x)
  PROVE  CalmInv'
<1> USE DEF Inv
<1>0. PICK p : p = Current(n, x)
  OBVIOUS
<1>1. /\ at[<<n, x>>] = "mark" /\ seen' = [seen EXCEPT ![n] = @ \cup {p.id}]
      /\ at' = [at EXCEPT ![<<n, x>>] = IF ForUs(n, p.id) THEN "deliver" ELSE "select"]
      /\ UNCHANGED <<origin, target, sending, chan, demoted, queue, todo, mesh>>
      /\ Current(n, x)' = p
  BY <1>0 DEF MarkSeen, Goto, messages, inbox, Current
<1>2. /\ p.id \in Msg /\ Good(x, n, p) /\ Working(n, x, p)
  BY <1>0, <1>1, AtWork DEF Busy
<1>3. ForUs(n, p.id) /\ origin[p.id] \in Node
  BY <1>1, <1>2 DEF Good, Working, ForUs
<1>4. /\ at'[<<n, x>>] = "deliver" /\ \A e \in Link : e # <<n, x>> => at'[e] = at[e]
      /\ seen'[n] = seen[n] \cup {p.id} /\ \A k \in Node : k # n => seen'[k] = seen[k]
  BY <1>1, <1>3 DEF TypeOK
<1>5. \A u, v \in Node : <<u, v>> \in Link /\ <<u, v>> # <<n, x>> => Undisturbed(u, v)
  BY <1>1, <1>4 DEF Undisturbed, SameHead
<1>6. \A k \in Node, j \in Msg : Reached(k, j)' <=> Reached(k, j)
  BY <1>1 DEF Reached
<1>7. \A e \in Link, j \in Msg : Carries(e, j)' <=> Carries(e, j)
  BY <1>1 DEF Carries, Elements
<1>8. \A e \in Link : Elements(queue'[e]) = Elements(queue[e])
  BY <1>1
<1>9. Delivering(n, x, p.id)' /\ \A y \in Node : WillForward(n, x, y, p.id)'
  BY <1>1, <1>4 DEF Delivering, WillForward
<1>10. ASSUME NEW u \in Node, NEW v \in Node, <<u, v>> \in Link, ~Undisturbed(u, v)
       PROVE  /\ at'[<<u, v>>] \in Busy \ {"mark"} => Current(u, v)' .id \in seen'[u]
              /\ \A m \in Msg : ~Delivering(u, v, m)
              /\ \A y \in Node, m \in Msg : ~WillForward(u, v, y, m)
  <2>1. u = n /\ v = x
    BY <1>5, <1>10
  <2> QED
    BY <1>1, <1>4, <2>1 DEF Delivering, WillForward
<1>11. ASSUME NEW k \in Node, NEW m \in Msg, m \in seen'[k], m \notin seen[k]
       PROVE  k = n /\ m = p.id
  BY <1>4, <1>11
<1>12. ASSUME NEW u \in Node, NEW y \in Node, NEW m \in Msg, Knows(u, m)', ~Knows(u, m)
       PROVE  Covered(u, y, m)'
  <2>1. u = n /\ m = p.id
    BY <1>1, <1>4, <1>12 DEF Knows
  <2> QED
    BY <1>9, <2>1 DEF Covered
<1>13. /\ chan' = Link /\ demoted' = demoted /\ \A e \in Link : at'[e] # "off"
       /\ \A k \in Node : seen[k] \subseteq seen'[k]
       /\ \A m \in Msg : target'[m] # None => origin'[m] \in Node
  BY <1>1, <1>4 DEF CalmInv, SentInv
<1>14. CalmMove
  BY <1>1, <1>3, <1>6, <1>7, <1>8, <1>9, <1>10, <1>11, <1>12, <1>13 DEF CalmMove
<1> QED
  BY <1>14, CalmMoves

LEMMA CalmDeliver ==
  ASSUME Inv, CalmInv, NEW n \in Node, NEW x \in Node, <<n, x>> \in Link, Deliver(n, x)
  PROVE  CalmInv'
<1> USE DEF Inv
<1>0. PICK p : p = Current(n, x)
  OBVIOUS
<1>1. /\ at[<<n, x>>] = "deliver"
      /\ mesh' = [mesh EXCEPT ![<<n, x>>][p.id] = @ + 1]
      /\ at' = [at EXCEPT ![<<n, x>>] = IF target[p.id] = Broadcast THEN "select" ELSE "ack"]
      /\ UNCHANGED <<origin, target, sending, chan, demoted, queue, todo, seen>>
      /\ Current(n, x)' = p
  BY <1>0 DEF Deliver, Goto, messages, Current
<1>2. /\ p.id \in Msg
  BY <1>0, <1>1, AtWork DEF Busy
<1>3. p.id \in seen[n]
  BY <1>0, <1>1 DEF CalmInv, MarkedInv, Busy
<1>4. /\ mesh'[<<n, x>>][p.id] > 0
      /\ \A e \in Link, m \in Msg : e # <<n, x>> \/ m # p.id => mesh'[e][m] = mesh[e][m]
  <2>1. mesh[<<n, x>>] \in [Msg -> Nat] /\ mesh \in [Link -> [Msg -> Nat]]
    BY DEF TypeOK
  <2>2. mesh' = [mesh EXCEPT ![<<n, x>>] =
                   [mesh[<<n, x>>] EXCEPT ![p.id] = mesh[<<n, x>>][p.id] + 1]]
    BY <1>1
  <2>3. mesh[<<n, x>>][p.id] \in Nat
    BY <1>2, <2>1
  <2>4. /\ mesh'[<<n, x>>][p.id] = mesh[<<n, x>>][p.id] + 1
        /\ \A e \in Link, m \in Msg : e # <<n, x>> \/ m # p.id => mesh'[e][m] = mesh[e][m]
    BY <1>2, <2>1, <2>2
  <2> QED
    BY <2>3, <2>4
<1>5. /\ at'[<<n, x>>] = IF target[p.id] = Broadcast THEN "select" ELSE "ack"
      /\ \A e \in Link : e # <<n, x>> => at'[e] = at[e]
  BY <1>1 DEF TypeOK
<1>6. \A u, v \in Node : <<u, v>> \in Link /\ <<u, v>> # <<n, x>> => Undisturbed(u, v)
  BY <1>1, <1>5 DEF Undisturbed, SameHead
<1>7. \A k \in Node, m \in Msg : Reached(k, m) => Reached(k, m)'
  BY <1>4 DEF Reached
<1>8. \A k \in Node, m \in Msg : Reached(k, m)' => Reached(k, m) \/ m \in seen'[k]
  BY <1>1, <1>3, <1>4 DEF Reached
<1>9. Reached(n, p.id)'
  BY <1>4 DEF Reached
<1>10. \A e \in Link, j \in Msg : Carries(e, j)' <=> Carries(e, j)
  BY <1>1 DEF Carries, Elements
<1>11. \A e \in Link : Elements(queue'[e]) = Elements(queue[e])
  BY <1>1
<1>12. \A k \in Node, m \in Msg : Knows(k, m)' <=> Knows(k, m)
  BY <1>1 DEF Knows
<1>13. ASSUME NEW u \in Node, NEW v \in Node, <<u, v>> \in Link, ~Undisturbed(u, v)
       PROVE  /\ at'[<<u, v>>] \in Busy \ {"mark"} => Current(u, v)' .id \in seen'[u]
              /\ \A m \in Msg : Delivering(u, v, m) => Reached(u, m)'
              /\ \A y \in Node, m \in Msg :
                    target[m] = Broadcast /\ WillForward(u, v, y, m) => WillForward(u, v, y, m)'
  <2>1. u = n /\ v = x
    BY <1>6, <1>13
  <2>2. ASSUME NEW m \in Msg, Delivering(n, x, m)
        PROVE  Reached(n, m)'
    BY <1>0, <1>9, <2>2 DEF Delivering
  <2>3. ASSUME NEW y \in Node, NEW m \in Msg, target[m] = Broadcast, WillForward(n, x, y, m)
        PROVE  WillForward(n, x, y, m)'
    BY <1>0, <1>1, <1>5, <2>3 DEF WillForward
  <2> QED
    BY <1>1, <1>3, <2>1, <2>2, <2>3
<1>14. /\ chan' = Link /\ demoted' = demoted /\ \A e \in Link : at'[e] # "off"
       /\ \A k \in Node : seen[k] \subseteq seen'[k]
       /\ \A m \in Msg : target'[m] # None => origin'[m] \in Node
  BY <1>1, <1>5 DEF CalmInv, SentInv
<1>15. CalmMove
  BY <1>1, <1>7, <1>8, <1>10, <1>11, <1>12, <1>13, <1>14 DEF CalmMove
<1> QED
  BY <1>15, CalmMoves

\* A demotion leaves less to cover.
LEMMA CalmDemote ==
  ASSUME CalmInv, NEW n \in Node, NEW x \in Node, Demote(n, x)
  PROVE  CalmInv'
<1>1. /\ UNCHANGED <<origin, target, sending, chan, queue, at, todo, seen, mesh>>
      /\ demoted \subseteq demoted'
  BY DEF Demote, messages, inbox
<1>2. \A k, y \in Node, m \in Msg :
         /\ Knows(k, m)' <=> Knows(k, m)
         /\ Reached(k, m)' <=> Reached(k, m)
         /\ Delivering(k, y, m)' <=> Delivering(k, y, m)
         /\ Covered(k, y, m)' <=> Covered(k, y, m)
  BY <1>1 DEF Knows, Reached, Delivering, Covered, Carries, WillForward, Current
<1>3. SentInv' /\ PathInv' /\ MarkedInv'
  BY <1>1 DEF CalmInv, SentInv, PathInv, PathKnown, MarkedInv, Current
<1>4. KnownInv' /\ CoverInv'
  BY <1>1, <1>2 DEF CalmInv, KnownInv, CoverInv
<1> QED
  BY <1>1, <1>3, <1>4 DEF CalmInv

-----------------------------------------------------------------------------
(* Reach of a broadcast.                                                   *)

\* The connections of a calm network were never down.
FloodInv == Inv /\ (WideEnough /\ Calm => CalmInv)

LEMMA FloodInitially == Init => FloodInv
<1> SUFFICES ASSUME Init PROVE FloodInv
  OBVIOUS
<1>1. Inv
  BY InvInitially
<1>2. \A e \in Link : Elements(queue[e]) = {}
  BY DEF Init, Elements
<1>3. chan = Link /\ \A e \in Link : at[e] = "idle"
  BY DEF Init
<1>4. \A m \in Msg : target[m] = None /\ \A n \in Node : m \notin seen[n]
  BY DEF Init
<1>5. \A n \in Node, m \in Msg : ~Reached(n, m)
  <2>1. \A e \in Link, m \in Msg : ~(mesh[e][m] > 0)
    BY DEF Init
  <2> QED
    BY <2>1 DEF Reached
<1>6. SentInv /\ PathInv /\ MarkedInv /\ KnownInv /\ CoverInv
  BY <1>2, <1>3, <1>4, <1>5, ValueAssumption
     DEF SentInv, PathInv, MarkedInv, KnownInv, CoverInv, Busy
<1> QED
  BY <1>1, <1>3, <1>6 DEF FloodInv, CalmInv

\* Connections that broke and entries that expired are counted for good.
LEMMA CalmBefore ==
  ASSUME TypeOK, [Next]_vars, Calm'
  PROVE  Calm
<1>1. breaks \in Nat
  BY ValueAssumption DEF TypeOK
<1>2. CASE Api
  BY <1>2 DEF Api, Originate, SendTo, Calm
<1>3. ASSUME NEW e \in Link, Handle(e[1], e[2])
      PROVE  Calm
  BY <1>3 DEF Handle, CheckSeen, MarkSeen, Deliver, Acknowledge, SelectPeers, ForwardTo, Show,
              TakeAck, Calm
<1>4. ASSUME NEW e \in Link, Failure(e[1], e[2])
      PROVE  Calm
  BY <1>1, <1>4 DEF Failure, WriterEnds, ReaderEnds, Reconnect, Demote, Calm
<1>5. CASE \E n \in Node, m \in Msg : WindowElapses(n, m)
  BY <1>5 DEF WindowElapses, Calm
<1>6. CASE UNCHANGED vars
  BY <1>6 DEF vars, Calm
<1> QED
  BY <1>2, <1>3, <1>4, <1>5, <1>6 DEF Next

LEMMA FloodStep == FloodInv /\ [Next]_vars => FloodInv'
<1> SUFFICES ASSUME FloodInv, [Next]_vars PROVE FloodInv'
  OBVIOUS
<1>1. Inv /\ Inv'
  BY InvStep DEF FloodInv
<1> SUFFICES ASSUME WideEnough, Calm' PROVE CalmInv'
  BY <1>1 DEF FloodInv, WideEnough, Neighbours
<1>2. Calm /\ CalmInv
  BY <1>1, CalmBefore DEF FloodInv, Inv
<1>3. CASE Api
  BY <1>1, <1>2, <1>3, CalmOriginate, CalmSendTo DEF Api
<1>4. CASE \E e \in Link : Handle(e[1], e[2]) \/ Failure(e[1], e[2])
  <2>1. PICK n \in Node, x \in Node : <<n, x>> \in Link /\ (Handle(n, x) \/ Failure(n, x))
    BY <1>4, LinkPairs
  <2>2. CASE Handle(n, x)
    BY <1>1, <1>2, <2>1, <2>2, CalmCheckSeen, CalmMarkSeen, CalmDeliver, CalmAcknowledge,
       CalmSelectPeers, CalmForwardTo, CalmShow, CalmTakeAck DEF Handle
  <2>3. ~(WriterEnds(n, x) \/ ReaderEnds(n, x) \/ Reconnect(n, x))
    <3>1. chan = Link /\ at[<<n, x>>] # "off" /\ at[<<x, n>>] # "off" /\ <<x, n>> \in Link
      BY <1>2, <2>1, LinkAssumption DEF CalmInv
    <3> QED
      BY <1>2, <3>1 DEF WriterEnds, ReaderEnds, Reconnect, HalfOpen, Calm
  <2>4. CASE Demote(n, x)
    BY <1>2, <2>4, CalmDemote
  <2> QED
    BY <2>1, <2>2, <2>3, <2>4 DEF Failure
<1>5. CASE \E n \in Node, m \in Msg : WindowElapses(n, m)
  BY <1>5 DEF WindowElapses, Calm
<1>6. CASE UNCHANGED vars
  <2> USE <1>6 DEF vars, messages, inbox
  <2>1. \A n \in Node, m \in Msg :
           /\ Knows(n, m)' <=> Knows(n, m)
           /\ Reached(n, m)' <=> Reached(n, m)
           /\ \A x \in Node : Delivering(n, x, m)' <=> Delivering(n, x, m)
           /\ \A y \in Node : Covered(n, y, m)' <=> Covered(n, y, m)
    BY DEF Knows, Reached, Delivering, Covered, Carries, WillForward, Current
  <2>2. SentInv' /\ PathInv' /\ MarkedInv'
    BY <1>2 DEF CalmInv, SentInv, PathInv, PathKnown, MarkedInv, Current
  <2>3. KnownInv' /\ CoverInv'
    BY <1>2, <2>1 DEF CalmInv, KnownInv, CoverInv
  <2> QED
    BY <1>2, <2>2, <2>3 DEF CalmInv
<1> QED
  BY <1>3, <1>4, <1>5, <1>6 DEF Next

\* Whoever has a message knows it, and once its flood ended the converse holds.
LEMMA EndedFlood ==
  ASSUME Inv, CalmInv, NEW m \in Msg, ~InFlight(m), NEW n \in Node
  PROVE  Has(n, m) <=> Knows(n, m)
<1>1. Has(n, m) <=> n = origin[m] \/ Reached(n, m)
  BY DEF Has, Neighbours, Reached
<1>2. \A x \in Node : ~Delivering(n, x, m)
  <2> SUFFICES ASSUME NEW x \in Node, Delivering(n, x, m) PROVE FALSE
    OBVIOUS
  <2>1. <<n, x>> \in Link /\ at[<<n, x>>] \in Busy /\ Current(n, x).id = m
    BY DEF Delivering, Busy
  <2>2. <<x, n>> \in Link /\ queue[<<x, n>>] # <<>>
    BY <2>1, AtWork DEF Inv
  <2>3. Current(n, x) \in Elements(queue[<<x, n>>])
    BY <2>2, HeadTyped DEF Inv, Current
  <2> QED
    BY <2>1, <2>2, <2>3 DEF InFlight, Elements
<1> QED
  BY <1>1, <1>2 DEF Knows, CalmInv, KnownInv

LEMMA EndedFloodReaches == FloodInv => NobodyMissed
<1> SUFFICES ASSUME FloodInv, WideEnough, Calm, NEW m \in Msg, target[m] = Broadcast,
                    ~InFlight(m), NEW e \in Link \ demoted, Has(e[1], m)
             PROVE  Has(e[2], m)
  BY DEF NobodyMissed
<1>1. PICK n \in Node, y \in Node : e = <<n, y>>
  BY LinkPairs
<1>2. Inv /\ CalmInv
  BY DEF FloodInv
<1>3. Knows(n, m)
  BY <1>1, <1>2, EndedFlood
<1>4. Covered(n, y, m)
  BY <1>1, <1>2, <1>3 DEF CalmInv, CoverInv
<1>5. ~Carries(<<n, y>>, m)
  BY <1>1 DEF Carries, Elements, InFlight
<1>6. \A x \in Node : ~WillForward(n, x, y, m)
  <2> SUFFICES ASSUME NEW x \in Node, WillForward(n, x, y, m) PROVE FALSE
    OBVIOUS
  <2>1. <<n, x>> \in Link /\ at[<<n, x>>] \in Busy /\ Current(n, x).id = m
    BY DEF WillForward, Busy
  <2>2. <<x, n>> \in Link /\ queue[<<x, n>>] # <<>>
    BY <1>2, <2>1, AtWork DEF Inv
  <2>3. Current(n, x) \in Elements(queue[<<x, n>>])
    BY <1>2, <2>2, HeadTyped DEF Inv, Current
  <2> QED
    BY <2>1, <2>2, <2>3 DEF InFlight, Elements
<1>7. Knows(y, m)
  BY <1>4, <1>5, <1>6 DEF Covered, InFlight
<1> QED
  BY <1>1, <1>2, <1>7, EndedFlood

\* A broadcast leaves no neighbour of a node it reached out, in any network that
\* is wide enough, while it stays up, but neighbours that node has demoted: at
\* every moment each other one knows the message, has a copy on its way, or is
\* still to be sent one.
THEOREM NobodyIsMissed == Spec => []NobodyMissed
<1> QED
  BY EndedFloodReaches, FloodInitially, FloodStep, PTL DEF Spec

LEMMA TargetsStay ==
  ASSUME TypeOK, [Next]_vars, NEW m \in Msg, origin[m] # None
  PROVE  target'[m] = target[m]
<1>1. CASE Api
  BY <1>1 DEF Api, Originate, SendTo, messages, TypeOK
<1>2. ASSUME NEW e \in Link, Handle(e[1], e[2])
      PROVE  target' = target
  BY <1>2 DEF Handle, CheckSeen, MarkSeen, Deliver, Acknowledge, SelectPeers, ForwardTo, Show,
              TakeAck, messages
<1>3. ASSUME NEW e \in Link, Failure(e[1], e[2])
      PROVE  target' = target
  BY <1>3 DEF Failure, WriterEnds, ReaderEnds, Reconnect, Demote, messages
<1>4. CASE \E n \in Node, k \in Msg : WindowElapses(n, k)
  BY <1>4 DEF WindowElapses, messages
<1>5. CASE UNCHANGED vars
  BY <1>5 DEF vars, messages
<1> QED
  BY <1>1, <1>2, <1>3, <1>4, <1>5 DEF Next

\* From every node there is a way to every other.
Connected ==
  \A S \in SUBSET Node :
     S # {} /\ (\A e \in Link : e[1] \in S => e[2] \in S) => S = Node

\* A broadcast reaches every node of a connected network that is wide enough, stays
\* up and demotes nobody: the part that takes time is that its flood ends.
THEOREM BroadcastsReachAll ==
  ASSUME WideEnough, Connected
  PROVE  Spec /\ FloodEnds => BroadcastReachesAll
<1> SUFFICES ASSUME NEW m \in Msg
             PROVE  Spec /\ FloodEnds =>
                      (target[m] = Broadcast ~>
                         ~Calm \/ demoted # {} \/ \A n \in Node : Has(n, m))
  BY DEF BroadcastReachesAll
<1>1. FloodEnds => (origin[m] # None ~> ~InFlight(m))
  BY DEF FloodEnds
<1>2. FloodInv /\ target[m] = Broadcast => origin[m] # None \/ ~Calm
  BY ValueAssumption DEF FloodInv, CalmInv, SentInv
<1>3. FloodInv /\ [Next]_vars /\ (target[m] = Broadcast \/ ~Calm)
         => (target[m] = Broadcast \/ ~Calm)'
  <2> SUFFICES ASSUME FloodInv, [Next]_vars, target[m] = Broadcast \/ ~Calm, Calm'
               PROVE  target'[m] = Broadcast
    OBVIOUS
  <2>1. Calm /\ Inv /\ CalmInv
    BY CalmBefore DEF FloodInv, Inv
  <2>2. origin[m] \in Node /\ target[m] = Broadcast
    BY <2>1, ValueAssumption DEF CalmInv, SentInv
  <2> QED
    BY <2>1, <2>2, TargetsStay, ValueAssumption DEF Inv
<1>4. FloodInv /\ (target[m] = Broadcast \/ ~Calm) /\ ~InFlight(m)
         => ~Calm \/ demoted # {} \/ \A n \in Node : Has(n, m)
  <2> SUFFICES ASSUME FloodInv, target[m] = Broadcast, Calm, demoted = {}, ~InFlight(m)
               PROVE  \A n \in Node : Has(n, m)
    OBVIOUS
  <2> DEFINE S == {n \in Node : Has(n, m)}
  <2>1. origin[m] \in Node /\ Has(origin[m], m)
    BY ValueAssumption DEF FloodInv, CalmInv, SentInv, Has
  <2>2. ASSUME NEW e \in Link, e[1] \in S
        PROVE  e[2] \in S
    BY <2>2, EndedFloodReaches, LinkPairs DEF NobodyMissed
  <2>3. S \in SUBSET Node /\ S # {}
    BY <2>1
  <2> HIDE DEF S
  <2>4. S = Node
    BY <2>2, <2>3 DEF Connected
  <2> QED
    BY <2>4 DEF S
<1> QED
  BY <1>1, <1>2, <1>3, <1>4, FloodInitially, FloodStep, PTL DEF Spec

=============================================================================
