----------------------- MODULE PeerConnectionProofs -------------------------
(***************************************************************************)
(* Theorems about PeerConnection, for every value of its constants.  Each  *)
(* inductive invariant has one lemma, with one step per action.            *)
(***************************************************************************)
EXTENDS PeerConnection, FiniteSetTheorems, TLAPS

-----------------------------------------------------------------------------
(* Types.  The upper bound of `permits` rests on the accounting of permits, *)
(* so the types come first without it.  An address is stored with every     *)
(* entry, and with every task that is not idle.                            *)

StateTyped ==
  /\ state    \in [Id -> EntryState \cup {"Absent"}]
  /\ addrOf   \in [Id -> Addr \cup {None}]
  /\ attempts \in [Id -> 0..MaxAttempts]
  /\ senders  \in [Peer -> Conn \cup {None}]
  /\ pc       \in [Conn -> TaskState]
  /\ writer   \in [Conn -> {"off", "running", "sending", "stopping"}]
  /\ who      \in [Conn -> Id \cup {None}]
  /\ via      \in [Conn -> Addr \cup {None}]
  /\ holders  \subseteq Conn
  /\ permits  \in Nat
  /\ cooling  \subseteq Addr
  /\ \A i \in Id : state[i] # "Absent" => addrOf[i] \in Addr
  /\ \A c \in Conn : pc[c] # "idle" => via[c] \in Addr

\* What a state update does to the table, whether or not the entry exists.
LEMMA UpdateStateEffect ==
  ASSUME StateTyped, NEW id, NEW s \in EntryState, UpdateState(id, s)
  PROVE  /\ state' \in [Id -> EntryState \cup {"Absent"}]
         /\ \A i \in Id : /\ state'[i] = "Absent" <=> state[i] = "Absent"
                          /\ i = id => state'[i] \in {"Absent", s}
                          /\ i # id => state'[i] = state[i]
  BY DEF UpdateState, StateTyped, EntryState

\* What returning from connect_to_peer or handle_incoming_connection does.
LEMMA ReturnEffect ==
  ASSUME StateTyped, NEW c \in Conn, Return(c)
  PROVE  /\ pc' = [pc EXCEPT ![c] = "idle"]
         /\ pc' \in [Conn -> TaskState]
         /\ holders' = holders \ {c}
         /\ permits' = IF c \in holders THEN permits + 1 ELSE permits
         /\ permits' \in Nat
         /\ who' \in [Conn -> Id \cup {None}]
         /\ via' \in [Conn -> Addr \cup {None}]
         /\ \A d \in Conn : d # c => /\ pc'[d] = pc[d]
                                     /\ who'[d] = who[d]
                                     /\ via'[d] = via[d]
         /\ writer[c] # "off" => who' = who /\ via' = via
  BY DEF Return, Goto, StateTyped, TaskState

LEMMA TypedInitially == Init => StateTyped
  BY IdAssumption, BoundAssumption
     DEF Init, StateTyped, EntryState, TaskState, Id, Addr

LEMMA TypedStep ==
  StateTyped /\ [Next]_vars => StateTyped'
<1> SUFFICES ASSUME StateTyped, [Next]_vars
             PROVE  StateTyped'
  OBVIOUS
<1>1. ASSUME NEW c \in Conn, NEW id \in Id,
             ConnectorSpawns(c, id)
      PROVE  StateTyped'
  BY <1>1, IdAssumption, BoundAssumption
     DEF ConnectorSpawns, BeginConnect, Free, Candidates, Entries, StateTyped, EntryState, TaskState, Id, Addr, table, task
<1>2. ASSUME NEW p \in Peer, NEW a \in ListenAddr,
             DiscoverPeer(p, a)
      PROVE  StateTyped'
  BY <1>2, IdAssumption, BoundAssumption
     DEF DiscoverPeer, BeginConnect, Free, StateTyped, EntryState, TaskState, Id, Addr, table, task
<1>3. ASSUME NEW a \in Addr,
             CooldownElapses(a)
      PROVE  StateTyped'
  BY <1>3, IdAssumption, BoundAssumption
     DEF CooldownElapses, StateTyped, EntryState, TaskState, Id, Addr, table, task
<1>4. ASSUME NEW c \in Conn, NEW a \in SourceAddr,
             AcceptIncoming(c, a)
      PROVE  StateTyped'
  BY <1>4, IdAssumption, BoundAssumption
     DEF AcceptIncoming, Upsert, Goto, Free, StateTyped, EntryState, TaskState, Id, Addr, table, task
<1>5. ASSUME NEW stale \in SUBSET (Entries \ {i \in Id : state[i] \in Busy}),
             RemoveStalePeers(stale)
      PROVE  StateTyped'
  BY <1>5, IdAssumption, BoundAssumption
     DEF RemoveStalePeers, Entries, StateTyped, EntryState, TaskState, Id, Addr, table, task
<1>6. ASSUME NEW c \in Conn,
             AcquirePermit(c)
      PROVE  StateTyped'
  BY <1>6, IdAssumption, BoundAssumption
     DEF AcquirePermit, Goto, StateTyped, EntryState, TaskState, Id, Addr, table, task
<1>7. ASSUME NEW c \in Conn,
             DoubleCheck(c)
      PROVE  StateTyped'
  BY <1>7, IdAssumption, BoundAssumption, ReturnEffect
     DEF DoubleCheck, Goto, StateTyped, EntryState, TaskState, Id, Addr, table, task
<1>8. ASSUME NEW c \in Conn,
             MarkConnecting(c)
      PROVE  StateTyped'
  <2>1. attempts' \in [Id -> 0..MaxAttempts]
    <3> DEFINE more(n) == IF state[who[c]] # "Absent" /\ n < MaxAttempts THEN n + 1 ELSE n
    <3>1. \A n \in 0..MaxAttempts : more(n) \in 0..MaxAttempts
      BY BoundAssumption
    <3>2. attempts' = [attempts EXCEPT ![who[c]] = more(@)]
      BY <1>8 DEF MarkConnecting
    <3> HIDE DEF more
    <3>3. QED
      BY <3>1, <3>2 DEF StateTyped
  <2>2. /\ state' \in [Id -> EntryState \cup {"Absent"}]
        /\ \A i \in Id : state'[i] = "Absent" <=> state[i] = "Absent"
    BY <1>8, UpdateStateEffect DEF MarkConnecting, EntryState
  <2>3. QED
    BY <1>8, <2>1, <2>2 DEF MarkConnecting, Goto, StateTyped, TaskState
<1>9. ASSUME NEW c \in Conn,
             DialFails(c)
      PROVE  StateTyped'
  BY <1>9, IdAssumption, BoundAssumption, ReturnEffect, UpdateStateEffect
     DEF DialFails, StateTyped, EntryState, TaskState, Id, Addr, table, task
<1>10. ASSUME NEW c \in Conn,
             DialSucceeds(c)
      PROVE  StateTyped'
  BY <1>10, IdAssumption, BoundAssumption, UpdateStateEffect
     DEF DialSucceeds, Goto, StateTyped, EntryState, TaskState, Id, Addr, table, task
<1>11. ASSUME NEW c \in Conn,
             HandshakeFails(c)
      PROVE  StateTyped'
  BY <1>11, IdAssumption, BoundAssumption, ReturnEffect, UpdateStateEffect
     DEF HandshakeFails, StateTyped, EntryState, TaskState, Id, Addr, table, task
<1>12. ASSUME NEW c \in Conn, NEW p \in Peer,
             HandshakeSucceeds(c, p)
      PROVE  StateTyped'
  BY <1>12, IdAssumption, BoundAssumption
     DEF HandshakeSucceeds, Goto, Upsert, StateTyped, EntryState, TaskState, Id, Addr, table, task
<1>13. ASSUME NEW c \in Conn,
             OpenChannel(c)
      PROVE  StateTyped'
  BY <1>13, IdAssumption, BoundAssumption
     DEF OpenChannel, Goto, StateTyped, EntryState, TaskState, Id, Addr, table, task
<1>14. ASSUME NEW c \in Conn,
             ReaderBreaks(c)
      PROVE  StateTyped'
  BY <1>14, IdAssumption, BoundAssumption
     DEF ReaderBreaks, Goto, StateTyped, EntryState, TaskState, Id, Addr, table, task
<1>15. ASSUME NEW c \in Conn,
             ReaderFails(c)
      PROVE  StateTyped'
  BY <1>15, IdAssumption, BoundAssumption
     DEF ReaderFails, Goto, StateTyped, EntryState, TaskState, Id, Addr, table, task
<1>16. ASSUME NEW c \in Conn,
             CloseChannel(c)
      PROVE  StateTyped'
  BY <1>16, IdAssumption, BoundAssumption
     DEF CloseChannel, Goto, StateTyped, EntryState, TaskState, Id, Addr, table, task
<1>17. ASSUME NEW c \in Conn,
             AfterConnection(c)
      PROVE  StateTyped'
  BY <1>17, IdAssumption, BoundAssumption, ReturnEffect
     DEF AfterConnection, Goto, StateTyped, EntryState, TaskState, Id, Addr, table, task
<1>18. ASSUME NEW c \in Conn,
             MarkDisconnected(c)
      PROVE  StateTyped'
  BY <1>18, IdAssumption, BoundAssumption, ReturnEffect, UpdateStateEffect
     DEF MarkDisconnected, StateTyped, EntryState, TaskState, Id, Addr, table, task
<1>19. ASSUME NEW c \in Conn,
             WriterTakes(c) \/ WriterSends(c) \/ WriterSendFails(c)
      PROVE  StateTyped'
  BY <1>19, IdAssumption, BoundAssumption
     DEF WriterTakes, WriterSends, WriterSendFails, StateTyped, EntryState, TaskState, Id, Addr, table, task
<1>20. ASSUME NEW c \in Conn,
             WriterFindsChannelClosed(c)
      PROVE  StateTyped'
  BY <1>20, IdAssumption, BoundAssumption
     DEF WriterFindsChannelClosed, StateTyped, EntryState, TaskState, Id, Addr, table, task
<1>21. ASSUME NEW c \in Conn,
             WriterCleanup(c)
      PROVE  StateTyped'
  BY <1>21, IdAssumption, BoundAssumption, UpdateStateEffect
     DEF WriterCleanup, StateTyped, EntryState, TaskState, Id, Addr, table, task
<1>22. CASE UNCHANGED vars
  BY <1>22 DEF vars, table, task, StateTyped, EntryState, TaskState, Id, Addr
<1>23. QED
  BY <1>1, <1>2, <1>3, <1>4, <1>5, <1>6, <1>7, <1>8,
     <1>9, <1>10, <1>11, <1>12, <1>13, <1>14, <1>15, <1>16,
     <1>17, <1>18, <1>19, <1>20, <1>21, <1>22
     DEF Next, Environment, Connection, Writer

-----------------------------------------------------------------------------
(* Permits.                                                                *)

\* A task that is looking, marking or dialling holds a permit; one that is
\* idle or waits for a permit holds none.
PermitShape ==
  \A c \in Conn :
     /\ c \in holders => pc[c] \notin {"idle", "permit"}
     /\ pc[c] \in {"check", "mark", "dial"} => c \in holders

LEMMA PermitShapeStep ==
  StateTyped /\ PermitShape /\ [Next]_vars => PermitShape'
<1> SUFFICES ASSUME StateTyped, PermitShape, [Next]_vars
             PROVE  PermitShape'
  OBVIOUS
<1>1. ASSUME NEW c \in Conn, NEW id \in Id,
             ConnectorSpawns(c, id)
      PROVE  PermitShape'
  BY <1>1
     DEF ConnectorSpawns, BeginConnect, Free, Candidates, Entries, PermitShape, StateTyped, TaskState, EntryState, table, task
<1>2. ASSUME NEW p \in Peer, NEW a \in ListenAddr,
             DiscoverPeer(p, a)
      PROVE  PermitShape'
  BY <1>2
     DEF DiscoverPeer, BeginConnect, Free, PermitShape, StateTyped, TaskState, EntryState, table, task
<1>3. ASSUME NEW a \in Addr,
             CooldownElapses(a)
      PROVE  PermitShape'
  BY <1>3
     DEF CooldownElapses, PermitShape, StateTyped, TaskState, EntryState, table, task
<1>4. ASSUME NEW c \in Conn, NEW a \in SourceAddr,
             AcceptIncoming(c, a)
      PROVE  PermitShape'
  BY <1>4
     DEF AcceptIncoming, Upsert, Goto, Free, PermitShape, StateTyped, TaskState, EntryState, table, task
<1>5. ASSUME NEW stale \in SUBSET (Entries \ {i \in Id : state[i] \in Busy}),
             RemoveStalePeers(stale)
      PROVE  PermitShape'
  BY <1>5
     DEF RemoveStalePeers, Entries, PermitShape, StateTyped, TaskState, EntryState, table, task
<1>6. ASSUME NEW c \in Conn,
             AcquirePermit(c)
      PROVE  PermitShape'
  BY <1>6
     DEF AcquirePermit, Goto, PermitShape, StateTyped, TaskState, EntryState, table, task
<1>7. ASSUME NEW c \in Conn,
             DoubleCheck(c)
      PROVE  PermitShape'
  BY <1>7, ReturnEffect
     DEF DoubleCheck, Goto, PermitShape, StateTyped, TaskState, EntryState, table, task
<1>8. ASSUME NEW c \in Conn,
             MarkConnecting(c)
      PROVE  PermitShape'
  BY <1>8, UpdateStateEffect
     DEF MarkConnecting, Goto, PermitShape, StateTyped, TaskState, EntryState, table, task
<1>9. ASSUME NEW c \in Conn,
             DialFails(c)
      PROVE  PermitShape'
  BY <1>9, ReturnEffect, UpdateStateEffect
     DEF DialFails, PermitShape, StateTyped, TaskState, EntryState, table, task
<1>10. ASSUME NEW c \in Conn,
             DialSucceeds(c)
      PROVE  PermitShape'
  BY <1>10, UpdateStateEffect
     DEF DialSucceeds, Goto, PermitShape, StateTyped, TaskState, EntryState, table, task
<1>11. ASSUME NEW c \in Conn,
             HandshakeFails(c)
      PROVE  PermitShape'
  BY <1>11, ReturnEffect, UpdateStateEffect
     DEF HandshakeFails, PermitShape, StateTyped, TaskState, EntryState, table, task
<1>12. ASSUME NEW c \in Conn, NEW p \in Peer,
             HandshakeSucceeds(c, p)
      PROVE  PermitShape'
  BY <1>12
     DEF HandshakeSucceeds, Goto, Upsert, PermitShape, StateTyped, TaskState, EntryState, table, task
<1>13. ASSUME NEW c \in Conn,
             OpenChannel(c)
      PROVE  PermitShape'
  BY <1>13
     DEF OpenChannel, Goto, PermitShape, StateTyped, TaskState, EntryState, table, task
<1>14. ASSUME NEW c \in Conn,
             ReaderBreaks(c)
      PROVE  PermitShape'
  BY <1>14
     DEF ReaderBreaks, Goto, PermitShape, StateTyped, TaskState, EntryState, table, task
<1>15. ASSUME NEW c \in Conn,
             ReaderFails(c)
      PROVE  PermitShape'
  BY <1>15
     DEF ReaderFails, Goto, PermitShape, StateTyped, TaskState, EntryState, table, task
<1>16. ASSUME NEW c \in Conn,
             CloseChannel(c)
      PROVE  PermitShape'
  BY <1>16
     DEF CloseChannel, Goto, PermitShape, StateTyped, TaskState, EntryState, table, task
<1>17. ASSUME NEW c \in Conn,
             AfterConnection(c)
      PROVE  PermitShape'
  BY <1>17, ReturnEffect
     DEF AfterConnection, Goto, PermitShape, StateTyped, TaskState, EntryState, table, task
<1>18. ASSUME NEW c \in Conn,
             MarkDisconnected(c)
      PROVE  PermitShape'
  BY <1>18, ReturnEffect, UpdateStateEffect
     DEF MarkDisconnected, PermitShape, StateTyped, TaskState, EntryState, table, task
<1>19. ASSUME NEW c \in Conn,
             WriterTakes(c) \/ WriterSends(c) \/ WriterSendFails(c)
      PROVE  PermitShape'
  BY <1>19
     DEF WriterTakes, WriterSends, WriterSendFails, PermitShape, StateTyped, TaskState, EntryState, table, task
<1>20. ASSUME NEW c \in Conn,
             WriterFindsChannelClosed(c)
      PROVE  PermitShape'
  BY <1>20
     DEF WriterFindsChannelClosed, PermitShape, StateTyped, TaskState, EntryState, table, task
<1>21. ASSUME NEW c \in Conn,
             WriterCleanup(c)
      PROVE  PermitShape'
  BY <1>21, UpdateStateEffect
     DEF WriterCleanup, PermitShape, StateTyped, TaskState, EntryState, table, task
<1>22. CASE UNCHANGED vars
  BY <1>22 DEF vars, table, task, PermitShape, StateTyped, TaskState, EntryState
<1>23. QED
  BY <1>1, <1>2, <1>3, <1>4, <1>5, <1>6, <1>7, <1>8,
     <1>9, <1>10, <1>11, <1>12, <1>13, <1>14, <1>15, <1>16,
     <1>17, <1>18, <1>19, <1>20, <1>21, <1>22
     DEF Next, Environment, Connection, Writer

\* The slots that hold a permit are finitely many, and adding or removing one
\* changes their number by one.
LEMMA HolderCount ==
  ASSUME StateTyped
  PROVE  /\ IsFiniteSet(holders)
         /\ Cardinality(holders) \in Nat
         /\ \A c \in Conn \ holders :
               Cardinality(holders \cup {c}) = Cardinality(holders) + 1
         /\ \A c \in holders :
               Cardinality(holders \ {c}) = Cardinality(holders) - 1
<1>1. IsFiniteSet(holders)
  BY FS_Subset, BoundAssumption DEF StateTyped
<1>2. QED
  BY <1>1, FS_CardinalityType, FS_AddElement, FS_RemoveElement

\* Returning gives back the permit exactly when one was held.
LEMMA ReturnConserves ==
  ASSUME StateTyped, PermitsConserved, NEW c \in Conn, Return(c)
  PROVE  PermitsConserved'
<1>1. /\ holders' = holders \ {c}
      /\ permits' = IF c \in holders THEN permits + 1 ELSE permits
  BY ReturnEffect
<1>2. CASE c \in holders
  BY <1>1, <1>2, HolderCount, BoundAssumption DEF PermitsConserved, StateTyped
<1>3. CASE c \notin holders
  <2>1. holders' = holders
    BY <1>1, <1>3
  <2>2. QED
    BY <1>1, <1>3, <2>1 DEF PermitsConserved
<1>4. QED
  BY <1>2, <1>3

LEMMA PermitsConservedStep ==
  StateTyped /\ PermitShape /\ PermitsConserved /\ [Next]_vars => PermitsConserved'
<1> SUFFICES ASSUME StateTyped, PermitShape, PermitsConserved, [Next]_vars
             PROVE  PermitsConserved'
  OBVIOUS
<1>1. ASSUME NEW c \in Conn, NEW id \in Id,
             ConnectorSpawns(c, id)
      PROVE  PermitsConserved'
  BY <1>1 DEF ConnectorSpawns, BeginConnect, PermitsConserved, task
<1>2. ASSUME NEW p \in Peer, NEW a \in ListenAddr,
             DiscoverPeer(p, a)
      PROVE  PermitsConserved'
  BY <1>2 DEF DiscoverPeer, BeginConnect, PermitsConserved, task
<1>3. ASSUME NEW a \in Addr,
             CooldownElapses(a)
      PROVE  PermitsConserved'
  BY <1>3 DEF CooldownElapses, PermitsConserved, task
<1>4. ASSUME NEW c \in Conn, NEW a \in SourceAddr,
             AcceptIncoming(c, a)
      PROVE  PermitsConserved'
  BY <1>4 DEF AcceptIncoming, PermitsConserved, task
<1>5. ASSUME NEW stale \in SUBSET (Entries \ {i \in Id : state[i] \in Busy}),
             RemoveStalePeers(stale)
      PROVE  PermitsConserved'
  BY <1>5 DEF RemoveStalePeers, PermitsConserved, task
<1>6. ASSUME NEW c \in Conn,
             AcquirePermit(c)
      PROVE  PermitsConserved'
  <2>1. c \notin holders
    BY <1>6 DEF AcquirePermit, PermitShape
  <2>2. holders' = holders \cup {c} /\ permits' = permits - 1
    BY <1>6 DEF AcquirePermit
  <2>3. QED
    BY <2>1, <2>2, HolderCount, BoundAssumption DEF PermitsConserved, StateTyped
<1>7. ASSUME NEW c \in Conn,
             DoubleCheck(c)
      PROVE  PermitsConserved'
  BY <1>7, ReturnConserves DEF DoubleCheck, PermitsConserved
<1>8. ASSUME NEW c \in Conn,
             MarkConnecting(c)
      PROVE  PermitsConserved'
  BY <1>8 DEF MarkConnecting, PermitsConserved, task
<1>9. ASSUME NEW c \in Conn,
             DialFails(c)
      PROVE  PermitsConserved'
  BY <1>9, ReturnConserves DEF DialFails
<1>10. ASSUME NEW c \in Conn,
             DialSucceeds(c)
      PROVE  PermitsConserved'
  BY <1>10 DEF DialSucceeds, PermitsConserved, task
<1>11. ASSUME NEW c \in Conn,
             HandshakeFails(c)
      PROVE  PermitsConserved'
  BY <1>11, ReturnConserves DEF HandshakeFails
<1>12. ASSUME NEW c \in Conn, NEW p \in Peer,
             HandshakeSucceeds(c, p)
      PROVE  PermitsConserved'
  BY <1>12 DEF HandshakeSucceeds, PermitsConserved, task
<1>13. ASSUME NEW c \in Conn,
             OpenChannel(c)
      PROVE  PermitsConserved'
  BY <1>13 DEF OpenChannel, PermitsConserved, task
<1>14. ASSUME NEW c \in Conn,
             ReaderBreaks(c)
      PROVE  PermitsConserved'
  BY <1>14 DEF ReaderBreaks, PermitsConserved, task
<1>15. ASSUME NEW c \in Conn,
             ReaderFails(c)
      PROVE  PermitsConserved'
  BY <1>15 DEF ReaderFails, PermitsConserved, task
<1>16. ASSUME NEW c \in Conn,
             CloseChannel(c)
      PROVE  PermitsConserved'
  BY <1>16 DEF CloseChannel, PermitsConserved, task
<1>17. ASSUME NEW c \in Conn,
             AfterConnection(c)
      PROVE  PermitsConserved'
  BY <1>17, ReturnConserves DEF AfterConnection, PermitsConserved
<1>18. ASSUME NEW c \in Conn,
             MarkDisconnected(c)
      PROVE  PermitsConserved'
  BY <1>18, ReturnConserves DEF MarkDisconnected
<1>19. ASSUME NEW c \in Conn,
             WriterTakes(c) \/ WriterSends(c) \/ WriterSendFails(c)
      PROVE  PermitsConserved'
  BY <1>19 DEF WriterTakes, WriterSends, WriterSendFails, PermitsConserved, task
<1>20. ASSUME NEW c \in Conn,
             WriterFindsChannelClosed(c)
      PROVE  PermitsConserved'
  BY <1>20 DEF WriterFindsChannelClosed, PermitsConserved, task
<1>21. ASSUME NEW c \in Conn,
             WriterCleanup(c)
      PROVE  PermitsConserved'
  BY <1>21 DEF WriterCleanup, PermitsConserved, task
<1>22. CASE UNCHANGED vars
  BY <1>22 DEF vars, table, task, PermitsConserved
<1>23. QED
  BY <1>1, <1>2, <1>3, <1>4, <1>5, <1>6, <1>7, <1>8,
     <1>9, <1>10, <1>11, <1>12, <1>13, <1>14, <1>15, <1>16,
     <1>17, <1>18, <1>19, <1>20, <1>21, <1>22
     DEF Next, Environment, Connection, Writer

Accounting == StateTyped /\ PermitShape /\ PermitsConserved

LEMMA AccountingInvariant == Spec => []Accounting
<1>1. Init => Accounting
  <2>1. ASSUME Init PROVE PermitsConserved
    BY <2>1, FS_EmptySet, BoundAssumption DEF Init, PermitsConserved
  <2>2. QED
    BY <2>1, TypedInitially DEF Init, Accounting, PermitShape
<1>2. Accounting /\ [Next]_vars => Accounting'
  BY TypedStep, PermitShapeStep, PermitsConservedStep DEF Accounting
<1>3. QED
  BY <1>1, <1>2, PTL DEF Spec

\* The variables stay within their types: no counter runs away, and no more
\* permits are available than the semaphore was created with.
THEOREM TypeCorrect == Spec => []TypeOK
<1>1. Accounting => TypeOK
  BY HolderCount, BoundAssumption DEF Accounting, StateTyped, PermitsConserved, TypeOK
<1>2. QED
  BY <1>1, AccountingInvariant, PTL

\* Permits are neither leaked nor returned twice, on any path through
\* connect_to_peer.
THEOREM PermitsAreConserved == Spec => []PermitsConserved
<1>1. Accounting => PermitsConserved
  BY DEF Accounting
<1>2. QED
  BY <1>1, AccountingInvariant, PTL

\* At most max_connect_in_flight dials are in progress at any time.
THEOREM DialsAreBounded == Spec => []DialsBounded
<1>1. ASSUME Accounting PROVE DialsBounded
  <2>1. Dialling \subseteq holders
    BY <1>1 DEF Accounting, PermitShape, Dialling
  <2>2. IsFiniteSet(holders) /\ Cardinality(holders) \in Nat
    BY <1>1, HolderCount DEF Accounting
  <2>3. /\ Cardinality(Dialling) <= Cardinality(holders)
        /\ Cardinality(Dialling) \in Nat
    BY <2>1, <2>2, FS_Subset, FS_CardinalityType
  <2>4. QED
    BY <1>1, <2>2, <2>3, BoundAssumption
       DEF Accounting, StateTyped, PermitsConserved, DialsBounded
<1>2. QED
  BY <1>1, AccountingInvariant, PTL

-----------------------------------------------------------------------------
(* Channels.                                                               *)

\* A writer exists only once the connection is established, and then may
\* outlive the task that spawned it.
WriterShape ==
  \A c \in Conn :
     writer[c] # "off" =>
        pc[c] \in {"reading", "closing", "returned", "settle", "idle"}

Channels == WriterShape /\ ChannelHasWriter

LEMMA ChannelsStep ==
  StateTyped /\ Channels /\ [Next]_vars => Channels'
<1> SUFFICES ASSUME StateTyped, Channels, [Next]_vars
             PROVE  Channels'
  OBVIOUS
<1>1. ASSUME NEW c \in Conn, NEW id \in Id,
             ConnectorSpawns(c, id)
      PROVE  Channels'
  BY <1>1, IdAssumption
     DEF ConnectorSpawns, BeginConnect, Free, Candidates, Entries, Channels, WriterShape, ChannelHasWriter, StateTyped, TaskState, EntryState, table, task
<1>2. ASSUME NEW p \in Peer, NEW a \in ListenAddr,
             DiscoverPeer(p, a)
      PROVE  Channels'
  BY <1>2, IdAssumption
     DEF DiscoverPeer, BeginConnect, Free, Channels, WriterShape, ChannelHasWriter, StateTyped, TaskState, EntryState, table, task
<1>3. ASSUME NEW a \in Addr,
             CooldownElapses(a)
      PROVE  Channels'
  BY <1>3, IdAssumption
     DEF CooldownElapses, Channels, WriterShape, ChannelHasWriter, StateTyped, TaskState, EntryState, table, task
<1>4. ASSUME NEW c \in Conn, NEW a \in SourceAddr,
             AcceptIncoming(c, a)
      PROVE  Channels'
  BY <1>4, IdAssumption
     DEF AcceptIncoming, Upsert, Goto, Free, Channels, WriterShape, ChannelHasWriter, StateTyped, TaskState, EntryState, table, task
<1>5. ASSUME NEW stale \in SUBSET (Entries \ {i \in Id : state[i] \in Busy}),
             RemoveStalePeers(stale)
      PROVE  Channels'
  BY <1>5, IdAssumption
     DEF RemoveStalePeers, Entries, Channels, WriterShape, ChannelHasWriter, StateTyped, TaskState, EntryState, table, task
<1>6. ASSUME NEW c \in Conn,
             AcquirePermit(c)
      PROVE  Channels'
  BY <1>6, IdAssumption
     DEF AcquirePermit, Goto, Channels, WriterShape, ChannelHasWriter, StateTyped, TaskState, EntryState, table, task
<1>7. ASSUME NEW c \in Conn,
             DoubleCheck(c)
      PROVE  Channels'
  BY <1>7, IdAssumption, ReturnEffect
     DEF DoubleCheck, Goto, Channels, WriterShape, ChannelHasWriter, StateTyped, TaskState, EntryState, table, task
<1>8. ASSUME NEW c \in Conn,
             MarkConnecting(c)
      PROVE  Channels'
  BY <1>8, IdAssumption, UpdateStateEffect
     DEF MarkConnecting, Goto, Channels, WriterShape, ChannelHasWriter, StateTyped, TaskState, EntryState, table, task
<1>9. ASSUME NEW c \in Conn,
             DialFails(c)
      PROVE  Channels'
  BY <1>9, IdAssumption, ReturnEffect, UpdateStateEffect
     DEF DialFails, Channels, WriterShape, ChannelHasWriter, StateTyped, TaskState, EntryState, table, task
<1>10. ASSUME NEW c \in Conn,
             DialSucceeds(c)
      PROVE  Channels'
  BY <1>10, IdAssumption, UpdateStateEffect
     DEF DialSucceeds, Goto, Channels, WriterShape, ChannelHasWriter, StateTyped, TaskState, EntryState, table, task
<1>11. ASSUME NEW c \in Conn,
             HandshakeFails(c)
      PROVE  Channels'
  BY <1>11, IdAssumption, ReturnEffect, UpdateStateEffect
     DEF HandshakeFails, Channels, WriterShape, ChannelHasWriter, StateTyped, TaskState, EntryState, table, task
<1>12. ASSUME NEW c \in Conn, NEW p \in Peer,
             HandshakeSucceeds(c, p)
      PROVE  Channels'
  BY <1>12, IdAssumption
     DEF HandshakeSucceeds, Goto, Upsert, Channels, WriterShape, ChannelHasWriter, StateTyped, TaskState, EntryState, table, task
<1>13. ASSUME NEW c \in Conn,
             OpenChannel(c)
      PROVE  Channels'
  BY <1>13, IdAssumption
     DEF OpenChannel, Goto, Channels, WriterShape, ChannelHasWriter, StateTyped, TaskState, EntryState, table, task
<1>14. ASSUME NEW c \in Conn,
             ReaderBreaks(c)
      PROVE  Channels'
  BY <1>14, IdAssumption
     DEF ReaderBreaks, Goto, Channels, WriterShape, ChannelHasWriter, StateTyped, TaskState, EntryState, table, task
<1>15. ASSUME NEW c \in Conn,
             ReaderFails(c)
      PROVE  Channels'
  BY <1>15, IdAssumption
     DEF ReaderFails, Goto, Channels, WriterShape, ChannelHasWriter, StateTyped, TaskState, EntryState, table, task
<1>16. ASSUME NEW c \in Conn,
             CloseChannel(c)
      PROVE  Channels'
  BY <1>16, IdAssumption
     DEF CloseChannel, Goto, Channels, WriterShape, ChannelHasWriter, StateTyped, TaskState, EntryState, table, task
<1>17. ASSUME NEW c \in Conn,
             AfterConnection(c)
      PROVE  Channels'
  BY <1>17, IdAssumption, ReturnEffect
     DEF AfterConnection, Goto, Channels, WriterShape, ChannelHasWriter, StateTyped, TaskState, EntryState, table, task
<1>18. ASSUME NEW c \in Conn,
             MarkDisconnected(c)
      PROVE  Channels'
  BY <1>18, IdAssumption, ReturnEffect, UpdateStateEffect
     DEF MarkDisconnected, Channels, WriterShape, ChannelHasWriter, StateTyped, TaskState, EntryState, table, task
<1>19. ASSUME NEW c \in Conn,
             WriterTakes(c) \/ WriterSends(c) \/ WriterSendFails(c)
      PROVE  Channels'
  BY <1>19, IdAssumption
     DEF WriterTakes, WriterSends, WriterSendFails, Channels, WriterShape, ChannelHasWriter, StateTyped, TaskState, EntryState, table, task
<1>20. ASSUME NEW c \in Conn,
             WriterFindsChannelClosed(c)
      PROVE  Channels'
  BY <1>20, IdAssumption
     DEF WriterFindsChannelClosed, Channels, WriterShape, ChannelHasWriter, StateTyped, TaskState, EntryState, table, task
<1>21. ASSUME NEW c \in Conn,
             WriterCleanup(c)
      PROVE  Channels'
  BY <1>21, IdAssumption, UpdateStateEffect
     DEF WriterCleanup, Channels, WriterShape, ChannelHasWriter, StateTyped, TaskState, EntryState, table, task
<1>22. CASE UNCHANGED vars
  BY <1>22 DEF vars, table, task, Channels, WriterShape, ChannelHasWriter, StateTyped, TaskState, EntryState
<1>23. QED
  BY <1>1, <1>2, <1>3, <1>4, <1>5, <1>6, <1>7, <1>8,
     <1>9, <1>10, <1>11, <1>12, <1>13, <1>14, <1>15, <1>16,
     <1>17, <1>18, <1>19, <1>20, <1>21, <1>22
     DEF Next, Environment, Connection, Writer

\* Every registered channel leads to a connection with its own peer and to a
\* writer that has not ended, however connections replace one another.
THEOREM ChannelsHaveWriters == Spec => []ChannelHasWriter
<1>1. Init => Channels
  BY DEF Init, Channels, WriterShape, ChannelHasWriter
<1>2. Accounting /\ Channels /\ [Next]_vars => Channels'
  BY ChannelsStep DEF Accounting
<1>3. Channels => ChannelHasWriter
  BY DEF Channels
<1>4. QED
  BY <1>1, <1>2, <1>3, AccountingInvariant, PTL DEF Spec

-----------------------------------------------------------------------------
(* Connecting entries.                                                     *)

LEMMA ConnectingStep ==
  StateTyped /\ Channels /\ ConnectingIsLive /\ [Next]_vars => ConnectingIsLive'
<1> SUFFICES ASSUME StateTyped, Channels, ConnectingIsLive, [Next]_vars
             PROVE  ConnectingIsLive'
  OBVIOUS
<1>1. ASSUME NEW c \in Conn, NEW id \in Id,
             ConnectorSpawns(c, id)
      PROVE  ConnectingIsLive'
  BY <1>1
     DEF ConnectorSpawns, BeginConnect, Free, Candidates, Entries, ConnectingIsLive, Channels, WriterShape, StateTyped, EntryState, TaskState, table, task
<1>2. ASSUME NEW p \in Peer, NEW a \in ListenAddr,
             DiscoverPeer(p, a)
      PROVE  ConnectingIsLive'
  BY <1>2
     DEF DiscoverPeer, BeginConnect, Free, ConnectingIsLive, Channels, WriterShape, StateTyped, EntryState, TaskState, table, task
<1>3. ASSUME NEW a \in Addr,
             CooldownElapses(a)
      PROVE  ConnectingIsLive'
  BY <1>3
     DEF CooldownElapses, ConnectingIsLive, Channels, WriterShape, StateTyped, EntryState, TaskState, table, task
<1>4. ASSUME NEW c \in Conn, NEW a \in SourceAddr,
             AcceptIncoming(c, a)
      PROVE  ConnectingIsLive'
  BY <1>4
     DEF AcceptIncoming, Upsert, Goto, Free, ConnectingIsLive, Channels, WriterShape, StateTyped, EntryState, TaskState, table, task
<1>5. ASSUME NEW stale \in SUBSET (Entries \ {i \in Id : state[i] \in Busy}),
             RemoveStalePeers(stale)
      PROVE  ConnectingIsLive'
  BY <1>5
     DEF RemoveStalePeers, Entries, ConnectingIsLive, Channels, WriterShape, StateTyped, EntryState, TaskState, table, task
<1>6. ASSUME NEW c \in Conn,
             AcquirePermit(c)
      PROVE  ConnectingIsLive'
  BY <1>6
     DEF AcquirePermit, Goto, ConnectingIsLive, Channels, WriterShape, StateTyped, EntryState, TaskState, table, task
<1>7. ASSUME NEW c \in Conn,
             DoubleCheck(c)
      PROVE  ConnectingIsLive'
  BY <1>7, ReturnEffect
     DEF DoubleCheck, Goto, ConnectingIsLive, Channels, WriterShape, StateTyped, EntryState, TaskState, table, task
<1>8. ASSUME NEW c \in Conn,
             MarkConnecting(c)
      PROVE  ConnectingIsLive'
  <2> SUFFICES ASSUME NEW i \in Id, state'[i] = "Connecting"
               PROVE  \E d \in Conn : pc'[d] = "dial" /\ who'[d] = i
    BY DEF ConnectingIsLive
  <2>1. CASE i = who[c]
    BY <1>8, <2>1 DEF MarkConnecting, Goto, StateTyped
  <2>2. CASE i # who[c]
    <3>1. state[i] = "Connecting"
      BY <1>8, <2>2, UpdateStateEffect DEF MarkConnecting, EntryState
    <3>2. PICK d \in Conn : pc[d] = "dial" /\ who[d] = i
      BY <3>1 DEF ConnectingIsLive
    <3>3. QED
      BY <1>8, <3>2 DEF MarkConnecting, Goto, StateTyped
  <2>3. QED
    BY <2>1, <2>2
<1>9. ASSUME NEW c \in Conn,
             DialFails(c)
      PROVE  ConnectingIsLive'
  <2> SUFFICES ASSUME NEW i \in Id, state'[i] = "Connecting"
               PROVE  \E d \in Conn : pc'[d] = "dial" /\ who'[d] = i
    BY DEF ConnectingIsLive
  <2>1. i # who[c] /\ state[i] = "Connecting"
    BY <1>9, UpdateStateEffect DEF DialFails, EntryState
  <2>2. PICK d \in Conn : pc[d] = "dial" /\ who[d] = i
    BY <2>1 DEF ConnectingIsLive
  <2>3. d # c
    BY <1>9, <2>1, <2>2
  <2>4. QED
    BY <1>9, <2>2, <2>3, ReturnEffect DEF DialFails, Goto, StateTyped
<1>10. ASSUME NEW c \in Conn,
             DialSucceeds(c)
      PROVE  ConnectingIsLive'
  <2> SUFFICES ASSUME NEW i \in Id, state'[i] = "Connecting"
               PROVE  \E d \in Conn : pc'[d] = "dial" /\ who'[d] = i
    BY DEF ConnectingIsLive
  <2>1. i # who[c] /\ state[i] = "Connecting"
    BY <1>10, UpdateStateEffect DEF DialSucceeds, EntryState
  <2>2. PICK d \in Conn : pc[d] = "dial" /\ who[d] = i
    BY <2>1 DEF ConnectingIsLive
  <2>3. d # c
    BY <1>10, <2>1, <2>2
  <2>4. QED
    BY <1>10, <2>2, <2>3 DEF DialSucceeds, Goto, StateTyped
<1>11. ASSUME NEW c \in Conn,
             HandshakeFails(c)
      PROVE  ConnectingIsLive'
  <2> SUFFICES ASSUME NEW i \in Id, state'[i] = "Connecting"
               PROVE  \E d \in Conn : pc'[d] = "dial" /\ who'[d] = i
    BY DEF ConnectingIsLive
  <2>1. i # who[c] /\ state[i] = "Connecting"
    BY <1>11, UpdateStateEffect DEF HandshakeFails, EntryState
  <2>2. PICK d \in Conn : pc[d] = "dial" /\ who[d] = i
    BY <2>1 DEF ConnectingIsLive
  <2>3. d # c
    BY <1>11, <2>1, <2>2
  <2>4. QED
    BY <1>11, <2>2, <2>3, ReturnEffect DEF HandshakeFails, Goto, StateTyped
<1>12. ASSUME NEW c \in Conn, NEW p \in Peer,
             HandshakeSucceeds(c, p)
      PROVE  ConnectingIsLive'
  BY <1>12
     DEF HandshakeSucceeds, Goto, Upsert, ConnectingIsLive, Channels, WriterShape, StateTyped, EntryState, TaskState, table, task
<1>13. ASSUME NEW c \in Conn,
             OpenChannel(c)
      PROVE  ConnectingIsLive'
  BY <1>13
     DEF OpenChannel, Goto, ConnectingIsLive, Channels, WriterShape, StateTyped, EntryState, TaskState, table, task
<1>14. ASSUME NEW c \in Conn,
             ReaderBreaks(c)
      PROVE  ConnectingIsLive'
  BY <1>14
     DEF ReaderBreaks, Goto, ConnectingIsLive, Channels, WriterShape, StateTyped, EntryState, TaskState, table, task
<1>15. ASSUME NEW c \in Conn,
             ReaderFails(c)
      PROVE  ConnectingIsLive'
  BY <1>15
     DEF ReaderFails, Goto, ConnectingIsLive, Channels, WriterShape, StateTyped, EntryState, TaskState, table, task
<1>16. ASSUME NEW c \in Conn,
             CloseChannel(c)
      PROVE  ConnectingIsLive'
  BY <1>16
     DEF CloseChannel, Goto, ConnectingIsLive, Channels, WriterShape, StateTyped, EntryState, TaskState, table, task
<1>17. ASSUME NEW c \in Conn,
             AfterConnection(c)
      PROVE  ConnectingIsLive'
  BY <1>17, ReturnEffect
     DEF AfterConnection, Goto, ConnectingIsLive, Channels, WriterShape, StateTyped, EntryState, TaskState, table, task
<1>18. ASSUME NEW c \in Conn,
             MarkDisconnected(c)
      PROVE  ConnectingIsLive'
  <2> SUFFICES ASSUME NEW i \in Id, state'[i] = "Connecting"
               PROVE  \E d \in Conn : pc'[d] = "dial" /\ who'[d] = i
    BY DEF ConnectingIsLive
  <2>1. i # who[c] /\ state[i] = "Connecting"
    BY <1>18, UpdateStateEffect DEF MarkDisconnected, EntryState
  <2>2. PICK d \in Conn : pc[d] = "dial" /\ who[d] = i
    BY <2>1 DEF ConnectingIsLive
  <2>3. d # c
    BY <1>18, <2>1, <2>2
  <2>4. QED
    BY <1>18, <2>2, <2>3, ReturnEffect DEF MarkDisconnected, Goto, StateTyped
<1>19. ASSUME NEW c \in Conn,
             WriterTakes(c) \/ WriterSends(c) \/ WriterSendFails(c)
      PROVE  ConnectingIsLive'
  BY <1>19
     DEF WriterTakes, WriterSends, WriterSendFails, ConnectingIsLive, Channels, WriterShape, StateTyped, EntryState, TaskState, table, task
<1>20. ASSUME NEW c \in Conn,
             WriterFindsChannelClosed(c)
      PROVE  ConnectingIsLive'
  BY <1>20
     DEF WriterFindsChannelClosed, ConnectingIsLive, Channels, WriterShape, StateTyped, EntryState, TaskState, table, task
<1>21. ASSUME NEW c \in Conn,
             WriterCleanup(c)
      PROVE  ConnectingIsLive'
  BY <1>21, UpdateStateEffect
     DEF WriterCleanup, ConnectingIsLive, Channels, WriterShape, StateTyped, EntryState, TaskState, table, task
<1>22. CASE UNCHANGED vars
  BY <1>22 DEF vars, table, task, ConnectingIsLive, Channels, WriterShape, StateTyped, EntryState, TaskState
<1>23. QED
  BY <1>1, <1>2, <1>3, <1>4, <1>5, <1>6, <1>7, <1>8,
     <1>9, <1>10, <1>11, <1>12, <1>13, <1>14, <1>15, <1>16,
     <1>17, <1>18, <1>19, <1>20, <1>21, <1>22
     DEF Next, Environment, Connection, Writer

\* An entry never stays Connecting once nobody dials for it, so no entry is
\* locked out of the connector, or kept from being forgotten, by that state.
THEOREM ConnectingIsAlwaysLive == Spec => []ConnectingIsLive
<1>1. Init => ConnectingIsLive /\ Channels
  BY DEF Init, ConnectingIsLive, Channels, WriterShape, ChannelHasWriter
<1>2. Accounting /\ Channels /\ [Next]_vars => Channels'
  BY ChannelsStep DEF Accounting
<1>3. Accounting /\ Channels /\ ConnectingIsLive /\ [Next]_vars => ConnectingIsLive'
  BY ConnectingStep DEF Accounting
<1>4. QED
  BY <1>1, <1>2, <1>3, AccountingInvariant, PTL DEF Spec

-----------------------------------------------------------------------------
(* Who takes a channel away.                                               *)

\* Every step of a connection task moves it to another stage.
LEMMA ConnectionTasksMove ==
  ASSUME StateTyped, NEW c \in Conn, Connection(c)
  PROVE  pc' # pc
<1>1. (\E l \in TaskState \ {pc[c]} : pc' = [pc EXCEPT ![c] = l]) => pc' # pc
  BY DEF StateTyped
<1>2. Return(c) /\ pc[c] # "idle" => pc' # pc
  BY DEF Return, Goto, StateTyped
<1>3. QED
  BY <1>1, <1>2
     DEF Connection, AcquirePermit, DoubleCheck, MarkConnecting, DialFails,
         DialSucceeds, HandshakeFails, HandshakeSucceeds, OpenChannel,
         ReaderBreaks, ReaderFails, CloseChannel, AfterConnection,
         MarkDisconnected, Goto, TaskState

\* Whatever else happens while the connection tasks stand still, a channel and
\* the state Connected outlive the writer of an older connection: the token is
\* compared under the lock that the cleanup keeps (node.rs 1443-1453).
THEOREM OldWritersSpareNewer == Spec => OldWriterSparesNewer
<1> DEFINE spared == pc' = pc =>
      \A p \in Peer :
        (senders'[p] # senders[p] \/ (state[p] = "Connected" /\ state'[p] # "Connected"))
           => OwnWriterEnds(p)
<1>1. ASSUME StateTyped, [Next]_vars PROVE spared
  <2> SUFFICES ASSUME pc' = pc, NEW p \in Peer,
                      senders'[p] # senders[p] \/ (state[p] = "Connected" /\ state'[p] # "Connected")
               PROVE  OwnWriterEnds(p)
    OBVIOUS
  <2>1. CASE Environment
    <3>1. senders' = senders
      BY <2>1 DEF Environment, ConnectorSpawns, DiscoverPeer, CooldownElapses,
                  AcceptIncoming, RemoveStalePeers
    <3>2. ASSUME NEW c \in Conn, NEW a \in SourceAddr, AcceptIncoming(c, a)
          PROVE  FALSE
      BY <1>1, <3>2 DEF AcceptIncoming, Goto, Free, StateTyped
    <3>3. state[p] = "Connected" => state'[p] = "Connected"
      <4>1. p \in Id
        BY DEF Id
      <4>2. ASSUME NEW q \in Peer, NEW a \in ListenAddr, DiscoverPeer(q, a)
            PROVE  state[p] = "Connected" => state'[p] = "Connected"
        BY <1>1, <4>1, <4>2 DEF DiscoverPeer, StateTyped
      <4>3. ASSUME NEW stale \in SUBSET (Entries \ {i \in Id : state[i] \in Busy}),
                   RemoveStalePeers(stale)
            PROVE  state[p] = "Connected" => state'[p] = "Connected"
        BY <4>1, <4>3 DEF RemoveStalePeers, Busy
      <4>4. (\/ \E c \in Conn, id \in Id : ConnectorSpawns(c, id)
             \/ \E a \in Addr : CooldownElapses(a)) => state' = state
        BY DEF ConnectorSpawns, CooldownElapses, table
      <4>5. QED
        BY <2>1, <3>2, <4>2, <4>3, <4>4 DEF Environment
    <3>4. QED
      BY <3>1, <3>3
  <2>2. ASSUME NEW c \in Conn, Connection(c) PROVE OwnWriterEnds(p)
    BY <1>1, <2>2, ConnectionTasksMove
  <2>3. ASSUME NEW c \in Conn, Writer(c) PROVE OwnWriterEnds(p)
    <3>1. ~(WriterTakes(c) \/ WriterSends(c) \/ WriterSendFails(c) \/ WriterFindsChannelClosed(c))
      BY DEF WriterTakes, WriterSends, WriterSendFails, WriterFindsChannelClosed, table
    <3>2. WriterCleanup(c) /\ senders[who[c]] = c /\ p = who[c]
      BY <1>1, <2>3, <3>1, UpdateStateEffect, p \in Id
         DEF Writer, WriterCleanup, StateTyped, EntryState, Id
    <3>3. QED
      BY <1>1, <3>2, IdAssumption DEF OwnWriterEnds, WriterCleanup, StateTyped
  <2>4. CASE UNCHANGED vars
    BY <2>4 DEF vars, table
  <2>5. QED
    BY <1>1, <2>1, <2>2, <2>3, <2>4 DEF Next
<1>2. QED
  BY <1>1, TypedInitially, TypedStep, PTL DEF Spec, OldWriterSparesNewer

=============================================================================
