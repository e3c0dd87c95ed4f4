---------------------------- MODULE LocalProofs -----------------------------
(***************************************************************************)
(* Theorems about what a node keeps and computes on its own computer       *)
(* (NameRegistry, NodeFiles, PeerLearning, Services, ContactTrace), for    *)
(* every value of their constants.  The parts share no state; each has an  *)
(* inductive invariant of its own.                                         *)
(***************************************************************************)
EXTENDS NameRegistry, NodeFiles, PeerLearning, Services, ContactTrace,
        NaturalsInduction, WellFoundedInduction, TLAPS

-----------------------------------------------------------------------------
(* Induction, over a set of numbers: the induction theorems of the library  *)
(* take an operator as a parameter, a set and a function do as well.       *)

LEMMA NatSetInduction ==
  ASSUME NEW S, 0 \in S, \A n \in Nat : n \in S => n + 1 \in S
  PROVE  \A n \in Nat : n \in S
<1> DEFINE missing == {n \in Nat : n \notin S}
           R       == {ss \in Nat \X Nat : ss[1] < ss[2]}
<1> SUFFICES ASSUME missing # {} PROVE FALSE
  OBVIOUS
<1>1. missing \subseteq Nat /\ IsWellFoundedOn(R, Nat)
  BY NatLessThanWellFounded DEF OpToRel
<1>2. PICK n \in missing : \A m \in missing : ~(<<m, n>> \in R)
  BY <1>1, WFMin, Zenon
<1>3. n \in Nat /\ n # 0 /\ n \notin S
  OBVIOUS
<1>4. n - 1 \in Nat /\ n - 1 < n /\ (n - 1) + 1 = n
  BY <1>3
<1>5. n - 1 \in S
  BY <1>2, <1>4
<1> QED  BY <1>3, <1>4, <1>5

\* A function can be iterated.
LEMMA IterationExists ==
  ASSUME NEW V, NEW base \in V, NEW step \in [V -> V]
  PROVE  \E f \in [Nat -> V] : f[0] = base /\ \A n \in Nat : f[n + 1] = step[f[n]]
<1> DEFINE Upto(n) == {g \in [0..n -> V] : g[0] = base /\ \A i \in 0..(n - 1) : g[i + 1] = step[g[i]]}
           begun   == {n \in Nat : Upto(n) # {}}
           agreed  == {i \in Nat : \A n, m \in Nat : i <= n /\ i <= m =>
                          \A g \in Upto(n), h \in Upto(m) : g[i] = h[i]}
<1>1. \A n \in Nat : n \in begun
  <2>1. 0 \in begun
    <3>1. [i \in 0..0 |-> base] \in Upto(0)
      OBVIOUS
    <3> QED  BY <3>1
  <2>2. ASSUME NEW n \in Nat, n \in begun PROVE n + 1 \in begun
    <3>1. PICK g \in Upto(n) : TRUE
      BY <2>2
    <3> DEFINE h == [i \in 0..(n + 1) |-> IF i <= n THEN g[i] ELSE step[g[n]]]
    <3>2. \A i \in 0..n : g[i] \in V
      BY <3>1
    <3>3. h \in [0..(n + 1) -> V]
      BY <3>2
    <3>4. h[0] = base
      BY <3>1
    <3>5. ASSUME NEW i \in 0..n PROVE h[i + 1] = step[h[i]]
      <4>1. CASE i = n
        BY <4>1
      <4>2. CASE i < n
        BY <3>1, <4>2
      <4> QED  BY <4>1, <4>2
    <3> HIDE DEF h
    <3>6. h \in Upto(n + 1)
      BY <3>3, <3>4, <3>5
    <3> QED  BY <3>6
  <2> HIDE DEF begun
  <2> QED  BY <2>1, <2>2, NatSetInduction
<1>2. \A i \in Nat : i \in agreed
  <2>1. 0 \in agreed
    OBVIOUS
  <2>2. ASSUME NEW i \in Nat, i \in agreed PROVE i + 1 \in agreed
    <3> SUFFICES ASSUME NEW n \in Nat, NEW m \in Nat, i + 1 <= n, i + 1 <= m,
                        NEW g \in Upto(n), NEW h \in Upto(m)
                 PROVE  g[i + 1] = h[i + 1]
      OBVIOUS
    <3>1. i <= n /\ i <= m /\ i \in 0..(n - 1) /\ i \in 0..(m - 1)
      OBVIOUS
    <3>2. g[i] = h[i]
      <4> HIDE DEF Upto
      <4> QED  BY <2>2, <3>1
    <3>3. g[i + 1] = step[g[i]] /\ h[i + 1] = step[h[i]]
      BY <3>1
    <3> QED  BY <3>2, <3>3
  <2> HIDE DEF agreed
  <2> QED  BY <2>1, <2>2, NatSetInduction
<1> DEFINE pick(n) == CHOOSE g \in Upto(n) : TRUE
           f == [n \in Nat |-> pick(n)[n]]
<1>3. \A n \in Nat : pick(n) \in Upto(n)
  BY <1>1
<1> HIDE DEF pick
<1>4. f \in [Nat -> V] /\ f[0] = base
  BY <1>3
<1>5. ASSUME NEW n \in Nat PROVE f[n + 1] = step[f[n]]
  <2>1. pick(n + 1)[n + 1] = step[pick(n + 1)[n]]
    BY <1>3
  <2>2. pick(n + 1)[n] = pick(n)[n]
    <3>1. n \in agreed /\ n + 1 \in Nat /\ n <= n + 1 /\ n <= n
      BY <1>2
    <3>2. pick(n + 1) \in Upto(n + 1) /\ pick(n) \in Upto(n)
      BY <1>3
    <3> HIDE DEF Upto
    <3> QED  BY <3>1, <3>2
  <2> QED  BY <2>1, <2>2
<1> QED  BY <1>4, <1>5

-----------------------------------------------------------------------------
(* Names.  An untainted name has one request at most, which tells what the *)
(* cache holds and, once it has reached it, what the database holds.       *)

\* The cache holds what the request under way registers, or nothing.
OnItsWay(n, c) ==
  /\ nameCache[n] = request[c].record
  /\ request[c].step = "flush"  => nameDb[n] = request[c].record
  /\ request[c].step = "remove" => request[c].record = NoRecord

Settled(n) ==
  /\ nameCache[n] = nameDb[n]
  /\ nameCache[n] # NoRecord => nameDisk[n] = nameCache[n]

NameInv ==
  /\ NameTypeOK
  /\ \A n \in Name \ tainted :
        /\ \A c, d \in Under(n) : c = d
        /\ \A c \in Under(n) : OnItsWay(n, c)
        /\ Under(n) = {} => Settled(n)

LEMMA NameInitially == NameInit => NameInv
<1> SUFFICES ASSUME NameInit PROVE NameInv
  OBVIOUS
<1>1. NameTypeOK
  BY DEF NameInit, NameTypeOK, Idle
<1>2. \A n \in Name : Under(n) = {} /\ Settled(n)
  BY DEF NameInit, Under, Settled, Records
<1> QED  BY <1>1, <1>2 DEF NameInv

LEMMA BeginKeeps ==
  ASSUME NameInv, NEW c \in NameClient, NEW n \in Name, NEW record \in NodeId \cup {NoRecord},
         NEW step \in {"insert", "remove"}, step = "remove" => record = NoRecord,
         Begin(c, n, record, step)
  PROVE  NameInv'
<1>1. /\ request[c] = Idle
      /\ nameCache' = [nameCache EXCEPT ![n] = record]
      /\ request'   = [request EXCEPT ![c] = [step |-> step, name |-> n, record |-> record]]
      /\ tainted'   = IF Under(n) = {} THEN tainted ELSE tainted \cup {n}
      /\ UNCHANGED <<nameDb, nameDisk>>
  BY DEF Begin
<1>2. NameTypeOK'
  BY <1>1 DEF NameInv, NameTypeOK, Records
<1>3. Under(n)' = Under(n) \cup {c} /\ request'[c] = [step |-> step, name |-> n, record |-> record]
  BY <1>1 DEF Under, NameInv, NameTypeOK, Idle
<1>4. \A m \in Name \ {n} : Under(m)' = Under(m) /\ c \notin Under(m)
  BY <1>1 DEF Under, NameInv, NameTypeOK, Idle
<1>5. ASSUME NEW m \in Name \ tainted', m # n
      PROVE  /\ \A d, e \in Under(m)' : d = e
             /\ \A d \in Under(m)' : OnItsWay(m, d)'
             /\ Under(m)' = {} => Settled(m)'
  <2>1. m \in Name \ tainted /\ nameCache'[m] = nameCache[m]
    BY <1>1, <1>5 DEF NameInv, NameTypeOK, Records
  <2>2. \A d \in Under(m) : d \in NameClient /\ request'[d] = request[d]
    BY <1>1, <1>4, <1>5 DEF Under, NameInv, NameTypeOK
  <2> QED  BY <1>1, <1>4, <1>5, <2>1, <2>2 DEF NameInv, OnItsWay, Settled
<1>6. ASSUME n \notin tainted'
      PROVE  /\ \A d, e \in Under(n)' : d = e
             /\ \A d \in Under(n)' : OnItsWay(n, d)'
             /\ Under(n)' # {}
  <2>1. Under(n)' = {c} /\ nameCache'[n] = record
    BY <1>1, <1>3, <1>6 DEF NameInv, NameTypeOK, Records
  <2> QED  BY <1>3, <2>1 DEF OnItsWay
<1> QED  BY <1>2, <1>5, <1>6 DEF NameInv

\* What the last step of a client's request leaves behind.
LEMMA RequestEnds ==
  ASSUME NameInv, NEW c \in NameClient, request[c] # Idle,
         request' = [request EXCEPT ![c] = Idle]
  PROVE  /\ request[c].name \in Name
         /\ \A m \in Name \ tainted : /\ m # request[c].name => Under(m)' = Under(m) /\ c \notin Under(m)
                                      /\ m = request[c].name => Under(m) = {c} /\ Under(m)' = {}
         /\ \A d \in NameClient \ {c} : request'[d] = request[d]
<1>1. /\ request'[c] = Idle
      /\ \A d \in NameClient \ {c} : request'[d] = request[d]
  BY DEF NameInv, NameTypeOK
<1>2. request[c].name \in Name /\ c \in Under(request[c].name)
  BY DEF NameInv, NameTypeOK, Under
<1>3. \A m \in Name \ tainted : \A d, e \in Under(m) : d = e
  BY DEF NameInv
<1>4. ASSUME NEW m \in Name \ tainted, m # request[c].name
      PROVE  Under(m)' = Under(m) /\ c \notin Under(m)
  BY <1>1, <1>4 DEF Under
<1>5. ASSUME NEW m \in Name \ tainted, m = request[c].name
      PROVE  Under(m) = {c} /\ Under(m)' = {}
  <2>1. Under(m) = {c}
    BY <1>2, <1>3, <1>5
  <2> QED  BY <1>1, <2>1, <1>5 DEF Under
<1> QED  BY <1>1, <1>2, <1>4, <1>5

LEMMA NameStep == NameInv /\ [NameNext]_nameVars => NameInv'
<1> SUFFICES ASSUME NameInv, [NameNext]_nameVars
             PROVE  NameInv'
  OBVIOUS
<1>1. ASSUME NEW c \in NameClient, NEW n \in Name, DeleteName(c, n)
      PROVE  NameInv'
  BY <1>1, BeginKeeps DEF DeleteName
<1>2. ASSUME NEW c \in NameClient, NEW n \in Name, NEW id \in NodeId, RegisterName(c, n, id)
      PROVE  NameInv'
  BY <1>2, BeginKeeps DEF RegisterName
<1>3. ASSUME NEW c \in NameClient, InsertRecord(c)
      PROVE  NameInv'
  <2> DEFINE n == request[c].name
  <2>1. /\ n \in Name /\ request[c].record \in NodeId \cup {NoRecord} /\ request[c] # Idle
        /\ c \in Under(n)
    BY <1>3 DEF InsertRecord, NameInv, NameTypeOK, Idle, Under
  <2>2. /\ nameDb' = [nameDb EXCEPT ![n] = request[c].record]
        /\ request' = [request EXCEPT ![c].step = "flush"]
        /\ UNCHANGED <<nameCache, nameDisk, tainted>>
    BY <1>3 DEF InsertRecord
  <2>3. /\ request'[c] = [step |-> "flush", name |-> n, record |-> request[c].record]
        /\ \A d \in NameClient \ {c} : request'[d] = request[d]
    BY <2>1, <2>2 DEF NameInv, NameTypeOK
  <2>4. NameTypeOK'
    BY <2>1, <2>2, <2>3 DEF NameInv, NameTypeOK, Records
  <2>5. \A m \in Name : Under(m)' = Under(m)
    BY <2>1, <2>3 DEF Under, Idle
  <2>6. ASSUME NEW m \in Name \ tainted, m # n
        PROVE  nameDb'[m] = nameDb[m] /\ c \notin Under(m)
    BY <2>1, <2>2, <2>6 DEF Under, NameInv, NameTypeOK, Records
  <2>7. ASSUME NEW m \in Name \ tainted', NEW d \in Under(m)'
        PROVE  OnItsWay(m, d)'
    <3>1. d \in NameClient /\ d \in Under(m) /\ OnItsWay(m, d)
      BY <2>2, <2>5, <2>7 DEF NameInv, Under
    <3>2. CASE d = c
      <4>1. m = n /\ nameDb'[n] = request[c].record
        BY <2>1, <2>2, <3>1, <3>2 DEF Under, NameInv, NameTypeOK, Records
      <4> QED  BY <2>2, <2>3, <3>1, <3>2, <4>1 DEF OnItsWay
    <3>3. CASE d # c
      <4>1. m # n
        BY <2>1, <2>2, <3>1, <3>3 DEF NameInv
      <4> QED  BY <2>2, <2>3, <2>6, <3>1, <3>3, <4>1 DEF OnItsWay
    <3> QED  BY <3>2, <3>3
  <2>8. ASSUME NEW m \in Name \ tainted', Under(m)' = {}
        PROVE  Settled(m)'
    BY <2>1, <2>2, <2>5, <2>6, <2>8 DEF NameInv, Settled
  <2> QED  BY <2>2, <2>4, <2>5, <2>7, <2>8 DEF NameInv
<1>4. ASSUME NEW c \in NameClient, FlushRecord(c)
      PROVE  NameInv'
  <2>1. /\ request[c] # Idle /\ request[c].step = "flush"
        /\ nameDisk' = nameDb
        /\ request' = [request EXCEPT ![c] = Idle]
        /\ UNCHANGED <<nameCache, nameDb, tainted>>
    BY <1>4 DEF FlushRecord, Flushed, Idle
  <2>2. NameTypeOK'
    BY <2>1 DEF NameInv, NameTypeOK
  <2>3. ASSUME NEW m \in Name \ tainted, m = request[c].name
        PROVE  Under(m)' = {} /\ Settled(m)'
    <3>1. Under(m) = {c} /\ Under(m)' = {} /\ OnItsWay(m, c)
      BY <2>1, <2>3, RequestEnds DEF NameInv
    <3> QED  BY <2>1, <3>1 DEF OnItsWay, Settled
  <2>4. ASSUME NEW m \in Name \ tainted, m # request[c].name
        PROVE  /\ \A d, e \in Under(m)' : d = e
               /\ \A d \in Under(m)' : OnItsWay(m, d)'
               /\ Under(m)' = {} => Settled(m)'
    <3>1. Under(m)' = Under(m) /\ \A d \in Under(m) : request'[d] = request[d]
      BY <2>1, <2>4, RequestEnds DEF Under
    <3> QED  BY <2>1, <3>1 DEF NameInv, OnItsWay, Settled
  <2> QED  BY <2>1, <2>2, <2>3, <2>4 DEF NameInv
<1>5. ASSUME NEW c \in NameClient, RemoveRecord(c)
      PROVE  NameInv'
  <2>1. /\ request[c] # Idle /\ request[c].step = "remove"
        /\ nameDb' = [nameDb EXCEPT ![request[c].name] = NoRecord]
        /\ request' = [request EXCEPT ![c] = Idle]
        /\ UNCHANGED <<nameCache, nameDisk, tainted>>
    BY <1>5 DEF RemoveRecord, Idle
  <2>2. NameTypeOK'
    BY <2>1, RequestEnds DEF NameInv, NameTypeOK, Records
  <2>3. ASSUME NEW m \in Name \ tainted, m = request[c].name
        PROVE  Under(m)' = {} /\ Settled(m)'
    <3>1. Under(m) = {c} /\ Under(m)' = {} /\ OnItsWay(m, c)
      BY <2>1, <2>3, RequestEnds DEF NameInv
    <3>2. nameDb'[m] = NoRecord
      BY <2>1, <2>3, RequestEnds DEF NameInv, NameTypeOK, Records
    <3> QED  BY <2>1, <3>1, <3>2 DEF OnItsWay, Settled
  <2>4. ASSUME NEW m \in Name \ tainted, m # request[c].name
        PROVE  /\ \A d, e \in Under(m)' : d = e
               /\ \A d \in Under(m)' : OnItsWay(m, d)'
               /\ Under(m)' = {} => Settled(m)'
    <3>1. Under(m)' = Under(m) /\ \A d \in Under(m) : request'[d] = request[d]
      BY <2>1, <2>4, RequestEnds DEF Under
    <3>2. nameDb'[m] = nameDb[m]
      BY <2>1, <2>4 DEF NameInv, NameTypeOK, Records
    <3> QED  BY <2>1, <3>1, <3>2 DEF NameInv, OnItsWay, Settled
  <2> QED  BY <2>1, <2>2, <2>3, <2>4 DEF NameInv
<1>6. ASSUME NEW c \in NameClient, DatabaseFails(c)
      PROVE  NameInv'
  <2>1. /\ request[c] # Idle
        /\ request' = [request EXCEPT ![c] = Idle]
        /\ tainted' = tainted \cup {request[c].name}
        /\ UNCHANGED <<nameCache, nameDb, nameDisk>>
    BY <1>6 DEF DatabaseFails
  <2>2. NameTypeOK'
    BY <2>1, RequestEnds DEF NameInv, NameTypeOK
  <2>3. ASSUME NEW m \in Name \ tainted'
        PROVE  /\ \A d, e \in Under(m)' : d = e
               /\ \A d \in Under(m)' : OnItsWay(m, d)'
               /\ Under(m)' = {} => Settled(m)'
    <3>1. /\ m \in Name \ tainted /\ Under(m)' = Under(m)
          /\ \A d \in Under(m) : request'[d] = request[d]
      BY <2>1, <2>3, RequestEnds DEF Under
    <3> QED  BY <2>1, <3>1 DEF NameInv, OnItsWay, Settled
  <2> QED  BY <2>2, <2>3 DEF NameInv
<1>7. CASE BackgroundFlush
  <2>1. nameDisk' = nameDb /\ UNCHANGED <<nameCache, nameDb, request, tainted>>
    BY <1>7 DEF BackgroundFlush
  <2>2. \A m \in Name : Under(m)' = Under(m) /\ (Settled(m) => Settled(m)')
    BY <2>1 DEF Under, Settled
  <2>3. NameTypeOK'
    BY <2>1 DEF NameInv, NameTypeOK
  <2> QED  BY <2>1, <2>2, <2>3 DEF NameInv, OnItsWay
<1>8. CASE RestartRegistry
  <2>1. NameTypeOK'
    BY <1>8 DEF RestartRegistry, NameInv, NameTypeOK
  <2>2. \A m \in Name : Under(m)' = {} /\ Settled(m)'
    BY <1>8 DEF RestartRegistry, Under, Settled
  <2> QED  BY <2>1, <2>2 DEF NameInv
<1>9. CASE UNCHANGED nameVars
  BY <1>9 DEF nameVars, NameInv, NameTypeOK, Under, OnItsWay, Settled
<1> QED  BY <1>1, <1>2, <1>3, <1>4, <1>5, <1>6, <1>7, <1>8, <1>9 DEF NameNext

\* A name whose requests came one at a time resolves to what the database
\* holds, and a registered one survives a crash (register, delete).
THEOREM NamesAreKept == NameSpec => []NamesSurvive
<1>1. NameInv => NamesSurvive
  BY DEF NameInv, NamesSurvive, Settled
<1> QED  BY <1>1, NameInitially, NameStep, PTL DEF NameSpec

-----------------------------------------------------------------------------
(* Files.  The cache file holds no address twice and not too many, torn or *)
(* not; the address being written is among them.                           *)

Listed(a, q) == \E i \in DOMAIN q : q[i] = a

Tidy(q) ==
  /\ Len(q) <= MaxPeers
  /\ \A i, j \in DOMAIN q : q[i] = q[j] => i = j

\* WithPeer drops the oldest address only when it adds one.
LEMMA WithPeerLists ==
  ASSUME NEW q \in Seq(PeerAddr), NEW a \in PeerAddr, Tidy(q)
  PROVE  WithPeer(q, a) \in Seq(PeerAddr) /\ Tidy(WithPeer(q, a)) /\ Listed(a, WithPeer(q, a))
<1> USE NodeFilesAssumption
<1>1. CASE Listed(a, q)
  <2>1. WithPeer(q, a) = q
    BY <1>1 DEF WithPeer, Latest, Listed, Tidy
  <2> QED  BY <1>1, <2>1
<1>2. CASE ~Listed(a, q)
  <2> DEFINE r == Append(q, a)
  <2>1. /\ r \in Seq(PeerAddr) /\ Len(r) = Len(q) + 1
        /\ \A i \in 1..Len(q) : r[i] = q[i]
        /\ r[Len(q) + 1] = a
    OBVIOUS
  <2>2. WithPeer(q, a) = Latest(r)
    BY <1>2 DEF WithPeer, Listed
  <2>3. \A i, j \in 1..Len(r) : r[i] = r[j] => i = j
    BY <1>2, <2>1 DEF Listed, Tidy
  <2> HIDE DEF r
  <2>4. CASE Len(r) <= MaxPeers
    <3>1. Latest(r) = r
      BY <2>4 DEF Latest
    <3>2. DOMAIN r = 1..Len(r) /\ Len(q) + 1 \in 1..Len(r)
      BY <2>1
    <3> QED  BY <2>1, <2>2, <2>3, <2>4, <3>1, <3>2 DEF Listed, Tidy
  <2>5. CASE ~(Len(r) <= MaxPeers)
    <3> DEFINE s == SubSeq(r, 2, Len(r))
    <3>1. Len(q) = MaxPeers /\ Len(r) = MaxPeers + 1 /\ MaxPeers \in Nat \ {0}
      BY <2>1, <2>5 DEF Tidy
    <3>2. Latest(r) = s
      <4>1. Len(r) - MaxPeers + 1 = 2
        BY <3>1
      <4> QED  BY <2>5, <4>1 DEF Latest
    <3>3. s \in Seq(PeerAddr) /\ Len(s) = MaxPeers /\ \A i \in 1..MaxPeers : s[i] = r[i + 1]
      BY <2>1, <3>1
    <3>4. DOMAIN s = 1..MaxPeers
      BY <3>3
    <3> HIDE DEF s
    <3>5. s[MaxPeers] = a
      BY <2>1, <3>1, <3>3
    <3>6. \A i, j \in 1..MaxPeers : s[i] = s[j] => i = j
      BY <2>3, <3>1, <3>3
    <3> QED  BY <2>2, <3>1, <3>2, <3>3, <3>4, <3>5, <3>6 DEF Listed, Tidy
  <2> QED  BY <2>4, <2>5
<1> QED  BY <1>1, <1>2

FilesInv ==
  /\ identity \in [state : FileState, id : IdKey \cup {None}, key : IdKey \cup {None}]
  /\ peersFile \in [state : FileState, peers : Seq(PeerAddr)]
  /\ recording \in PeerAddr \cup {None}
  /\ Tidy(peersFile.peers)
  /\ recording # None => peersFile.state = "torn" /\ Listed(recording, peersFile.peers)
  /\ peersFile.state = "whole" => Listed(lastPeer, peersFile.peers)
  /\ running = "creating" => key \in IdKey /\ identity.state = "torn"
  /\ IdentityKept
  /\ TornForGood

LEMMA FilesInitially == NodeFilesInit => FilesInv
  BY NodeFilesAssumption
     DEF NodeFilesInit, FilesInv, Tidy, Listed, IdentityKept, TornForGood, Unwritten, FileState

\* What the identity does not tell, the steps of the cache leave alone.
identityVars == <<running, key, identity, lastKey, edited>>
cacheVars    == <<peersFile, recording, lastPeer, broken>>

\* A torn cache yields no address.
LEMMA TornYieldsNone == peersFile.state = "torn" => Loaded = {}
  BY DEF Loaded

LEMMA IdentityStep ==
  ASSUME FilesInv, UNCHANGED cacheVars,
         \/ LoadIdentity \/ WriteIdentity
         \/ \E k \in IdKey : CreateIdentity(k) \/ EditIdentity(k)
  PROVE  FilesInv'
<1>1. CASE LoadIdentity
  <2>1. /\ identity.state = "whole" /\ identity.id = identity.key
        /\ running' = "up" /\ key' = identity.key /\ lastKey' = identity.key
        /\ UNCHANGED identity
    BY <1>1 DEF LoadIdentity, ComeUp, Matches
  <2>2. identity = [state |-> "whole", id |-> identity.key, key |-> identity.key]
    BY <2>1 DEF FilesInv
  <2>3. candidates' = Loaded /\ "identity" \notin broken
    BY <1>1, <2>1 DEF LoadIdentity, ComeUp, FilesInv, TornForGood
  <2>4. TornForGood'
    BY <2>3, TornYieldsNone DEF FilesInv, TornForGood, cacheVars
  <2> QED  BY <2>1, <2>2, <2>4 DEF FilesInv, IdentityKept, cacheVars
<1>2. CASE WriteIdentity
  <2>1. candidates' = Loaded /\ "identity" \notin broken
    BY <1>2 DEF WriteIdentity, ComeUp, FilesInv, TornForGood
  <2>2. TornForGood'
    BY <2>1, TornYieldsNone DEF FilesInv, TornForGood, cacheVars
  <2> QED  BY <1>2, <2>2 DEF WriteIdentity, ComeUp, FilesInv, IdentityKept, cacheVars, FileState
<1>3. ASSUME NEW k \in IdKey, CreateIdentity(k)
      PROVE  FilesInv'
  <2>1. ~(lastKey # None /\ ~edited)
    BY <1>3 DEF CreateIdentity, Recreates, Matches, FilesInv, IdentityKept
  <2>2. "identity" \notin broken
    BY <1>3 DEF CreateIdentity, Recreates, Matches, FilesInv, TornForGood
  <2>3. TornForGood'
    BY <1>3, <2>2 DEF CreateIdentity, FilesInv, TornForGood, cacheVars
  <2> QED  BY <1>3, <2>1, <2>3
           DEF CreateIdentity, FilesInv, IdentityKept, cacheVars, Unwritten, FileState
<1>4. ASSUME NEW k \in IdKey, EditIdentity(k)
      PROVE  FilesInv'
  BY <1>4 DEF EditIdentity, FilesInv, IdentityKept, TornForGood, cacheVars
<1> QED  BY <1>1, <1>2, <1>3, <1>4

LEMMA FilesStep == FilesInv /\ [NodeFilesNext]_fileVars => FilesInv'
<1> SUFFICES ASSUME FilesInv, [NodeFilesNext]_fileVars
             PROVE  FilesInv'
  OBVIOUS
<1>1. CASE \/ LoadIdentity \/ WriteIdentity
           \/ \E k \in IdKey : CreateIdentity(k) \/ EditIdentity(k)
  <2>1. UNCHANGED cacheVars
    BY <1>1 DEF LoadIdentity, WriteIdentity, CreateIdentity, EditIdentity, cacheVars
  <2> QED  BY <1>1, <2>1, IdentityStep
<1>2. ASSUME NEW a \in PeerAddr, RecordPeer(a)
      PROVE  FilesInv'
  <2> DEFINE q == WithPeer(peersFile.peers, a)
  <2>1. q \in Seq(PeerAddr) /\ Tidy(q) /\ Listed(a, q)
    BY WithPeerLists DEF FilesInv
  <2>2. peersFile' = [state |-> "torn", peers |-> q]
    BY <1>2 DEF RecordPeer, FilesInv
  <2>3. recording' = a /\ UNCHANGED <<identityVars, candidates, lastPeer, broken>>
    BY <1>2 DEF RecordPeer, identityVars
  <2>4. TornForGood'
    BY <1>2, <2>3 DEF RecordPeer, FilesInv, TornForGood, identityVars
  <2> HIDE DEF q
  <2> QED  BY <2>1, <2>2, <2>3, <2>4 DEF FilesInv, IdentityKept, identityVars, FileState
<1>3. CASE WritePeers
  <2>1. TornForGood'
    BY <1>3, NodeFilesAssumption DEF WritePeers, FilesInv, TornForGood
  <2> QED  BY <1>3, <2>1, NodeFilesAssumption DEF WritePeers, FilesInv, IdentityKept, FileState
<1>4. CASE StopNode
  <2>1. TornForGood'
    BY <1>4, NodeFilesAssumption DEF StopNode, FilesInv, TornForGood
  <2> QED  BY <1>4, <2>1, NodeFilesAssumption DEF StopNode, FilesInv, IdentityKept
<1>5. CASE UNCHANGED fileVars
  BY <1>5 DEF fileVars, FilesInv, IdentityKept, TornForGood
<1> QED  BY <1>1, <1>2, <1>3, <1>4, <1>5 DEF NodeFilesNext

\* Whatever is written when a node stops or crashes, it keeps its identity or
\* does not start, and its cache has the peer recorded last or is never used
\* again (load_or_create, load_cached_peers, record_peer).
THEOREM FilesAreKept == NodeFilesSpec => []FilesKept
<1>1. FilesInv => FilesKept
  BY DEF FilesInv, FilesKept, PeersKept, Tidy, Listed
<1> QED  BY <1>1, FilesInitially, FilesStep, PTL DEF NodeFilesSpec

-----------------------------------------------------------------------------
(* The bandit.  While a task saves, nobody changes what it copied.         *)

LearningInv ==
  /\ at \in [Recorder -> {"idle", "reward", "persist", "save"}]
  /\ copied = [t \in Recorder |-> copied[t]]
  /\ \A t \in Recorder : at[t] = "save" => copied[t] = bandit
  /\ StoreCaughtUp

LEMMA LearningInitially == LearningInit => LearningInv
  BY DEF LearningInit, LearningInv, StoreCaughtUp

LEMMA LearningStep == LearningInv /\ [LearningNext]_learningVars => LearningInv'
<1> SUFFICES ASSUME LearningInv, [LearningNext]_learningVars
             PROVE  LearningInv'
  OBVIOUS
<1>1. ASSUME NEW t \in Recorder, NEW s \in Scope, NEW p \in Candidate, NEW r \in Reward,
             StartRecord(t, s, p, r)
      PROVE  LearningInv'
  <2>1. at[t] = "idle" /\ at' = [at EXCEPT ![t] = "reward"]
        /\ UNCHANGED <<bandit, saved, copied, lost>>
    BY <1>1 DEF StartRecord
  <2> QED  BY <2>1 DEF LearningInv, StoreCaughtUp
<1>2. ASSUME NEW t \in Recorder, RecordReward(t)
      PROVE  LearningInv'
  <2>1. /\ \A u \in Recorder : at[u] # "save"
        /\ at' = [at EXCEPT ![t] = "persist"] /\ UNCHANGED copied
    BY <1>2 DEF RecordReward, NotHeld
  <2> QED  BY <2>1 DEF LearningInv, StoreCaughtUp
<1>3. ASSUME NEW t \in Recorder, Serialise(t)
      PROVE  LearningInv'
  <2>1. /\ copied' = [copied EXCEPT ![t] = bandit] /\ at' = [at EXCEPT ![t] = "save"]
        /\ UNCHANGED bandit
    BY <1>3 DEF Serialise
  <2> QED  BY <2>1 DEF LearningInv, StoreCaughtUp
<1>4. ASSUME NEW t \in Recorder, Save(t)
      PROVE  LearningInv'
  <2>1. /\ (saved' = copied[t] /\ lost' = FALSE) \/ lost' = TRUE
        /\ at[t] = "save" /\ at' = [at EXCEPT ![t] = "idle"]
        /\ copied' = [copied EXCEPT ![t] = NoCounts] /\ UNCHANGED bandit
    BY <1>4 DEF Save
  <2>2. (saved' = bandit /\ lost' = FALSE) \/ lost' = TRUE
    BY <2>1 DEF LearningInv
  <2> QED  BY <2>1, <2>2 DEF LearningInv, StoreCaughtUp
<1>5. CASE \/ \E d \in Target, p \in Candidate, hop \in {0, Q_INIT} : QRecord(d, p, hop)
           \/ StoreFlushed
  BY <1>5 DEF QRecord, StoreFlushed, LearningInv, StoreCaughtUp
<1>6. CASE RestartRouter
  BY <1>6 DEF RestartRouter, LearningInv, StoreCaughtUp
<1>7. CASE UNCHANGED learningVars
  BY <1>7 DEF learningVars, LearningInv, StoreCaughtUp
<1> QED  BY <1>1, <1>2, <1>3, <1>4, <1>5, <1>6, <1>7 DEF LearningNext

\* The store is never left behind by a save that comes late (persist_ucb_state).
THEOREM StoreCatchesUp == LearningSpec => []StoreCaughtUp
<1>1. LearningInv => StoreCaughtUp
  BY DEF LearningInv
<1> QED  BY <1>1, LearningInitially, LearningStep, PTL DEF LearningSpec

-----------------------------------------------------------------------------
(* Ports of the local services.                                            *)

\* What a port, a started API and the saved port say of one another.
ListenedTo(n, s) == [node |-> n, service |-> s]

Holding == {"listening", "bound", "up"}
State   == {"off", "due", "listening", "bound", "aimed", "up", "failed"}

\* A task listens on the port it aimed at, and on no other.
Held ==
  \A p \in Port, n \in Runner, s \in Service :
     holder[p] = ListenedTo(n, s) <=> task[n][s] \in Holding /\ aimed[n][s] = p

\* What the API's task says of its port.
ApiOK(n) ==
  /\ task[n]["api"] \notin {"aimed", "failed"}
  /\ aimed[n]["api"] \in Preferred[n]..(Preferred[n] + Tries + 1)
  /\ task[n]["api"] \in Holding => aimed[n]["api"] <= Preferred[n] + Tries
  /\ apiAddr[n] \in Preferred[n]..(Preferred[n] + Tries)
  /\ task[n]["api"] \in {"bound", "up"} => apiAddr[n] = aimed[n]["api"]

\* A service that asked in time is above its API, while that runs.
BesideOK(n, s) ==
  /\ task[n][s] \notin {"listening", "bound"}
  /\ task[n][s] \in {"aimed", "up"} /\ n \notin early =>
       task[n]["api"] \in {"bound", "up", "off"} /\ apiAddr[n] < aimed[n][s]

SavedOK ==
  apiFile # NoPort /\ ~leftover => \E n \in Runner : holder[apiFile] = ListenedTo(n, "api")

PortInv ==
  /\ PortsTypeOK /\ Held /\ SavedOK
  /\ \A n \in Runner : ApiOK(n) /\ \A s \in Service \ {"api"} : BesideOK(n, s)

LEMMA ApiPortsExist ==
  ASSUME NEW n \in Runner
  PROVE  /\ Preferred[n] \in Nat
         /\ \A p \in Preferred[n]..(Preferred[n] + Tries + 2) : p \in Port
         /\ Port \subseteq Nat
  BY ServicesAssumption DEF Port

LEMMA ListenersDiffer ==
  /\ \A n \in Runner, s \in Service : Nobody # ListenedTo(n, s)
  /\ \A m, n \in Runner, r, s \in Service : ListenedTo(m, r) = ListenedTo(n, s) => m = n /\ r = s
  /\ \A n \in Runner, s \in Service : ListenedTo(n, s) \in [node : Runner, service : Service]
  BY ServicesAssumption DEF Nobody, ListenedTo

LEMMA PortsInitially == ServicesInit => PortInv
<1> SUFFICES ASSUME ServicesInit PROVE PortInv
  OBVIOUS
<1>1. ASSUME NEW n \in Runner
      PROVE  /\ Preferred[n] \in Port
             /\ Preferred[n] \in Preferred[n]..(Preferred[n] + Tries)
             /\ Preferred[n] \in Preferred[n]..(Preferred[n] + Tries + 1)
  <2>1. Preferred[n] \in Nat /\ Tries \in Nat
    BY ServicesAssumption
  <2>2. /\ Preferred[n] \in Preferred[n]..(Preferred[n] + Tries + 2)
        /\ Preferred[n] \in Preferred[n]..(Preferred[n] + Tries)
        /\ Preferred[n] \in Preferred[n]..(Preferred[n] + Tries + 1)
    BY <2>1
  <2> QED  BY <2>2, ApiPortsExist
<1>2. /\ holder = [p \in Port |-> Nobody]
      /\ task = [n \in Runner |-> [s \in Service |-> "off"]]
      /\ aimed = [n \in Runner |-> [s \in Service |-> Preferred[n]]]
      /\ apiAddr = Preferred /\ apiFile = NoPort /\ starts = 0
      /\ leftover = FALSE /\ early = {}
  BY DEF ServicesInit
<1>3. PortsTypeOK
  <2>1. aimed \in [Runner -> [Service -> Port]] /\ apiAddr \in [Runner -> Port]
    BY <1>1, <1>2, ServicesAssumption
  <2>2. task \in [Runner -> [Service -> State]] /\ starts \in 0..MaxStarts
    BY <1>2, ServicesAssumption DEF State
  <2>3. holder \in [Port -> [node : Runner, service : Service] \cup {Nobody}]
    BY <1>2
  <2> QED  BY <1>2, <2>1, <2>2, <2>3 DEF PortsTypeOK, State
<1>4. Held /\ SavedOK
  BY <1>2, ListenersDiffer DEF Held, SavedOK, Holding
<1>5. ASSUME NEW n \in Runner PROVE ApiOK(n) /\ \A s \in Service \ {"api"} : BesideOK(n, s)
  BY <1>1, <1>2 DEF ApiOK, BesideOK, Holding, Service
<1> QED  BY <1>3, <1>4, <1>5 DEF PortInv

\* A task that takes a free port listens on it.
LEMMA TakenIsHeld ==
  ASSUME PortInv, NEW n \in Runner, NEW s \in Service, NEW t \in {"listening", "up"},
         task[n][s] \notin Holding, Free(aimed[n][s]), Take(aimed[n][s], n, s),
         task' = [task EXCEPT ![n][s] = t], UNCHANGED <<aimed, apiFile, leftover>>
  PROVE  Held' /\ SavedOK' /\ holder' \in [Port -> [node : Runner, service : Service] \cup {Nobody}]
<1> DEFINE q == aimed[n][s]
<1>1. q \in Port /\ holder[q] = Nobody /\ holder' = [holder EXCEPT ![q] = ListenedTo(n, s)]
  BY DEF PortInv, PortsTypeOK, Free, Take, ListenedTo
<1>2. \A m \in Runner, r \in Service : task'[m][r] = IF m = n /\ r = s THEN t ELSE task[m][r]
  BY DEF PortInv, PortsTypeOK
<1>3. ASSUME NEW p \in Port, NEW m \in Runner, NEW r \in Service
      PROVE  holder'[p] = ListenedTo(m, r) <=> task'[m][r] \in Holding /\ aimed[m][r] = p
  <2>1. holder[p] = ListenedTo(m, r) <=> task[m][r] \in Holding /\ aimed[m][r] = p
    BY DEF PortInv, Held
  <2>2. holder'[p] = IF p = q THEN ListenedTo(n, s) ELSE holder[p]
    BY <1>1 DEF PortInv, PortsTypeOK
  <2>3. CASE m = n /\ r = s
    BY <1>1, <1>2, <2>1, <2>2, <2>3 DEF Holding
  <2>4. CASE ~(m = n /\ r = s)
    <3>1. ListenedTo(n, s) # ListenedTo(m, r) /\ task'[m][r] = task[m][r]
      BY <1>2, <2>4, ListenersDiffer
    <3>2. CASE p = q
      <4>1. holder[p] # ListenedTo(m, r)
        BY <1>1, <3>2, ListenersDiffer
      <4> QED  BY <2>1, <2>2, <3>1, <3>2, <4>1
    <3> QED  BY <2>1, <2>2, <3>1, <3>2
  <2> QED  BY <2>3, <2>4
<1>4. SavedOK'
  <2> SUFFICES ASSUME apiFile # NoPort, ~leftover
               PROVE  \E m \in Runner : holder'[apiFile] = ListenedTo(m, "api")
    BY DEF SavedOK
  <2>1. PICK m \in Runner : holder[apiFile] = ListenedTo(m, "api")
    BY DEF PortInv, SavedOK
  <2>2. apiFile \in Port /\ apiFile # q
    BY <1>1, <2>1, ListenersDiffer DEF PortInv, PortsTypeOK, Service
  <2> QED  BY <1>1, <2>1, <2>2 DEF PortInv, PortsTypeOK
<1>5. holder' \in [Port -> [node : Runner, service : Service] \cup {Nobody}]
  BY <1>1, ListenersDiffer DEF PortInv, PortsTypeOK
<1> HIDE DEF q
<1> QED  BY <1>3, <1>4, <1>5 DEF Held

\* One that neither takes nor leaves a port leaves the others alone.
LEMMA OthersAreHeld ==
  ASSUME PortInv, NEW n \in Runner, NEW s \in Service, NEW t \in State, NEW q \in Port,
         UNCHANGED holder,
         task' = [task EXCEPT ![n][s] = t], aimed' = [aimed EXCEPT ![n][s] = q],
         t \in Holding <=> task[n][s] \in Holding,
         t \in Holding => q = aimed[n][s]
  PROVE  Held'
<1>1. \A m \in Runner, r \in Service :
        /\ task'[m][r] = IF m = n /\ r = s THEN t ELSE task[m][r]
        /\ aimed'[m][r] = IF m = n /\ r = s THEN q ELSE aimed[m][r]
  BY DEF PortInv, PortsTypeOK
<1>2. ASSUME NEW p \in Port, NEW m \in Runner, NEW r \in Service
      PROVE  holder'[p] = ListenedTo(m, r) <=> task'[m][r] \in Holding /\ aimed'[m][r] = p
  BY <1>1 DEF PortInv, Held
<1> QED  BY <1>2 DEF Held

LEMMA OnwardIsHeld ==
  ASSUME PortInv, NEW n \in Runner, NEW s \in Service, NEW t \in State,
         UNCHANGED <<holder, aimed>>, task' = [task EXCEPT ![n][s] = t],
         t \in Holding <=> task[n][s] \in Holding
  PROVE  Held'
<1>1. \A m \in Runner, r \in Service :
        task'[m][r] = IF m = n /\ r = s THEN t ELSE task[m][r]
  BY DEF PortInv, PortsTypeOK
<1>2. ASSUME NEW p \in Port, NEW m \in Runner, NEW r \in Service
      PROVE  holder'[p] = ListenedTo(m, r) <=> task'[m][r] \in Holding /\ aimed'[m][r] = p
  BY <1>1 DEF PortInv, Held
<1> QED  BY <1>2 DEF Held

\* One that ends leaves its port.
LEMMA StoppedIsNotHeld ==
  ASSUME PortInv, NEW n \in Runner, NEW s \in Service, StopService(n, s)
  PROVE  Held' /\ SavedOK' /\ holder' \in [Port -> [node : Runner, service : Service] \cup {Nobody}]
<1>1. /\ \A m \in Runner, r \in Service :
           /\ task'[m][r] = IF m = n /\ r = s THEN "off" ELSE task[m][r]
           /\ aimed'[m][r] = IF m = n /\ r = s THEN Preferred[n] ELSE aimed[m][r]
      /\ holder' = [p \in Port |-> IF holder[p] = ListenedTo(n, s) THEN Nobody ELSE holder[p]]
  BY DEF StopService, PortInv, PortsTypeOK, ListenedTo
<1>2. ASSUME NEW p \in Port, NEW m \in Runner, NEW r \in Service
      PROVE  holder'[p] = ListenedTo(m, r) <=> task'[m][r] \in Holding /\ aimed'[m][r] = p
  <2>1. holder[p] = ListenedTo(m, r) <=> task[m][r] \in Holding /\ aimed[m][r] = p
    BY DEF PortInv, Held
  <2>2. holder'[p] = IF holder[p] = ListenedTo(n, s) THEN Nobody ELSE holder[p]
    BY <1>1
  <2>3. CASE m = n /\ r = s
    BY <1>1, <2>2, <2>3, ListenersDiffer DEF Holding
  <2>4. CASE ~(m = n /\ r = s)
    <3>1. /\ task'[m][r] = task[m][r] /\ aimed'[m][r] = aimed[m][r]
          /\ ListenedTo(n, s) # ListenedTo(m, r) /\ Nobody # ListenedTo(m, r)
      BY <1>1, <2>4, ListenersDiffer
    <3> QED  BY <2>1, <2>2, <3>1
  <2> QED  BY <2>3, <2>4
<1>3. SavedOK'
  <2> SUFFICES ASSUME apiFile' # NoPort, ~leftover'
               PROVE  \E m \in Runner : holder'[apiFile'] = ListenedTo(m, "api")
    BY DEF SavedOK
  <2>1. /\ apiFile' = apiFile /\ ~leftover
        /\ ~(s = "api" /\ holder[apiFile] = ListenedTo(n, s))
    BY DEF StopService, ListenedTo
  <2>2. PICK m \in Runner : holder[apiFile] = ListenedTo(m, "api")
    BY <2>1 DEF PortInv, SavedOK
  <2>3. apiFile \in Port /\ "api" \in Service
    BY <2>1 DEF PortInv, PortsTypeOK, Service
  <2>4. holder[apiFile] # ListenedTo(n, s)
    BY <2>1, <2>2, <2>3, ListenersDiffer
  <2> QED  BY <1>1, <2>1, <2>2, <2>3, <2>4
<1>4. holder' \in [Port -> [node : Runner, service : Service] \cup {Nobody}]
  BY <1>1 DEF PortInv, PortsTypeOK
<1> QED  BY <1>2, <1>3, <1>4 DEF Held

LEMMA PortsStep == PortInv /\ [ServicesNext]_servicesVars => PortInv'
<1> SUFFICES ASSUME PortInv, [ServicesNext]_servicesVars PROVE PortInv'
  OBVIOUS
<1> USE DEF Holding
<1>1. \A n \in Runner : ApiOK(n) /\ \A s \in Service \ {"api"} : BesideOK(n, s)
  BY DEF PortInv
<1>2. /\ task \in [Runner -> [Service -> State]] /\ aimed \in [Runner -> [Service -> Port]]
      /\ apiAddr \in [Runner -> Port] /\ apiFile \in Port \cup {NoPort}
      /\ leftover \in BOOLEAN /\ early \subseteq Runner /\ "api" \in Service
      /\ holder \in [Port -> [node : Runner, service : Service] \cup {Nobody}]
  BY DEF PortInv, PortsTypeOK, State, Service
<1>3. ASSUME NEW n \in Runner, StartServices(n) PROVE PortInv'
  <2>1. /\ \A m \in Runner, s \in Service :
             task'[m][s] = IF m = n THEN "due" ELSE task[m][s]
        /\ \A m \in Runner : apiAddr'[m] = IF m = n THEN Preferred[n] ELSE apiAddr[m]
        /\ early' = early \ {n} /\ UNCHANGED <<holder, aimed, apiFile, leftover>>
        /\ \A s \in Service : task[n][s] = "off"
    BY <1>2, <1>3 DEF StartServices
  <2>2. /\ Preferred[n] \in Port /\ Preferred[n] \in Preferred[n]..(Preferred[n] + Tries)
    BY ApiPortsExist, ServicesAssumption
  <2>3. PortsTypeOK'
    <3>1. starts' \in 0..MaxStarts
      BY <1>3, ServicesAssumption DEF StartServices, PortInv, PortsTypeOK
    <3>2. task' \in [Runner -> [Service -> State]] /\ apiAddr' \in [Runner -> Port]
      BY <1>2, <1>3, <2>2 DEF StartServices, State
    <3> QED  BY <1>2, <2>1, <3>1, <3>2 DEF PortsTypeOK, State
  <2>4. Held' /\ SavedOK'
    BY <2>1 DEF PortInv, Held, SavedOK
  <2>5. ASSUME NEW m \in Runner PROVE ApiOK(m)' /\ \A s \in Service \ {"api"} : BesideOK(m, s)'
    BY <1>1, <1>2, <2>1, <2>2 DEF ApiOK, BesideOK
  <2> QED  BY <2>3, <2>4, <2>5 DEF PortInv
<1>4. ASSUME NEW n \in Runner, TryApiPort(n) PROVE PortInv'
  <2>1. /\ task[n]["api"] = "due" /\ aimed[n]["api"] <= Preferred[n] + Tries
        /\ UNCHANGED <<apiAddr, apiFile, starts, leftover, early>>
    BY <1>4 DEF TryApiPort
  <2>2. CASE Free(aimed[n]["api"])
    <3>1. /\ Take(aimed[n]["api"], n, "api") /\ UNCHANGED aimed
          /\ task' = [task EXCEPT ![n]["api"] = "listening"]
      BY <1>4, <2>2 DEF TryApiPort
    <3>2. /\ Held' /\ SavedOK'
          /\ holder' \in [Port -> [node : Runner, service : Service] \cup {Nobody}]
      BY <1>2, <2>1, <2>2, <3>1, TakenIsHeld
    <3>3. \A m \in Runner, s \in Service :
            task'[m][s] = IF m = n /\ s = "api" THEN "listening" ELSE task[m][s]
      BY <1>2, <3>1
    <3>4. PortsTypeOK'
      BY <1>2, <2>1, <3>1, <3>2 DEF PortInv, PortsTypeOK, State
    <3>5. ASSUME NEW m \in Runner PROVE ApiOK(m)' /\ \A s \in Service \ {"api"} : BesideOK(m, s)'
      BY <1>1, <1>2, <2>1, <3>1, <3>3 DEF ApiOK, BesideOK
    <3> QED  BY <3>2, <3>4, <3>5 DEF PortInv
  <2>3. CASE ~Free(aimed[n]["api"])
    <3> DEFINE q == aimed[n]["api"] + 1
    <3>1. /\ aimed' = [aimed EXCEPT ![n]["api"] = q] /\ UNCHANGED <<holder, task>>
          /\ task' = [task EXCEPT ![n]["api"] = "due"]
      BY <1>2, <1>4, <2>1, <2>3 DEF TryApiPort
    <3>2. q \in Preferred[n]..(Preferred[n] + Tries + 1) /\ q \in Port
      <4>1. aimed[n]["api"] \in Preferred[n]..(Preferred[n] + Tries + 1)
        BY <1>1 DEF ApiOK
      <4>2. q \in Preferred[n]..(Preferred[n] + Tries + 1) /\ q \in Preferred[n]..(Preferred[n] + Tries + 2)
        BY <2>1, <4>1, ApiPortsExist, ServicesAssumption
      <4> QED  BY <4>2, ApiPortsExist
    <3> HIDE DEF q
    <3>3. \A m \in Runner, s \in Service :
            aimed'[m][s] = IF m = n /\ s = "api" THEN q ELSE aimed[m][s]
      BY <1>2, <3>1
    <3>4. Held'
      BY <1>2, <2>1, <3>1, <3>2, OthersAreHeld DEF State
    <3>5. PortsTypeOK' /\ SavedOK'
      BY <1>2, <2>1, <3>1, <3>2 DEF PortInv, PortsTypeOK, SavedOK
    <3>6. ASSUME NEW m \in Runner PROVE ApiOK(m)' /\ \A s \in Service \ {"api"} : BesideOK(m, s)'
      BY <1>1, <2>1, <3>1, <3>2, <3>3 DEF ApiOK, BesideOK
    <3> QED  BY <3>4, <3>5, <3>6 DEF PortInv
  <2> QED  BY <2>2, <2>3
<1>5. ASSUME NEW n \in Runner, WriteApiAddr(n) PROVE PortInv'
  <2>1. /\ task[n]["api"] = "listening" /\ UNCHANGED <<holder, aimed, apiFile, starts, leftover, early>>
        /\ apiAddr' = [apiAddr EXCEPT ![n] = aimed[n]["api"]]
        /\ task' = [task EXCEPT ![n]["api"] = "bound"]
    BY <1>5 DEF WriteApiAddr
  <2>2. Held'
    BY <1>2, <2>1, OnwardIsHeld DEF State
  <2>3. PortsTypeOK' /\ SavedOK'
    BY <1>2, <2>1 DEF PortInv, PortsTypeOK, SavedOK, State
  <2>4. /\ \A m \in Runner, s \in Service :
             task'[m][s] = IF m = n /\ s = "api" THEN "bound" ELSE task[m][s]
        /\ \A m \in Runner : apiAddr'[m] = IF m = n THEN aimed[n]["api"] ELSE apiAddr[m]
        /\ aimed[n]["api"] \in Preferred[n]..(Preferred[n] + Tries)
    <3>1. aimed[n]["api"] \in Preferred[n]..(Preferred[n] + Tries + 1) /\ aimed[n]["api"] <= Preferred[n] + Tries
      BY <1>1, <2>1 DEF ApiOK
    <3> QED  BY <1>2, <2>1, <3>1, ApiPortsExist, ServicesAssumption
  <2>5. ASSUME NEW m \in Runner PROVE ApiOK(m)' /\ \A s \in Service \ {"api"} : BesideOK(m, s)'
    BY <1>1, <1>2, <2>1, <2>4 DEF ApiOK, BesideOK
  <2> QED  BY <2>2, <2>3, <2>5 DEF PortInv
<1>6. ASSUME NEW n \in Runner, SaveApiPort(n) PROVE PortInv'
  <2>1. /\ task[n]["api"] = "bound" /\ UNCHANGED <<holder, aimed, apiAddr, starts, early>>
        /\ apiFile' = aimed[n]["api"] /\ leftover' = FALSE
        /\ task' = [task EXCEPT ![n]["api"] = "up"]
    BY <1>6 DEF SaveApiPort
  <2>2. Held'
    BY <1>2, <2>1, OnwardIsHeld DEF State
  <2>3. PortsTypeOK'
    <3>1. apiFile' \in Port /\ task' \in [Runner -> [Service -> State]]
      BY <1>2, <2>1 DEF State
    <3> QED  BY <1>2, <2>1, <3>1 DEF PortInv, PortsTypeOK, State
  <2>4. SavedOK'
    BY <1>2, <2>1 DEF PortInv, Held, SavedOK
  <2>5. \A m \in Runner, s \in Service :
          task'[m][s] = IF m = n /\ s = "api" THEN "up" ELSE task[m][s]
    BY <1>2, <2>1
  <2>6. ASSUME NEW m \in Runner PROVE ApiOK(m)' /\ \A s \in Service \ {"api"} : BesideOK(m, s)'
    BY <1>1, <1>2, <2>1, <2>5 DEF ApiOK, BesideOK
  <2> QED  BY <2>2, <2>3, <2>4, <2>6 DEF PortInv
<1>7. ASSUME NEW n \in Runner, NEW s \in Service \ {"api"}, NEW distance \in 1..2,
             AimBeside(n, s, distance)
      PROVE  PortInv'
  <2> DEFINE q == apiAddr[n] + distance
  <2>1. q \in Port /\ apiAddr[n] < q
    <3>1. apiAddr[n] \in Preferred[n]..(Preferred[n] + Tries)
      BY <1>1 DEF ApiOK
    <3>2. q \in Preferred[n]..(Preferred[n] + Tries + 2) /\ apiAddr[n] < q
      BY <3>1, ApiPortsExist, ServicesAssumption
    <3> QED  BY <3>2, ApiPortsExist
  <2> HIDE DEF q
  <2>2. /\ task[n][s] = "due" /\ task' = [task EXCEPT ![n][s] = "aimed"]
        /\ aimed' = [aimed EXCEPT ![n][s] = q]
        /\ UNCHANGED <<holder, apiAddr, apiFile, starts, leftover>>
    BY <1>7 DEF AimBeside, Beside, q
  <2>3. /\ early \subseteq early' /\ early' \subseteq Runner
        /\ n \notin early' => task[n]["api"] \notin {"due", "listening"}
    BY <1>2, <1>7 DEF AimBeside
  <2>4. Held'
    BY <2>1, <2>2, OthersAreHeld DEF State
  <2>5. PortsTypeOK' /\ SavedOK'
    BY <1>2, <2>1, <2>2, <2>3 DEF PortInv, PortsTypeOK, SavedOK, State
  <2>6. \A m \in Runner, r \in Service :
          /\ task'[m][r] = IF m = n /\ r = s THEN "aimed" ELSE task[m][r]
          /\ aimed'[m][r] = IF m = n /\ r = s THEN q ELSE aimed[m][r]
    BY <1>2, <2>2
  <2>7. task[n]["api"] \in State \ {"aimed", "failed"}
    BY <1>1, <1>2 DEF ApiOK
  <2>8. ASSUME NEW m \in Runner PROVE ApiOK(m)'
    BY <1>1, <1>2, <2>2, <2>6 DEF ApiOK
  <2>9. ASSUME NEW m \in Runner, NEW r \in Service \ {"api"} PROVE BesideOK(m, r)'
    <3>1. CASE m = n /\ r = s
      BY <1>2, <2>1, <2>2, <2>3, <2>6, <2>7, <3>1 DEF BesideOK, State
    <3>2. CASE ~(m = n /\ r = s)
      BY <1>1, <1>2, <2>2, <2>3, <2>6, <3>2 DEF BesideOK
    <3> QED  BY <3>1, <3>2
  <2> QED  BY <2>4, <2>5, <2>8, <2>9 DEF PortInv
<1>8. ASSUME NEW n \in Runner, NEW s \in Service \ {"api"}, BindBeside(n, s) PROVE PortInv'
  <2>1. task[n][s] = "aimed" /\ UNCHANGED <<aimed, apiAddr, apiFile, starts, leftover, early>>
    BY <1>8 DEF BindBeside
  <2>2. PICK t \in {"up", "failed"} :
          /\ task' = [task EXCEPT ![n][s] = t]
          /\ \/ t = "up" /\ Free(aimed[n][s]) /\ Take(aimed[n][s], n, s)
             \/ t = "failed" /\ UNCHANGED holder
    BY <1>8 DEF BindBeside
  <2>3. /\ Held' /\ SavedOK'
        /\ holder' \in [Port -> [node : Runner, service : Service] \cup {Nobody}]
    <3>1. CASE t = "up"
      BY <2>1, <2>2, <3>1, TakenIsHeld
    <3>2. CASE t = "failed"
      <4>1. UNCHANGED holder
        BY <2>2, <3>2
      <4>2. Held'
        BY <1>2, <2>1, <2>2, <3>2, <4>1, OnwardIsHeld DEF State
      <4> QED  BY <1>2, <2>1, <4>1, <4>2 DEF PortInv, SavedOK
    <3> QED  BY <3>1, <3>2
  <2>4. PortsTypeOK'
    BY <1>2, <2>1, <2>2, <2>3 DEF PortInv, PortsTypeOK, State
  <2>5. \A m \in Runner, r \in Service : task'[m][r] = IF m = n /\ r = s THEN t ELSE task[m][r]
    BY <1>2, <2>2
  <2>6. ASSUME NEW m \in Runner PROVE ApiOK(m)' /\ \A r \in Service \ {"api"} : BesideOK(m, r)'
    BY <1>1, <1>2, <2>1, <2>5 DEF ApiOK, BesideOK
  <2> QED  BY <2>3, <2>4, <2>6 DEF PortInv
<1>9. ASSUME NEW n \in Runner, NEW s \in Service, StopService(n, s) PROVE PortInv'
  <2>1. /\ task' = [task EXCEPT ![n][s] = "off"] /\ aimed' = [aimed EXCEPT ![n][s] = Preferred[n]]
        /\ UNCHANGED <<apiAddr, apiFile, starts, early>> /\ leftover' \in BOOLEAN
    BY <1>2, <1>9 DEF StopService
  <2>2. Preferred[n] \in Port /\ Preferred[n] \in Preferred[n]..(Preferred[n] + Tries + 1)
    BY ApiPortsExist, ServicesAssumption
  <2>3. \A m \in Runner, r \in Service :
          /\ task'[m][r] = IF m = n /\ r = s THEN "off" ELSE task[m][r]
          /\ aimed'[m][r] = IF m = n /\ r = s THEN Preferred[n] ELSE aimed[m][r]
    BY <1>2, <2>1
  <2>4. /\ Held' /\ SavedOK'
        /\ holder' \in [Port -> [node : Runner, service : Service] \cup {Nobody}]
    BY <1>9, StoppedIsNotHeld
  <2>5. PortsTypeOK'
    BY <1>2, <2>1, <2>2, <2>4 DEF PortInv, PortsTypeOK, State
  <2>6. ASSUME NEW m \in Runner PROVE ApiOK(m)' /\ \A r \in Service \ {"api"} : BesideOK(m, r)'
    BY <1>1, <1>2, <2>1, <2>2, <2>3 DEF ApiOK, BesideOK
  <2> QED  BY <2>4, <2>5, <2>6 DEF PortInv
<1>10. CASE UNCHANGED servicesVars
  BY <1>10 DEF servicesVars, PortInv, PortsTypeOK, Held, SavedOK, ApiOK, BesideOK
<1>11. {"gateway", "messenger"} = Service \ {"api"} /\ 1 \in 1..2 /\ 2 \in 1..2
  BY DEF Service
<1> QED
  BY <1>3, <1>4, <1>5, <1>6, <1>7, <1>8, <1>9, <1>10, <1>11 DEF ServicesNext

\* The port that is found, when it is not the saved one, is the default one or
\* the lowest of the scanned ones that something listens on.
LEMMA FoundIsLowest ==
  ASSUME ~Answers(apiFile), ApiFound # NoPort
  PROVE  /\ Answers(ApiFound)
         /\ \/ ApiFound = Default
            \/ /\ ApiFound \in Scanned /\ ~Answers(Default)
               /\ \A q \in Scanned : q < ApiFound => ~Answers(q)
<1>1. CASE Answers(Default)
  BY <1>1 DEF ApiFound
<1>2. CASE ~Answers(Default)
  <2> DEFINE met == {p \in Scanned : Answers(p)}
             R   == {ss \in Nat \X Nat : ss[1] < ss[2]}
  <2>1. /\ met # {}
        /\ ApiFound = CHOOSE p \in Scanned : Answers(p) /\ \A q \in Scanned : q < p => ~Answers(q)
    BY <1>2 DEF ApiFound
  <2>2. met \subseteq Nat /\ IsWellFoundedOn(R, Nat)
    BY ServicesAssumption, NatLessThanWellFounded DEF OpToRel
  <2>3. PICK p \in met : \A q \in met : ~(<<q, p>> \in R)
    BY <2>1, <2>2, WFMin, Zenon
  <2>4. ASSUME NEW q \in Scanned, q < p PROVE ~Answers(q)
    BY <2>2, <2>3, <2>4
  <2> QED  BY <1>2, <2>1, <2>3, <2>4
<1> QED  BY <1>1, <1>2

\* The command line takes another service for an API only for the reasons named
\* (get_api_port): an API that lies within the ports it tries, had said which it
\* has when its gateway asked, and runs, is met before the gateway.
THEOREM ApisAreFound == ServicesSpec => []FindsApi
<1>1. ASSUME PortInv PROVE FindsApi
  <2> DEFINE p == ApiFound
             n == holder[p].node
  <2> SUFFICES ASSUME p # NoPort, holder[p].service # "api"
               PROVE  \/ p = apiFile /\ leftover
                      \/ p # apiFile /\ (apiAddr[n] < Default \/ n \in early \/ task[n]["api"] = "off")
    BY DEF FindsApi
  <2>1. CASE Answers(apiFile)
    <3>1. p = apiFile
      BY <2>1 DEF ApiFound
    <3>2. apiFile \in Port
      BY <2>1 DEF Answers
    <3>4. apiFile # NoPort
      BY <3>2, ApiPortsExist, ServicesAssumption DEF Port
    <3>5. ~leftover => \E m \in Runner : holder[apiFile] = ListenedTo(m, "api")
      BY <1>1, <3>4 DEF PortInv, SavedOK
    <3>6. \A m \in Runner : ListenedTo(m, "api").service = "api"
      BY DEF ListenedTo
    <3> QED  BY <3>1, <3>5, <3>6
  <2>2. CASE ~Answers(apiFile)
    <3>1. /\ Answers(p)
          /\ \/ p = Default
             \/ /\ p \in Scanned /\ ~Answers(Default)
                /\ \A q \in Scanned : q < p => ~Answers(q)
      BY <2>2, FoundIsLowest
    <3> HIDE DEF p
    <3>2. p # apiFile
      BY <2>2, <3>1
    <3>3. n \in Runner /\ holder[p].service \in Service /\ holder[p] = ListenedTo(n, holder[p].service)
      BY <1>1, <3>1 DEF Answers, Free, PortInv, PortsTypeOK, ListenedTo
    <3>4. p \in Port /\ p \in Nat /\ apiAddr[n] \in Port /\ apiAddr[n] \in Nat /\ Default \in Nat
      BY <1>1, <3>1, <3>3, ApiPortsExist, ServicesAssumption DEF Answers, PortInv, PortsTypeOK
    <3>5. ASSUME n \notin early, task[n]["api"] # "off", holder[p].service # "api"
          PROVE  Answers(apiAddr[n]) /\ apiAddr[n] < p
      <4> DEFINE s == holder[p].service
      <4>1. s \in Service \ {"api"} /\ BesideOK(n, s) /\ ApiOK(n) /\ "api" \in Service
        BY <1>1, <3>3, <3>5 DEF PortInv, Service
      <4>2. task[n][s] \in Holding /\ aimed[n][s] = p
        BY <1>1, <3>3, <3>4 DEF PortInv, Held
      <4>3. task[n]["api"] \in {"bound", "up"} /\ apiAddr[n] < p
        BY <3>5, <4>1, <4>2 DEF BesideOK, Holding
      <4>4. holder[apiAddr[n]] = ListenedTo(n, "api")
        BY <1>1, <3>3, <3>4, <4>1, <4>3 DEF PortInv, Held, ApiOK, Holding
      <4> QED  BY <3>3, <3>4, <4>1, <4>3, <4>4, ListenersDiffer DEF Answers, Free
    <3>6. ASSUME n \notin early, task[n]["api"] # "off", holder[p].service # "api",
                 ~(apiAddr[n] < Default)
          PROVE  FALSE
      <4>1. p # Default
        BY <3>4, <3>5, <3>6
      <4>2. apiAddr[n] \in Scanned
        BY <3>1, <3>4, <3>5, <3>6, <4>1, ServicesAssumption
      <4> QED  BY <3>1, <3>5, <3>6, <4>1, <4>2
    <3> QED  BY <3>2, <3>6
  <2> QED  BY <2>1, <2>2
<1> QED  BY <1>1, PortsInitially, PortsStep, PTL DEF ServicesSpec

-----------------------------------------------------------------------------
(* Contact traces.                                                         *)

LEMMA JourneysUnfold ==
  ASSUME TraceTypeOK, NEW kind \in Kind
  PROVE  /\ Journeys[0][kind] = {[at |-> msg.src, when |-> msg.gen]}
         /\ \A k \in Nat : Journeys[k + 1][kind] = Extended(kind, Journeys[k][kind])
         /\ \A k \in Nat : Journeys[k][kind] \subseteq JourneyEnd
<1> DEFINE V    == [Kind -> SUBSET JourneyEnd]
           base == [q \in Kind |-> {[at |-> msg.src, when |-> msg.gen]}]
           step == [v \in V |-> [q \in Kind |-> Extended(q, v[q])]]
           body(J) == [k \in Nat |-> [q \in Kind |->
                         IF k = 0 THEN {[at |-> msg.src, when |-> msg.gen]}
                         ELSE Extended(q, J[k - 1][q])]]
<1>1. base \in V
  BY DEF TraceTypeOK, JourneyEnd
<1>2. step \in [V -> V]
  <2>1. \A q \in Kind, E \in SUBSET JourneyEnd : Extended(q, E) \in SUBSET JourneyEnd
    BY DEF Extended
  <2> QED  BY <2>1
<1> HIDE DEF base, step, V
<1>3. PICK f \in [Nat -> V] : f[0] = base /\ \A n \in Nat : f[n + 1] = step[f[n]]
  BY <1>1, <1>2, IterationExists
<1>4. f = body(f)
  <2>1. ASSUME NEW k \in Nat PROVE f[k] = body(f)[k]
    <3>1. CASE k = 0
      BY <1>3, <3>1 DEF base
    <3>2. CASE k # 0
      <4>1. k - 1 \in Nat /\ (k - 1) + 1 = k
        BY <3>2
      <4>2. f[k] = step[f[k - 1]] /\ f[k - 1] \in V
        BY <1>3, <4>1
      <4>3. step[f[k - 1]] = [q \in Kind |-> Extended(q, f[k - 1][q])]
        BY <4>2 DEF step
      <4> QED  BY <3>2, <4>2, <4>3
    <3> QED  BY <3>1, <3>2
  <2> QED  BY <1>3, <2>1
<1>5. Journeys = body(Journeys)
  BY <1>4 DEF Journeys
<1>6. \A k \in Nat, q \in Kind :
        Journeys[k][q] = IF k = 0 THEN {[at |-> msg.src, when |-> msg.gen]}
                         ELSE Extended(q, Journeys[k - 1][q])
  <2> DEFINE J == Journeys
  <2>1. J = body(J)
    BY <1>5
  <2> HIDE DEF J
  <2>2. \A k \in Nat, q \in Kind : J[k][q] = body(J)[k][q]
    BY <2>1
  <2>3. \A k \in Nat, q \in Kind :
          J[k][q] = IF k = 0 THEN {[at |-> msg.src, when |-> msg.gen]}
                    ELSE Extended(q, J[k - 1][q])
    BY <2>2
  <2> QED  BY <2>3 DEF J
<1>7. ASSUME NEW k \in Nat PROVE Journeys[k + 1][kind] = Extended(kind, Journeys[k][kind])
  <2>1. k + 1 \in Nat /\ k + 1 # 0 /\ (k + 1) - 1 = k
    OBVIOUS
  <2> QED  BY <1>6, <2>1
<1>8. Journeys[0][kind] = {[at |-> msg.src, when |-> msg.gen]}
  BY <1>6
<1> DEFINE typed == {k \in Nat : Journeys[k][kind] \subseteq JourneyEnd}
<1>9. \A k \in Nat : k \in typed
  <2>1. 0 \in typed
    BY <1>8 DEF TraceTypeOK, JourneyEnd
  <2>2. ASSUME NEW k \in Nat, k \in typed PROVE k + 1 \in typed
    BY <1>7, <2>2 DEF Extended
  <2> HIDE DEF typed
  <2> QED  BY <2>1, <2>2, NatSetInduction
<1> QED  BY <1>7, <1>8, <1>9

LEMMA TraceTypes ==
  ASSUME TraceTypeOK
  PROVE  /\ DOMAIN contacts = 1..Len(contacts) /\ Len(contacts) \in Nat
         /\ \A k \in DOMAIN contacts :
              /\ contacts[k] \in Contact
              /\ contacts[k].start \in Time /\ contacts[k].end \in Time
              /\ contacts[k].start < contacts[k].end
              /\ contacts[k].a \in Point /\ contacts[k].b \in Point
              /\ contacts[k].a # contacts[k].b
         /\ Time \subseteq Nat /\ Infinity \in Nat /\ \A t \in Time : t < Infinity
         /\ msg.gen \in Time /\ msg.src \in Point /\ msg.dst \in Point
         /\ seen \in Nat /\ seen <= Len(contacts)
         /\ \A x \in Point : arrival[x] \in Time \cup {Infinity}
<1>1. /\ DOMAIN contacts = 1..Len(contacts) /\ Len(contacts) \in Nat
      /\ \A k \in DOMAIN contacts : contacts[k] \in Contact
  <2>1. PICK n \in 1..MaxContacts : contacts \in [1..n -> Contact]
    BY DEF TraceTypeOK, Trace
  <2>2. Len(contacts) = n /\ n \in Nat
    BY <2>1, TraceAssumption
  <2> QED  BY <2>1, <2>2
<1>2. ASSUME NEW k \in DOMAIN contacts
      PROVE  /\ contacts[k].start \in Time /\ contacts[k].end \in Time
             /\ contacts[k].start < contacts[k].end
             /\ contacts[k].a \in Point /\ contacts[k].b \in Point
             /\ contacts[k].a # contacts[k].b
  <2>1. contacts[k] \in Contact
    BY <1>1
  <2>2. contacts[k].a \in Int /\ contacts[k].b \in Int
    BY <2>1, TraceAssumption DEF Contact
  <2> QED  BY <2>1, <2>2 DEF Contact
<1>3. Time \subseteq Nat /\ Infinity \in Nat /\ \A t \in Time : t < Infinity
  BY TraceAssumption DEF Time, Infinity
<1> QED  BY <1>1, <1>2, <1>3 DEF TraceTypeOK

\* Starts are sorted as a whole, though only neighbours are compared.
LEMMA StartsAreSorted ==
  ASSUME TraceTypeOK, NEW i \in DOMAIN contacts, NEW j \in DOMAIN contacts, i <= j
  PROVE  contacts[i].start <= contacts[j].start
<1>1. /\ DOMAIN contacts = 1..Len(contacts) /\ Len(contacts) \in Nat
      /\ \A k \in DOMAIN contacts : contacts[k].start \in Nat
      /\ \A k \in 1..(Len(contacts) - 1) : contacts[k].start <= contacts[k + 1].start
  BY TraceTypes DEF TraceTypeOK, Trace
<1> DEFINE far == {n \in Nat : i + n \in DOMAIN contacts => contacts[i].start <= contacts[i + n].start}
<1>3. 0 \in far
  BY <1>1
<1>4. ASSUME NEW n \in Nat, n \in far PROVE n + 1 \in far
  <2> SUFFICES ASSUME i + (n + 1) \in DOMAIN contacts
               PROVE  contacts[i].start <= contacts[i + (n + 1)].start
    OBVIOUS
  <2>1. i + n \in 1..(Len(contacts) - 1) /\ (i + n) + 1 = i + (n + 1) /\ i + n \in DOMAIN contacts
    BY <1>1
  <2>2. contacts[i].start <= contacts[i + n].start
    BY <1>4, <2>1
  <2>3. contacts[i + n].start <= contacts[i + (n + 1)].start
    BY <1>1, <2>1
  <2> QED  BY <1>1, <2>1, <2>2, <2>3
<1> HIDE DEF far
<1>5. \A n \in Nat : n \in far
  BY <1>3, <1>4, NatSetInduction
<1>6. j - i \in Nat /\ i + (j - i) = j
  BY <1>1
<1>7. j - i \in far
  BY <1>5, <1>6
<1> QED  BY <1>6, <1>7 DEF far

LEMMA JourneysGrow ==
  ASSUME TraceTypeOK, NEW kind \in Kind, NEW m \in Nat, NEW n \in Nat, m <= n
  PROVE  Journeys[m][kind] \subseteq Journeys[n][kind]
<1> DEFINE far == {d \in Nat : Journeys[m][kind] \subseteq Journeys[m + d][kind]}
<1>1. 0 \in far
  OBVIOUS
<1>2. ASSUME NEW d \in Nat, d \in far PROVE d + 1 \in far
  <2>1. m + d \in Nat /\ (m + d) + 1 = m + (d + 1)
    OBVIOUS
  <2>2. Journeys[m + (d + 1)][kind] = Extended(kind, Journeys[m + d][kind])
    BY <2>1, JourneysUnfold
  <2> QED  BY <1>2, <2>2 DEF Extended
<1> HIDE DEF far
<1>3. \A d \in Nat : d \in far
  BY <1>1, <1>2, NatSetInduction
<1>4. n - m \in Nat /\ m + (n - m) = n
  OBVIOUS
<1>5. n - m \in far
  BY <1>3, <1>4
<1> QED  BY <1>4, <1>5 DEF far

\* A set that has the beginning, and every end that a contact more makes of an
\* end it has, has the ends of all journeys.
LEMMA JourneysWithin ==
  ASSUME TraceTypeOK, NEW kind \in Kind, NEW P,
         [at |-> msg.src, when |-> msg.gen] \in P, Extended(kind, P) \subseteq P
  PROVE  \A k \in Nat : Journeys[k][kind] \subseteq P
<1> DEFINE within == {k \in Nat : Journeys[k][kind] \subseteq P}
<1>1. 0 \in within
  BY JourneysUnfold
<1>2. ASSUME NEW k \in Nat, k \in within PROVE k + 1 \in within
  <2>1. Journeys[k + 1][kind] = Extended(kind, Journeys[k][kind])
    BY JourneysUnfold
  <2>2. Journeys[k][kind] \subseteq P
    BY <1>2
  <2>3. Extended(kind, Journeys[k][kind]) \subseteq Extended(kind, P)
    BY <2>2 DEF Extended
  <2> QED  BY <2>1, <2>3
<1> HIDE DEF within
<1>3. \A k \in Nat : k \in within
  BY <1>1, <1>2, NatSetInduction
<1> QED  BY <1>3 DEF within

\* What the oracle claims a journey has; what holds a copy was reached by the
\* time of any contact that can still pass it on; with contacts that do not
\* overlap, journeys that end before the contacts left begin were found.
Reached ==
  \A x \in Point : arrival[x] # Infinity =>
     [at |-> x, when |-> arrival[x]] \in Journeys[seen]["closed"]

CopiesReached ==
  \A s \in Strategy : \A y \in copies[s], i \in (seen + 1)..Len(contacts) :
     msg.gen <= contacts[i].start => arrival[y] <= contacts[i].start

DeliveredAfter == \A s \in Strategy : deliveredAt[s] >= arrival[msg.dst]

Before(t) == \A i \in (seen + 1)..Len(contacts) : t < contacts[i].start

JourneysFound ==
  Disjoint => \A k \in Nat : \A e \in Journeys[k]["open"] :
                 Before(e.when) => arrival[e.at] <= e.when

TraceInv ==
  /\ TraceTypeOK
  /\ arrival[msg.src] <= msg.gen
  /\ Reached /\ CopiesReached /\ DeliveredAfter /\ JourneysFound

\* What one contact makes of the arrivals.
LEMMA ArrivalsAfter ==
  ASSUME TraceTypeOK, seen < Len(contacts), NEW c, c = contacts[seen + 1]
  PROVE  /\ NextArrival(c) \in [Point -> Time \cup {Infinity}]
         /\ \A x \in Point : NextArrival(c)[x] <= arrival[x]
         /\ \A x \in Point : NextArrival(c)[x] # arrival[x] =>
              \E y \in Point : /\ {y, x} = {c.a, c.b} /\ arrival[y] <= c.end
                               /\ NextArrival(c)[x] = Later(c.start, arrival[y])
         /\ \A x, y \in Point :
              msg.gen <= c.end /\ {y, x} = {c.a, c.b} /\ arrival[y] <= c.end =>
                 NextArrival(c)[x] <= Later(c.start, arrival[y])
<1>1. /\ seen + 1 \in DOMAIN contacts /\ c.start \in Time /\ c.end \in Time /\ msg.gen \in Time
      /\ c.a \in Point /\ c.b \in Point /\ c.a # c.b /\ c.start < c.end
      /\ Time \subseteq Nat /\ Infinity \in Nat /\ \A t \in Time : t < Infinity
      /\ arrival \in [Point -> Time \cup {Infinity}]
  BY TraceTypes DEF TraceTypeOK
<1> DEFINE new == NextArrival(c)
<1>2. ASSUME NEW x \in Point, NEW y \in Point, arrival[x] <= c.end
      PROVE  /\ Later(c.start, arrival[x]) \in Time
             /\ Relaxed(arrival, c, x, y) \in {arrival[y], Later(c.start, arrival[x])}
             /\ Relaxed(arrival, c, x, y) <= arrival[y]
             /\ Relaxed(arrival, c, x, y) <= Later(c.start, arrival[x])
  <2>1. arrival[x] \in Time /\ arrival[y] \in Nat
    BY <1>1, <1>2
  <2>2. Later(c.start, arrival[x]) \in Time
    BY <1>1, <2>1 DEF Later
  <2> HIDE DEF Later
  <2>3. Relaxed(arrival, c, x, y) = Earlier(arrival[y], Later(c.start, arrival[x]))
    BY <1>2 DEF Relaxed, Crosses
  <2> QED  BY <1>1, <2>1, <2>2, <2>3 DEF Earlier
<1>3. ASSUME NEW x \in Point, NEW y \in Point, ~(arrival[x] <= c.end)
      PROVE  Relaxed(arrival, c, x, y) = arrival[y]
  BY <1>3 DEF Relaxed
<1>4. CASE c.end < msg.gen
  <2>1. new = arrival
    BY <1>4 DEF NextArrival
  <2>2. \A x \in Point : arrival[x] \in Nat
    BY <1>1
  <2>3. ~(msg.gen <= c.end)
    <3>1. msg.gen \in Nat /\ c.end \in Nat
      BY <1>1
    <3> QED  BY <1>4, <3>1
  <2> HIDE DEF new
  <2>4. new \in [Point -> Time \cup {Infinity}] /\ \A x \in Point : new[x] <= arrival[x]
    BY <1>1, <2>1, <2>2
  <2> QED  BY <2>1, <2>3, <2>4 DEF new
<1>5. CASE ~(c.end < msg.gen)
  <2>1. \A x \in Point : new[x] = IF x = c.b THEN Relaxed(arrival, c, c.a, c.b)
                                  ELSE IF x = c.a THEN Relaxed(arrival, c, c.b, c.a)
                                  ELSE arrival[x]
    BY <1>1, <1>5 DEF NextArrival
  <2>2. ASSUME NEW x \in Point PROVE new[x] \in Time \cup {Infinity} /\ new[x] <= arrival[x]
    <3>1. ASSUME NEW y \in Point, NEW z \in Point
          PROVE  /\ Relaxed(arrival, c, y, z) \in Time \cup {Infinity}
                 /\ Relaxed(arrival, c, y, z) <= arrival[z]
      <4>1. arrival[z] \in Time \cup {Infinity} /\ arrival[z] \in Nat
        BY <1>1
      <4> QED  BY <1>2, <1>3, <4>1
    <3>2. arrival[x] \in Time \cup {Infinity} /\ arrival[x] \in Nat
      BY <1>1
    <3> QED  BY <1>1, <2>1, <3>1, <3>2
  <2>3. new \in [Point -> Time \cup {Infinity}]
    BY <1>1, <1>5, <2>1, <2>2 DEF NextArrival
  <2>4. ASSUME NEW x \in Point, new[x] # arrival[x]
        PROVE  \E y \in Point : /\ {y, x} = {c.a, c.b} /\ arrival[y] <= c.end
                                /\ new[x] = Later(c.start, arrival[y])
    <3>1. CASE x = c.b
      BY <1>1, <1>2, <1>3, <2>1, <2>4, <3>1
    <3>2. CASE x = c.a
      BY <1>1, <1>2, <1>3, <2>1, <2>4, <3>2
    <3> QED  BY <2>1, <2>4, <3>1, <3>2
  <2>5. ASSUME NEW x \in Point, NEW y \in Point, {y, x} = {c.a, c.b}, arrival[y] <= c.end
        PROVE  new[x] <= Later(c.start, arrival[y])
    <3>1. (x = c.a /\ y = c.b) \/ (x = c.b /\ y = c.a)
      BY <2>5
    <3> QED  BY <1>1, <1>2, <2>1, <2>5, <3>1
  <2> HIDE DEF new
  <2>6. \A x \in Point : new[x] <= arrival[x]
    BY <2>2
  <2>7. \A x \in Point : new[x] # arrival[x] =>
          \E y \in Point : /\ {y, x} = {c.a, c.b} /\ arrival[y] <= c.end
                           /\ new[x] = Later(c.start, arrival[y])
    BY <2>4
  <2>8. \A x, y \in Point :
          msg.gen <= c.end /\ {y, x} = {c.a, c.b} /\ arrival[y] <= c.end =>
             new[x] <= Later(c.start, arrival[y])
    BY <2>5
  <2> QED  BY <2>3, <2>6, <2>7, <2>8 DEF new
<1> QED  BY <1>4, <1>5

LEMMA TraceInitially == TraceInit => TraceInv
<1> SUFFICES ASSUME TraceInit PROVE TraceInv
  OBVIOUS
<1>1. Time \subseteq Nat /\ Infinity \in Nat /\ Infinity \notin Time
  BY TraceAssumption DEF Time, Infinity
<1>2. msg \in [src : Point, dst : Point, gen : Time] /\ msg.src # msg.dst
  BY DEF TraceInit
<1>3. contacts \in Trace /\ Len(contacts) \in Nat /\ DOMAIN contacts = 1..Len(contacts)
  BY DEF TraceInit, Trace
<1>4. TraceTypeOK
  BY <1>1, <1>2, <1>3 DEF TraceInit, TraceTypeOK
<1>5. \A x \in Point : arrival[x] = IF x = msg.src THEN msg.gen ELSE Infinity
  BY DEF TraceInit
<1>6. Reached
  BY <1>1, <1>2, <1>4, <1>5, JourneysUnfold DEF TraceInit, Reached, Kind
<1>7. /\ msg.gen \in Nat /\ arrival[msg.src] = msg.gen /\ arrival[msg.dst] = Infinity
      /\ \A q \in Strategy : copies[q] = {msg.src} /\ deliveredAt[q] = Infinity
  BY <1>1, <1>2, <1>5 DEF TraceInit
<1>9. CopiesReached /\ DeliveredAfter /\ arrival[msg.src] <= msg.gen
  BY <1>1, <1>7 DEF CopiesReached, DeliveredAfter
<1>8. JourneysFound
  <2> DEFINE P == {e \in JourneyEnd : Before(e.when) => arrival[e.at] <= e.when}
  <2>1. [at |-> msg.src, when |-> msg.gen] \in P
    BY <1>1, <1>2, <1>7 DEF JourneyEnd
  <2>2. ASSUME NEW e \in Extended("open", P) PROVE e \in P
    <3> SUFFICES ASSUME e \notin P PROVE FALSE
      OBVIOUS
    <3>1. PICK i \in DOMAIN contacts, f \in P : e.when = Later(contacts[i].start, f.when)
      BY DEF Extended
    <3>2. contacts[i].start \in Nat /\ f.when \in Nat /\ i \in 1..Len(contacts)
      BY <1>1, <1>4, TraceTypes DEF JourneyEnd
    <3>3. ~(e.when < contacts[i].start)
      BY <3>1, <3>2 DEF Later
    <3>4. e \in JourneyEnd /\ seen = 0
      BY DEF Extended, TraceInit
    <3> QED  BY <3>2, <3>3, <3>4 DEF Before
  <2> HIDE DEF P
  <2>3. \A k \in Nat : Journeys[k]["open"] \subseteq P
    BY <1>4, <2>1, <2>2, JourneysWithin DEF Kind
  <2> QED  BY <2>3 DEF JourneysFound, P
<1> QED  BY <1>4, <1>6, <1>7, <1>8, <1>9 DEF TraceInv

\* What a strategy makes of a contact: nothing, or one more holder, met by one
\* that has a copy.
LEMMA OutcomesOf ==
  ASSUME TraceTypeOK, NEW q \in Strategy, NEW c, NEW out \in Outcomes(q, c)
  PROVE  \/ out = <<copies[q], deliveredAt[q]>>
         \/ \E y \in Point, x \in Point :
               /\ Hands(q, c, x, y)
               /\ out = <<copies[q] \cup {y}, IF y = msg.dst THEN c.start ELSE deliveredAt[q]>>
<1> DEFINE over   == q # "epidemic" /\ deliveredAt[q] # Infinity
           takers == {y \in Point : ~over /\ \E x \in Point : Hands(q, c, x, y)}
           same   == <<copies[q], deliveredAt[q]>>
           gets(y) == <<copies[q] \cup {y}, IF y = msg.dst THEN c.start ELSE deliveredAt[q]>>
<1>1. CASE takers = {}
  BY <1>1 DEF Outcomes
<1>2. CASE takers # {}
  <2>1. out \in UNION {{IF copy THEN gets(y) ELSE same : copy \in MayCopy(q, y)} : y \in takers}
    BY <1>2 DEF Outcomes
  <2>2. PICK y \in takers : out \in {IF copy THEN gets(y) ELSE same : copy \in MayCopy(q, y)}
    BY <2>1
  <2>3. out = gets(y) \/ out = same
    BY <2>2
  <2> QED  BY <2>2, <2>3
<1> QED  BY <1>1, <1>2

LEMMA TraceStep == TraceInv /\ [TraceNext]_traceVars => TraceInv'
<1> SUFFICES ASSUME TraceInv, [TraceNext]_traceVars PROVE TraceInv'
  OBVIOUS
<1>1. CASE UNCHANGED traceVars
  <2>1. /\ UNCHANGED <<contacts, msg, seen, arrival, copies, deliveredAt>>
        /\ Journeys' = Journeys
    BY <1>1 DEF traceVars, Journeys, Extended
  <2>2. TraceTypeOK' /\ arrival'[msg'.src] <= msg'.gen
    BY <2>1 DEF TraceInv, TraceTypeOK
  <2>3. Reached' /\ CopiesReached' /\ DeliveredAfter'
    BY <2>1 DEF TraceInv, Reached, CopiesReached, DeliveredAfter
  <2>4. JourneysFound'
    BY <2>1 DEF TraceInv, JourneysFound, Before, Disjoint
  <2> QED  BY <2>2, <2>3, <2>4 DEF TraceInv
<1>2. CASE ProcessContact
  <2> DEFINE c == contacts[seen + 1]
  <2>1. /\ seen < Len(contacts) /\ seen' = seen + 1 /\ UNCHANGED <<contacts, msg>>
        /\ arrival' = NextArrival(c)
    BY <1>2 DEF ProcessContact
  <2>2. \A q \in Strategy : \E out \in Outcomes(q, c) : copies'[q] = out[1] /\ deliveredAt'[q] = out[2]
    BY <1>2 DEF ProcessContact, Strategy
  <2>3. TraceTypeOK /\ seen + 1 \in DOMAIN contacts /\ seen \in Nat /\ Len(contacts) \in Nat
    BY <2>1, TraceTypes DEF TraceInv
  <2>4. /\ c.start \in Time /\ c.end \in Time /\ msg.gen \in Time /\ c.start < c.end
        /\ c.a \in Point /\ c.b \in Point /\ c.a # c.b
        /\ Time \subseteq Nat /\ Infinity \in Nat /\ \A t \in Time : t < Infinity
        /\ \A x \in Point : arrival[x] \in Time \cup {Infinity}
        /\ msg.src \in Point /\ msg.dst \in Point
    BY <2>3, TraceTypes
  <2> HIDE DEF c
  <2>5. /\ arrival' \in [Point -> Time \cup {Infinity}]
        /\ \A x \in Point : arrival'[x] <= arrival[x]
        /\ \A x \in Point : arrival'[x] # arrival[x] =>
             \E y \in Point : /\ {y, x} = {c.a, c.b} /\ arrival[y] <= c.end
                              /\ arrival'[x] = Later(c.start, arrival[y])
        /\ \A x, y \in Point :
             msg.gen <= c.end /\ {y, x} = {c.a, c.b} /\ arrival[y] <= c.end =>
                arrival'[x] <= Later(c.start, arrival[y])
    BY <2>1, <2>3, ArrivalsAfter DEF c
  <2>6. \A q \in Strategy :
          \/ copies'[q] = copies[q] /\ deliveredAt'[q] = deliveredAt[q]
          \/ \E y \in Point, x \in Point :
               /\ Hands(q, c, x, y) /\ copies'[q] = copies[q] \cup {y}
               /\ deliveredAt'[q] = IF y = msg.dst THEN c.start ELSE deliveredAt[q]
    <3> SUFFICES ASSUME NEW q \in Strategy
                 PROVE  \/ copies'[q] = copies[q] /\ deliveredAt'[q] = deliveredAt[q]
                        \/ \E y \in Point, x \in Point :
                             /\ Hands(q, c, x, y) /\ copies'[q] = copies[q] \cup {y}
                             /\ deliveredAt'[q] = IF y = msg.dst THEN c.start ELSE deliveredAt[q]
      OBVIOUS
    <3>1. PICK out \in Outcomes(q, c) : copies'[q] = out[1] /\ deliveredAt'[q] = out[2]
      BY <2>2
    <3> QED  BY <2>3, <3>1, OutcomesOf
  <2>7. TraceTypeOK'
    <3>1. DOMAIN copies' = Strategy /\ DOMAIN deliveredAt' = Strategy
      BY <1>2 DEF ProcessContact
    <3>2. /\ copies' = [q \in Strategy |-> copies'[q]]
          /\ deliveredAt' = [q \in Strategy |-> deliveredAt'[q]]
      BY <1>2 DEF ProcessContact
    <3>3. \A q \in Strategy : copies'[q] \in SUBSET Point /\ deliveredAt'[q] \in Time \cup {Infinity}
      BY <2>3, <2>4, <2>6 DEF TraceTypeOK
    <3>4. copies' \in [Strategy -> SUBSET Point] /\ deliveredAt' \in [Strategy -> Time \cup {Infinity}]
      BY <3>2, <3>3
    <3> QED  BY <2>1, <2>3, <2>5, <3>4 DEF TraceTypeOK
  <2>8. Journeys' = Journeys
    BY <2>1 DEF Journeys, Extended
  <2>14. /\ c.start \in Nat /\ c.end \in Nat /\ msg.gen \in Nat
         /\ \A x \in Point : arrival[x] \in Nat /\ arrival'[x] \in Nat
    BY <2>4, <2>5
  <2>16. /\ DOMAIN contacts = 1..Len(contacts)
         /\ \A i \in DOMAIN contacts : /\ contacts[i].start \in Nat /\ contacts[i].end \in Nat
                                       /\ contacts[i].start < contacts[i].end
    BY <2>3, <2>4, TraceTypes
  <2>9. arrival'[msg'.src] <= msg'.gen
    <3>1. arrival'[msg.src] <= arrival[msg.src] /\ arrival[msg.src] <= msg.gen
      BY <2>4, <2>5 DEF TraceInv
    <3> QED  BY <2>1, <2>4, <2>14, <3>1
  <2>10. Reached'
    <3> SUFFICES ASSUME NEW x \in Point, arrival'[x] # Infinity
                 PROVE  [at |-> x, when |-> arrival'[x]] \in Journeys[seen + 1]["closed"]
      BY <2>1, <2>8 DEF Reached
    <3>1. Journeys[seen + 1]["closed"] = Extended("closed", Journeys[seen]["closed"])
      BY <2>3, JourneysUnfold DEF Kind
    <3>2. CASE arrival'[x] = arrival[x]
      BY <3>1, <3>2 DEF TraceInv, Reached, Extended
    <3>3. CASE arrival'[x] # arrival[x]
      <4>1. PICK y \in Point : /\ {y, x} = {c.a, c.b} /\ arrival[y] <= c.end
                               /\ arrival'[x] = Later(c.start, arrival[y])
        BY <2>5, <3>3
      <4>2. arrival[y] # Infinity /\ arrival'[x] \in Time
        <5>1. c.end < Infinity /\ arrival[y] \in Nat /\ c.end \in Nat /\ Infinity \in Nat
          BY <2>4, <2>14
        <5> QED  BY <2>5, <4>1, <5>1
      <4> DEFINE f == [at |-> y, when |-> arrival[y]]
                 e == [at |-> x, when |-> arrival'[x]]
      <4>3. f \in Journeys[seen]["closed"]
        BY <4>2 DEF TraceInv, Reached
      <4>4. e \in JourneyEnd
        BY <4>2 DEF JourneyEnd
      <4>5. /\ f.when < c.end \/ f.when = c.end
            /\ {f.at, e.at} = {c.a, c.b} /\ e.when = Later(c.start, f.when)
        BY <2>14, <4>1
      <4> HIDE DEF e, f
      <4>6. e \in Extended("closed", Journeys[seen]["closed"])
        BY <2>3, <4>3, <4>4, <4>5 DEF Extended, c
      <4> QED  BY <3>1, <4>6 DEF e
    <3> QED  BY <3>2, <3>3
  <2>15. ASSUME NEW q \in Strategy, NEW x \in Point, NEW y \in Point, Hands(q, c, x, y)
         PROVE  arrival'[y] <= c.start
    <3>1. msg.gen <= c.start /\ x \in copies[q] /\ {x, y} = {c.a, c.b}
      BY <2>15 DEF Hands
    <3>2. arrival[x] <= c.start
      BY <2>1, <2>3, <3>1 DEF TraceInv, CopiesReached, c
    <3>3. arrival[x] <= c.end /\ msg.gen <= c.end /\ Later(c.start, arrival[x]) = c.start
      BY <2>4, <2>14, <3>1, <3>2 DEF Later
    <3> QED  BY <2>5, <3>1, <3>3
  <2>11. CopiesReached'
    <3> SUFFICES ASSUME NEW q \in Strategy, NEW y \in copies'[q],
                        NEW i \in (seen + 2)..Len(contacts), msg.gen <= contacts[i].start
                 PROVE  arrival'[y] <= contacts[i].start
      BY <2>1, <2>3 DEF CopiesReached
    <3>1. y \in Point
      BY <2>7 DEF TraceTypeOK
    <3>2. /\ i \in DOMAIN contacts /\ i \in (seen + 1)..Len(contacts) /\ seen + 1 <= i
          /\ contacts[i].start \in Nat
      <4>1. i \in 1..Len(contacts) /\ i \in (seen + 1)..Len(contacts) /\ seen + 1 <= i
        BY <2>3
      <4> QED  BY <2>16, <4>1
    <3>3. CASE y \in copies[q]
      <4>1. arrival[y] <= contacts[i].start /\ arrival'[y] <= arrival[y]
        BY <2>5, <3>1, <3>2, <3>3 DEF TraceInv, CopiesReached
      <4> QED  BY <2>14, <3>1, <3>2, <4>1
    <3>4. CASE y \notin copies[q]
      <4>1. arrival'[y] <= c.start
        BY <2>6, <2>15, <3>4
      <4>2. c.start <= contacts[i].start
        BY <2>3, <3>2, StartsAreSorted DEF c
      <4> QED  BY <2>14, <3>1, <3>2, <4>1, <4>2
    <3> QED  BY <3>3, <3>4
  <2>12. DeliveredAfter'
    <3> SUFFICES ASSUME NEW q \in Strategy PROVE deliveredAt'[q] >= arrival'[msg.dst]
      BY <2>1 DEF DeliveredAfter
    <3>1. deliveredAt[q] >= arrival[msg.dst] /\ arrival'[msg.dst] <= arrival[msg.dst]
      BY <2>4, <2>5 DEF TraceInv, DeliveredAfter
    <3>2. deliveredAt[q] \in Nat
      BY <2>3, <2>4 DEF TraceTypeOK
    <3>3. deliveredAt'[q] = deliveredAt[q] \/ (deliveredAt'[q] = c.start /\ arrival'[msg.dst] <= c.start)
      BY <2>6, <2>15
    <3> QED  BY <2>4, <2>14, <3>1, <3>2, <3>3
  <2>13. JourneysFound'
    <3> SUFFICES ASSUME Disjoint
                 PROVE  \A k \in Nat : \A e \in Journeys[k]["open"] :
                          Before(e.when)' => arrival'[e.at] <= e.when
      BY <2>1, <2>8 DEF JourneysFound, Disjoint, Before
    <3> DEFINE Met(x, t) == \E y \in Point : {y, x} = {c.a, c.b} /\ c.start <= t /\ arrival[y] <= t
               After(t) == \A i \in (seen + 2)..Len(contacts) : t < contacts[i].start
               P == {e \in JourneyEnd :
                       /\ \E k \in Nat : e \in Journeys[k]["open"]
                       /\ msg.gen <= e.when
                       /\ e.when < c.end => arrival[e.at] <= e.when \/ Met(e.at, e.when)
                       /\ After(e.when) => arrival'[e.at] <= e.when}
    <3>1. \A t : Before(t)' = After(t)
      BY <2>1, <2>3 DEF Before
    <3>2. ASSUME NEW x \in Point, NEW t \in Nat, msg.gen <= t, t < c.end,
                 arrival[x] <= t \/ Met(x, t)
          PROVE  arrival'[x] <= t
      <4>1. CASE arrival[x] <= t
        BY <2>5, <2>14, <4>1
      <4>2. CASE Met(x, t)
        <5>1. PICK y \in Point : {y, x} = {c.a, c.b} /\ c.start <= t /\ arrival[y] <= t
          BY <4>2
        <5>2. msg.gen <= c.end /\ arrival[y] <= c.end /\ Later(c.start, arrival[y]) <= t
          BY <2>14, <3>2, <5>1 DEF Later
        <5>3. arrival'[x] <= Later(c.start, arrival[y]) /\ Later(c.start, arrival[y]) \in Nat
          BY <2>5, <2>14, <5>1, <5>2 DEF Later
        <5> QED  BY <2>14, <5>2, <5>3
      <4> QED  BY <3>2, <4>1, <4>2
    <3>3. [at |-> msg.src, when |-> msg.gen] \in P
      <4> DEFINE e == [at |-> msg.src, when |-> msg.gen]
      <4>1. e \in JourneyEnd /\ e \in Journeys[0]["open"]
        BY <2>3, <2>4, JourneysUnfold DEF JourneyEnd, Kind
      <4>2. arrival[msg.src] <= msg.gen /\ arrival'[msg.src] <= msg.gen
        BY <2>1, <2>9 DEF TraceInv
      <4> QED  BY <2>14, <4>1, <4>2
    <3>4. ASSUME NEW e \in Extended("open", P), e \notin P PROVE FALSE
      <4>1. PICK i \in DOMAIN contacts, f \in P :
              /\ {f.at, e.at} = {contacts[i].a, contacts[i].b}
              /\ f.when < contacts[i].end
              /\ e.when = Later(contacts[i].start, f.when)
              /\ e \in JourneyEnd
        BY <3>4 DEF Extended
      <4>2. PICK k \in Nat : f \in Journeys[k]["open"]
        OBVIOUS
      <4>3. e \in Journeys[k + 1]["open"]
        <5>1. Journeys[k + 1]["open"] = Extended("open", Journeys[k]["open"])
          BY <2>3, JourneysUnfold DEF Kind
        <5> QED  BY <4>1, <4>2, <5>1 DEF Extended
      <4>4. /\ f.when \in Nat /\ e.when \in Nat /\ e.at \in Point /\ f.at \in Point
            /\ contacts[i].start \in Nat /\ contacts[i].end \in Nat
            /\ contacts[i].start < contacts[i].end /\ i \in 1..Len(contacts)
        <5>1. f.when \in Time /\ e.when \in Time /\ e.at \in Point /\ f.at \in Point
          BY <4>1 DEF JourneyEnd
        <5> QED  BY <2>4, <2>16, <4>1, <5>1
      <4>5. /\ msg.gen <= e.when /\ f.when <= e.when
            /\ contacts[i].start <= e.when /\ e.when < contacts[i].end
        BY <2>14, <4>1, <4>4 DEF Later
      <4>6. CASE i < seen + 1
        <5>1. e.when < c.start
          BY <2>3, <2>14, <4>4, <4>5, <4>6 DEF Disjoint, c
        <5>2. Before(e.when)
          <6> SUFFICES ASSUME NEW j \in (seen + 1)..Len(contacts) PROVE e.when < contacts[j].start
            BY DEF Before
          <6>1. j \in DOMAIN contacts /\ seen + 1 <= j /\ contacts[j].start \in Nat
            <7>1. j \in 1..Len(contacts) /\ seen + 1 <= j
              BY <2>3
            <7> QED  BY <2>16, <7>1
          <6>2. c.start <= contacts[j].start
            BY <2>3, <6>1, StartsAreSorted DEF c
          <6> QED  BY <2>14, <4>4, <5>1, <6>1, <6>2
        <5>3. arrival[e.at] <= e.when
          BY <4>3, <5>2 DEF TraceInv, JourneysFound
        <5>4. arrival'[e.at] <= e.when
          BY <2>5, <2>14, <4>4, <5>3
        <5> QED  BY <3>4, <4>1, <4>3, <4>5, <5>3, <5>4
      <4>7. CASE i = seen + 1
        <5>1. contacts[i] = c
          BY <4>7 DEF c
        <5>2. f.when < c.end /\ e.when < c.end /\ c.start <= e.when /\ {f.at, e.at} = {c.a, c.b}
          BY <4>1, <4>5, <5>1
        <5>3. arrival[f.at] <= f.when \/ Met(f.at, f.when)
          BY <5>2
        <5>4. arrival[e.at] <= e.when \/ Met(e.at, e.when)
          <6>1. CASE arrival[f.at] <= f.when
            <7>1. arrival[f.at] <= e.when
              BY <2>14, <4>4, <4>5, <6>1
            <7> QED  BY <4>4, <5>2, <7>1
          <6>2. CASE Met(f.at, f.when)
            <7>1. PICK y \in Point : {y, f.at} = {c.a, c.b} /\ arrival[y] <= f.when
              BY <6>2
            <7>2. y = e.at
              BY <2>4, <5>2, <7>1
            <7> QED  BY <2>14, <4>4, <4>5, <7>1, <7>2
          <6> QED  BY <5>3, <6>1, <6>2
        <5>5. arrival'[e.at] <= e.when
          BY <3>2, <4>4, <4>5, <5>2, <5>4
        <5>6. \E n \in Nat : e \in Journeys[n]["open"]
          BY <4>3
        <5> HIDE DEF Met, After
        <5> QED  BY <3>4, <4>1, <4>5, <5>4, <5>5, <5>6
      <4>8. CASE i > seen + 1
        <5>1. c.end <= contacts[i].start
          BY <2>3, <4>4, <4>8 DEF Disjoint, c
        <5>2. ~(e.when < c.end)
          BY <2>14, <4>4, <4>5, <5>1
        <5>3. i \in (seen + 2)..Len(contacts) /\ ~(e.when < contacts[i].start)
          BY <2>3, <4>4, <4>5, <4>8
        <5>4. ~After(e.when)
          BY <5>3
        <5> QED  BY <3>4, <4>1, <4>3, <4>5, <5>2, <5>4
      <4> QED  BY <2>3, <4>4, <4>6, <4>7, <4>8
    <3> HIDE DEF P
    <3>5. \A k \in Nat : Journeys[k]["open"] \subseteq P
      BY <2>3, <3>3, <3>4, JourneysWithin DEF Kind
    <3> QED  BY <3>1, <3>5 DEF P
  <2> QED  BY <2>7, <2>9, <2>10, <2>11, <2>12, <2>13 DEF TraceInv
<1> QED  BY <1>1, <1>2 DEF TraceNext

\* The oracle of trace.rs claims no arrival that no journey has, no strategy is
\* ahead of it, and it is the optimum when the contacts do not overlap, for every
\* trace and every message.
THEOREM OracleIsBetween == TraceSpec => []OracleBetween
<1>1. ASSUME TraceInv PROVE OracleBetween
  <2>1. TraceTypeOK /\ seen \in Nat /\ Len(contacts) \in Nat /\ seen <= Len(contacts)
    BY <1>1, TraceTypes DEF TraceInv
  <2>2. Journeys[seen]["closed"] \subseteq Ends("closed")
    BY <2>1, JourneysGrow DEF Ends, Kind
  <2>3. ASSUME Disjoint, seen = Len(contacts) PROVE NoJourneyIsSooner
    <3>1. \A t : Before(t)
      BY <2>1, <2>3 DEF Before
    <3> QED  BY <1>1, <2>1, <2>3, <3>1 DEF TraceInv, JourneysFound, NoJourneyIsSooner, Ends
  <2> QED  BY <1>1, <2>2, <2>3 DEF TraceInv, Reached, DeliveredAfter, OracleBetween
<1> QED  BY <1>1, TraceInitially, TraceStep, PTL DEF TraceSpec

=============================================================================
