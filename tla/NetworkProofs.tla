--------------------------- MODULE NetworkProofs ----------------------------
(***************************************************************************)
(* Theorems about what a node uses to be reached and to stay hidden        *)
(* (NatRelay, Stun, Discovery, HolePunch, Onion), for every value of their *)
(* constants.  Each has an inductive invariant of its own; the parts share *)
(* no state.                                                               *)
(***************************************************************************)
EXTENDS NatRelay, Stun, Discovery, HolePunch, Onion, NaturalsInduction,
        WellFoundedInduction, TLAPS

-----------------------------------------------------------------------------
(* The relay.  An allocation and the set of those who joined grow together. *)

Allocated(t) ==
  LET e == allocations[t] IN
  /\ e.peer_a = NoAddr => joined[t] = {} /\ e.peer_b = NoAddr
  /\ e.peer_a # NoAddr => e.peer_a \in joined[t]
  /\ e.peer_b # NoAddr => e.peer_b \in joined[t] /\ e.peer_b # e.peer_a
  /\ e.peer_b = NoAddr => joined[t] \subseteq {e.peer_a}

RelayInv ==
  /\ NatRelayTypeOK
  /\ \A t \in Token : Allocated(t)
  /\ \A d \in relayOut : d.to # d.from /\ d.to \in joined[d.token]

LEMMA RelayInitially == NatRelayInit => RelayInv
  BY DEF NatRelayInit, RelayInv, NatRelayTypeOK, Allocated, Entry

LEMMA JoinKeepsAllocated ==
  ASSUME RelayInv, NEW t \in Token, NEW peer \in Addr, HandleJoin(t, peer)
  PROVE  /\ allocations' \in [Token -> Entry]
         /\ joined' \in [Token -> SUBSET Addr]
         /\ \A u \in Token : Allocated(u)' /\ joined[u] \subseteq joined'[u]
<1>1. Joined(allocations[t], peer) \in Entry
  BY DEF RelayInv, NatRelayTypeOK, Joined, Entry
<1>2. /\ allocations' \in [Token -> Entry]
      /\ joined' \in [Token -> SUBSET Addr]
  BY <1>1 DEF HandleJoin, RelayInv, NatRelayTypeOK
<1>3. ASSUME NEW u \in Token, u # t
      PROVE  Allocated(u)' /\ joined[u] \subseteq joined'[u]
  BY <1>3 DEF HandleJoin, RelayInv, NatRelayTypeOK, Allocated
<1>4. Allocated(t)' /\ joined[t] \subseteq joined'[t]
  <2>1. /\ allocations'[t] = Joined(allocations[t], peer)
        /\ joined'[t] = joined[t] \cup {peer}
    BY DEF HandleJoin, RelayInv, NatRelayTypeOK
  <2>2. Allocated(t) /\ allocations[t] \in Entry
    BY DEF RelayInv, NatRelayTypeOK
  <2> QED  BY <2>1, <2>2, NatRelayAssumption DEF Joined, Allocated, Entry
<1> QED  BY <1>2, <1>3, <1>4

LEMMA RelayStep == RelayInv /\ [NatRelayNext]_natRelayVars => RelayInv'
<1> SUFFICES ASSUME RelayInv, [NatRelayNext]_natRelayVars
             PROVE  RelayInv'
  OBVIOUS
<1>1. ASSUME NEW t \in Token, NEW a \in Addr, NEW magic \in {"JOIN", "DATA"},
             Send(magic, t, a)
      PROVE  RelayInv'
  BY <1>1 DEF Send, RelayInv, NatRelayTypeOK, Allocated
<1>2. ASSUME NEW t \in Token, NEW a \in Addr, HandleJoin(t, a)
      PROVE  RelayInv'
  BY <1>2, JoinKeepsAllocated DEF HandleJoin, RelayInv, NatRelayTypeOK
<1>3. ASSUME NEW t \in Token, NEW a \in Addr, Forward(t, a)
      PROVE  RelayInv'
  <2> DEFINE to == Dest(allocations[t], a)
  <2>1. to \in Addr /\ to # a /\ to \in joined[t]
    BY <1>3 DEF Forward, RelayInv, NatRelayTypeOK, Allocated, Dest, Entry
  <2> QED  BY <1>3, <2>1 DEF Forward, RelayInv, NatRelayTypeOK, Allocated
<1>4. CASE UNCHANGED natRelayVars
  BY <1>4 DEF natRelayVars, RelayInv, NatRelayTypeOK, Allocated
<1> QED  BY <1>1, <1>2, <1>3, <1>4 DEF NatRelayNext

\* The relay connects the two peers of a token with one another, whatever the
\* network does to their JOINs (handle_join, forward).
THEOREM RelayBridges == NatRelaySpec => []Bridged
<1>1. RelayInv => Bridged
  <2> SUFFICES ASSUME RelayInv PROVE Bridged
    OBVIOUS
  <2>1. ASSUME NEW t \in Token, NEW a \in Addr, NEW b \in Addr, a # b, joined[t] = {a, b}
        PROVE  Dest(allocations[t], a) = b
    BY <2>1, NatRelayAssumption DEF RelayInv, NatRelayTypeOK, Allocated, Dest, Entry
  <2> QED  BY <2>1 DEF Bridged, RelayInv
<1> QED  BY <1>1, RelayInitially, RelayStep, PTL DEF NatRelaySpec

-----------------------------------------------------------------------------
(* STUN.  What may still arrive are answers to the query under way and to  *)
(* those behind a query that was disturbed.                                *)

\* Query p, or one before it, timed out or read a stray datagram.
Disturbed(p) == \E r \in timedOut \cup strayed : r <= p

StunInv ==
  /\ StunTypeOK
  /\ \A p \in asked : p <= query /\ (p < query => Disturbed(p))
  /\ AnswerAttributed

LEMMA StunInitially == StunInit => StunInv
  BY StunAssumption DEF StunInit, StunInv, StunTypeOK, AnswerAttributed, NoAddress

\* Behind the next query lie the answers that are left only.
LEMMA NextQueryKeeps ==
  ASSUME StunInv, NEW left \in SUBSET asked, NextQuery(left)
  PROVE  /\ query' \in 0..(Servers + 1) /\ query < query'
         /\ asked' \subseteq Query
         /\ \A p \in asked' : p <= query' /\ (p < query' => p \in left)
<1>1. PICK next \in (query + 1)..(Servers + 1) :
            query' = next /\ asked' = left \cup ({next} \cap Query)
  BY DEF NextQuery
<1>2. query \in Nat /\ \A p \in left : p \in Query /\ p <= query
  BY StunAssumption DEF StunInv, StunTypeOK
<1>3. query' \in 0..(Servers + 1) /\ query < query' /\ asked' \subseteq Query
  BY <1>1, <1>2, StunAssumption
<1>4. ASSUME NEW p \in asked' PROVE p <= query' /\ (p < query' => p \in left)
  BY <1>1, <1>2, <1>3, <1>4 DEF Query
<1> QED  BY <1>3, <1>4

LEMMA StunStep == StunInv /\ [StunNext]_stunVars => StunInv'
<1> SUFFICES ASSUME StunInv, [StunNext]_stunVars
             PROVE  StunInv'
  OBVIOUS
<1> USE StunAssumption
<1>1. CASE Start
  <2>1. /\ query' \in 0..(Servers + 1) /\ asked' \subseteq Query
        /\ \A p \in asked' : p <= query' /\ (p < query' => p \in {})
    BY <1>1, NextQueryKeeps DEF Start
  <2> QED  BY <1>1, <2>1 DEF Start, StunInv, StunTypeOK, AnswerAttributed
<1>2. ASSUME NEW tx \in Query, NEW attrs \in Answer, Receive(tx, attrs)
      PROVE  StunInv'
  <2>1. query \in 1..Servers /\ tx \in asked /\ UNCHANGED <<timedOut, strayed>>
    BY <1>2 DEF Receive, Pending, Query
  <2>2. CASE Parses(tx, attrs)
    <3>1. /\ external' = [server |-> query, of |-> query]
          /\ asked' = asked \ {tx}
          /\ UNCHANGED <<query, spoiled, timedOut, strayed>>
      BY <1>2, <2>1, <2>2 DEF Receive, Parses
    <3>2. external' \in [server : 0..Servers, of : 0..Servers]
      BY <2>1, <3>1
    <3>3. StunTypeOK' /\ AnswerAttributed'
      BY <3>1, <3>2 DEF StunInv, StunTypeOK, AnswerAttributed
    <3> QED  BY <3>1, <3>3 DEF StunInv, Disturbed
  <2>3. CASE ~Parses(tx, attrs)
    <3>1. PICK left \in SUBSET (asked \ {tx}) : NextQuery(left)
      BY <1>2, <2>3 DEF Receive
    <3>2. /\ spoiled' = IF tx = query THEN spoiled ELSE spoiled \cup {query}
          /\ UNCHANGED external
      BY <1>2, <2>3 DEF Receive
    <3>3. tx # query => \E r \in timedOut \cup strayed : r < query
      <4>1. tx # query => tx < query /\ tx \in Query
        BY <2>1 DEF StunInv, StunTypeOK, Query
      <4>2. tx < query => \E r \in timedOut \cup strayed : r <= tx
        BY <2>1 DEF StunInv, Disturbed
      <4> QED  BY <2>1, <4>1, <4>2 DEF StunInv, StunTypeOK, Query
    <3>4. /\ query' \in 0..(Servers + 1) /\ asked' \subseteq Query
          /\ \A p \in asked' : p <= query' /\ (p < query' => p \in left)
      BY <3>1, NextQueryKeeps
    <3>5. StunTypeOK' /\ AnswerAttributed'
      <4>1. StunTypeOK'
        BY <2>1, <3>2, <3>4 DEF StunInv, StunTypeOK, Query
      <4>2. AnswerAttributed'
        BY <2>1, <3>2, <3>3 DEF StunInv, AnswerAttributed
      <4> QED  BY <4>1, <4>2
    <3>6. ASSUME NEW p \in left PROVE Disturbed(p)
      <4>1. p \in asked /\ p # tx /\ p \in 1..Servers /\ p <= query
        BY <3>1 DEF StunInv, StunTypeOK, Query
      <4>2. CASE p < query
        BY <4>1, <4>2 DEF StunInv
      <4>3. CASE p = query
        <5>1. PICK r \in timedOut \cup strayed : r < query
          BY <3>3, <4>1, <4>3
        <5>2. r <= p
          BY <2>1, <4>3, <5>1 DEF StunInv, StunTypeOK, Query
        <5> QED  BY <5>2 DEF Disturbed
      <4> QED  BY <2>1, <4>1, <4>2, <4>3
    <3> QED  BY <2>1, <3>4, <3>5, <3>6 DEF StunInv, Disturbed
  <2> QED  BY <2>2, <2>3
<1>3. ASSUME NEW left \in SUBSET asked, NextQuery(left), query \in Query,
             query \in timedOut' \cup strayed',
             timedOut \subseteq timedOut', timedOut' \subseteq Query,
             strayed \subseteq strayed', strayed' \subseteq Query,
             UNCHANGED <<spoiled, external>>
      PROVE  StunInv'
  <2>1. /\ query' \in 0..(Servers + 1) /\ asked' \subseteq Query
        /\ \A p \in asked' : p <= query' /\ (p < query' => p \in left)
    BY <1>3, NextQueryKeeps
  <2>2. StunTypeOK' /\ AnswerAttributed'
    BY <1>3, <2>1 DEF StunInv, StunTypeOK, AnswerAttributed
  <2>3. ASSUME NEW p \in left PROVE Disturbed(p)'
    <3>1. p \in 1..Servers /\ p <= query /\ (p < query => Disturbed(p))
      BY DEF StunInv, StunTypeOK, Query
    <3>2. p < query => Disturbed(p)'
      BY <1>3, <3>1 DEF Disturbed
    <3>3. p = query => Disturbed(p)'
      BY <1>3, <3>1 DEF Disturbed
    <3> QED  BY <1>3, <3>1, <3>2, <3>3 DEF Query
  <2> QED  BY <2>1, <2>2, <2>3 DEF StunInv
<1>4. CASE ReceiveStray
  BY <1>3, <1>4 DEF ReceiveStray, Pending, StunInv, StunTypeOK
<1>5. CASE TimeOutQuery
  BY <1>3, <1>5 DEF TimeOutQuery, Pending, StunInv, StunTypeOK
<1>6. CASE UNCHANGED stunVars
  BY <1>6 DEF stunVars, StunInv, StunTypeOK, AnswerAttributed, Disturbed
<1> QED  BY <1>1, <1>2, <1>4, <1>5, <1>6 DEF StunNext

\* A late answer is never taken for that of another server, and fails a query
\* only behind one that timed out or read a datagram that was no first answer
\* (query_stun_server).
THEOREM AnswersAreAttributed == StunSpec => []AnswerAttributed
<1>1. StunInv => AnswerAttributed
  BY DEF StunInv
<1> QED  BY <1>1, StunInitially, StunStep, PTL DEF StunSpec

-----------------------------------------------------------------------------
(* Discovery.  last_seen is when a node was last reported.                 *)

DiscoveryInv ==
  /\ DiscoveryTypeOK
  /\ last_seen = reported
  /\ \A n \in Node : reported[n] <= heard[n] /\ heard[n] <= time
  /\ time > 0
  /\ NotSilenced

LEMMA DiscoveryInitially == DiscoveryInit => DiscoveryInv
  BY DiscoveryAssumption
     DEF DiscoveryInit, DiscoveryInv, DiscoveryTypeOK, NotSilenced, Times

LEMMA DiscoveryStep == DiscoveryInv /\ [DiscoveryNext]_discoveryVars => DiscoveryInv'
<1> SUFFICES ASSUME DiscoveryInv, [DiscoveryNext]_discoveryVars
             PROVE  DiscoveryInv'
  OBVIOUS
<1> USE DiscoveryAssumption
<1>1. CASE TickTime
  BY <1>1 DEF TickTime, DiscoveryInv, DiscoveryTypeOK, NotSilenced, Times
<1>2. ASSUME NEW n \in Node, Announce(n)
      PROVE  DiscoveryInv'
  <2>1. time' = time /\ due' \in [Node -> 1..(MaxTime + 1)]
    BY <1>2 DEF Announce, DiscoveryInv, DiscoveryTypeOK, Times
  <2>2. CASE UNCHANGED <<last_seen, heard, reported>>
    BY <2>1, <2>2 DEF DiscoveryInv, DiscoveryTypeOK, NotSilenced, Times
  <2>3. CASE /\ n # Listener
             /\ heard' = [heard EXCEPT ![n] = time]
             /\ last_seen' = Seen(n)
             /\ reported' = IF Recent(n) THEN reported ELSE [reported EXCEPT ![n] = time]
    <3>1. CASE Recent(n)
      BY <2>1, <2>3, <3>1 DEF Seen, Recent, DiscoveryInv, DiscoveryTypeOK, NotSilenced, Times
    <3>2. CASE ~Recent(n)
      <4>1. time > 0
        BY DEF DiscoveryInv, DiscoveryTypeOK, Times
      <4> QED  BY <2>1, <2>3, <3>2 DEF Seen, DiscoveryInv, DiscoveryTypeOK, NotSilenced, Times
    <3> QED  BY <3>1, <3>2
  <2> QED  BY <1>2, <2>2, <2>3 DEF Announce
<1>3. CASE UNCHANGED discoveryVars
  BY <1>3 DEF discoveryVars, DiscoveryInv, DiscoveryTypeOK, NotSilenced
<1> QED  BY <1>1, <1>2, <1>3 DEF DiscoveryNext

\* The listener's rate limit silences no node, for any window (listen_loop).
THEOREM NobodyIsSilenced == DiscoverySpec => []NotSilenced
<1>1. DiscoveryInv => NotSilenced
  BY DEF DiscoveryInv
<1> QED  BY <1>1, DiscoveryInitially, DiscoveryStep, PTL DEF DiscoverySpec

-----------------------------------------------------------------------------
(* Hole punching.  Until something reaches a socket, every probe sent to it *)
(* is on its way or lost.                                                  *)

LEMMA TwoSides ==
  ASSUME NEW s \in Side
  PROVE  Peer(s) \in Side /\ Peer(s) # s /\ Peer(Peer(s)) = s /\ Side = {s, Peer(s)}
<1>1. PICK a \in Side, b \in Side : a # b /\ Side = {a, b}
  BY HolePunchAssumption
<1>2. \E f \in Side : f # s
  BY <1>1
<1>3. Peer(s) \in Side /\ Peer(s) # s
  BY <1>2 DEF Peer
<1>4. \E f \in Side : f # Peer(s)
  BY <1>3
<1>5. Peer(Peer(s)) \in Side /\ Peer(Peer(s)) # Peer(s)
  BY <1>4 DEF Peer
<1> QED  BY <1>1, <1>3, <1>5

\* Probes that were sent to side s and did not reach it.
Outstanding(s) == unheard[s] + flying[s]["PROBE"]

SideOK(s) ==
  /\ first[s] = "none" =>
        Outstanding(s) = probes[Peer(s)] /\ outcome[s] \in {"none", "timeout"}
  /\ first[s] = "PROBE" => Outstanding(s) < probes[Peer(s)]
  /\ first[s] = "ACK" =>
        Success(Peer(s)) /\ unheard[s] + overtaken[s] = ProbeCount
  /\ first[s] # "none" => outcome[s] \in {"none", first[s]}
  /\ flying[s]["ACK"] > 0 => Success(Peer(s))
  /\ Success(s) => probes[s] = ProbeCount

HolePunchInv ==
  /\ HolePunchTypeOK
  /\ \A s \in Side : SideOK(s)

LEMMA HolePunchInitially == HolePunchInit => HolePunchInv
<1> SUFFICES ASSUME HolePunchInit PROVE HolePunchInv
  OBVIOUS
<1>1. HolePunchTypeOK
  BY HolePunchAssumption DEF HolePunchInit, HolePunchTypeOK
<1>2. ASSUME NEW s \in Side PROVE SideOK(s)
  BY TwoSides DEF HolePunchInit, SideOK, Outstanding, Success, FromPeer
<1> QED  BY <1>1, <1>2 DEF HolePunchInv

\* What side s and its peer have, typed.
LEMMA SideTyped ==
  ASSUME HolePunchInv, NEW s \in Side
  PROVE  /\ probes[s] \in 0..ProbeCount
         /\ flying[s]["PROBE"] \in Nat /\ flying[s]["ACK"] \in Nat
         /\ unheard[s] \in 0..ProbeCount /\ overtaken[s] \in 0..ProbeCount
         /\ first[s] \in Datagram \cup {"none"} /\ SideOK(s)
  BY DEF HolePunchInv, HolePunchTypeOK, FromPeer

\* A step keeps the invariant if it keeps the types and what it says of each side.
LEMMA BothSides ==
  ASSUME HolePunchTypeOK', NEW s \in Side, SideOK(s)', SideOK(Peer(s))'
  PROVE  HolePunchInv'
  BY TwoSides DEF HolePunchInv

LEMMA ProbeKeeps ==
  ASSUME HolePunchInv, NEW s \in Side, Probe(s)
  PROVE  HolePunchInv'
<1> DEFINE p == Peer(s)
<1>1. p \in Side /\ p # s /\ Peer(p) = s
  BY TwoSides
<1> HIDE DEF p
<1>2. /\ probes[s] < ProbeCount
      /\ probes' = [probes EXCEPT ![s] = @ + 1]
      /\ flying' = [flying EXCEPT ![p]["PROBE"] = @ + 1]
      /\ UNCHANGED <<first, outcome, unheard, overtaken>>
  BY DEF Probe, p
<1>3. HolePunchTypeOK'
  BY <1>1, <1>2, HolePunchAssumption DEF HolePunchInv, HolePunchTypeOK, FromPeer
<1>4. /\ probes'[s] = probes[s] + 1 /\ probes'[p] = probes[p]
      /\ flying'[s] = flying[s]
      /\ flying'[p]["PROBE"] = flying[p]["PROBE"] + 1
      /\ flying'[p]["ACK"] = flying[p]["ACK"]
  BY <1>1, <1>2 DEF HolePunchInv, HolePunchTypeOK, FromPeer
<1>5. ~Success(s)
  BY <1>2, SideTyped, HolePunchAssumption DEF SideOK
<1>6. SideOK(s)'
  BY <1>1, <1>2, <1>4, <1>5, SideTyped DEF SideOK, Outstanding, Success, p
<1>7. SideOK(p)'
  BY <1>1, <1>2, <1>4, <1>5, SideTyped, HolePunchAssumption DEF SideOK, Outstanding, Success
<1> QED  BY <1>3, <1>6, <1>7, BothSides DEF p

LEMMA ArriveKeeps ==
  ASSUME HolePunchInv, NEW s \in Side, NEW d \in FromPeer, Arrive(s, d)
  PROVE  HolePunchInv'
<1> DEFINE p == Peer(s)
<1>1. p \in Side /\ p # s /\ Peer(p) = s
  BY TwoSides
<1> HIDE DEF p
<1>2. /\ flying[s][d] > 0 /\ outcome[s] = "none" /\ first[s] = "none"
      /\ flying' = [flying EXCEPT ![s][d] = @ - 1]
      /\ first'  = [first EXCEPT ![s] = d]
      /\ overtaken' = IF d = "ACK" THEN [overtaken EXCEPT ![s] = flying[s]["PROBE"]]
                      ELSE overtaken
      /\ UNCHANGED <<probes, outcome, unheard>>
  BY DEF Arrive, Listening
<1>3. /\ first'[s] = d /\ first'[p] = first[p] /\ flying'[p] = flying[p]
      /\ flying'[s][d] = flying[s][d] - 1
      /\ \A e \in FromPeer \ {d} : flying'[s][e] = flying[s][e]
      /\ overtaken'[p] = overtaken[p]
      /\ d = "ACK" => overtaken'[s] = flying[s]["PROBE"]
  BY <1>1, <1>2 DEF HolePunchInv, HolePunchTypeOK
<1>4. Outstanding(s) = probes[p] /\ probes[p] \in 0..ProbeCount
  BY <1>1, <1>2, SideTyped DEF SideOK, p
<1>5. HolePunchTypeOK'
  <2>1. flying[s]["PROBE"] \in 0..ProbeCount
    BY <1>4, SideTyped, HolePunchAssumption DEF Outstanding
  <2>2. flying' \in [Side -> [FromPeer -> Nat]]
    <3>1. flying[s] \in [FromPeer -> Nat] /\ flying[s][d] - 1 \in Nat
      BY <1>2 DEF HolePunchInv, HolePunchTypeOK
    <3> QED  BY <1>2, <3>1 DEF HolePunchInv, HolePunchTypeOK
  <2> QED  BY <1>2, <2>1, <2>2 DEF HolePunchInv, HolePunchTypeOK, Datagram
<1>6. SideOK(s)'
  <2>1. CASE d = "PROBE"
    BY <1>2, <1>3, <1>4, <2>1, SideTyped DEF SideOK, Outstanding, Success, p, FromPeer
  <2>2. CASE d = "ACK"
    <3>1. Success(p) /\ probes[p] = ProbeCount
      BY <1>1, <1>2, <2>2, SideTyped DEF SideOK, p
    <3>2. unheard[s] + overtaken'[s] = ProbeCount
      BY <1>3, <1>4, <2>2, <3>1 DEF Outstanding
    <3> QED  BY <1>2, <1>3, <2>2, <3>1, <3>2, SideTyped
             DEF SideOK, Outstanding, Success, p, FromPeer
  <2> QED  BY <2>1, <2>2 DEF FromPeer
<1>7. SideOK(p)'
  BY <1>1, <1>2, <1>3, SideTyped DEF SideOK, Outstanding, Success
<1> QED  BY <1>5, <1>6, <1>7, BothSides DEF p

LEMMA LoseKeeps ==
  ASSUME HolePunchInv, NEW s \in Side, Lose(s)
  PROVE  HolePunchInv'
<1> DEFINE p == Peer(s)
<1>1. p \in Side /\ p # s /\ Peer(p) = s
  BY TwoSides
<1> HIDE DEF p
<1>2. /\ flying[s]["PROBE"] > 0 /\ first[s] = "none"
      /\ flying'  = [flying EXCEPT ![s]["PROBE"] = @ - 1]
      /\ unheard' = [unheard EXCEPT ![s] = @ + 1]
      /\ UNCHANGED <<probes, first, outcome, overtaken>>
  BY DEF Lose
<1>3. /\ flying'[p] = flying[p] /\ unheard'[p] = unheard[p]
      /\ flying'[s]["PROBE"] = flying[s]["PROBE"] - 1
      /\ flying'[s]["ACK"] = flying[s]["ACK"]
      /\ unheard'[s] = unheard[s] + 1
  BY <1>1, <1>2 DEF HolePunchInv, HolePunchTypeOK, FromPeer
<1>4. Outstanding(s) = probes[p] /\ probes[p] \in 0..ProbeCount
  BY <1>1, <1>2, SideTyped DEF SideOK, p
<1>5. unheard[s] + 1 \in 0..ProbeCount
  BY <1>2, <1>4, SideTyped, HolePunchAssumption DEF Outstanding
<1>6. HolePunchTypeOK'
  <2>1. flying' \in [Side -> [FromPeer -> Nat]]
    <3>1. flying[s] \in [FromPeer -> Nat] /\ flying[s]["PROBE"] - 1 \in Nat
      BY <1>2 DEF HolePunchInv, HolePunchTypeOK, FromPeer
    <3> QED  BY <1>2, <3>1 DEF HolePunchInv, HolePunchTypeOK, FromPeer
  <2> QED  BY <1>2, <1>5, <2>1 DEF HolePunchInv, HolePunchTypeOK
<1>7. SideOK(s)'
  BY <1>2, <1>3, <1>4, SideTyped DEF SideOK, Outstanding, Success, p
<1>8. SideOK(p)'
  BY <1>1, <1>2, <1>3, SideTyped DEF SideOK, Outstanding, Success
<1> QED  BY <1>6, <1>7, <1>8, BothSides DEF p

LEMMA StrayKeeps ==
  ASSUME HolePunchInv, NEW s \in Side, Stray(s)
  PROVE  HolePunchInv'
<1>1. /\ outcome[s] = "none" /\ first' = [first EXCEPT ![s] = "stray"]
      /\ UNCHANGED <<probes, flying, outcome, unheard, overtaken>>
  BY DEF Stray, Listening
<1>2. HolePunchTypeOK'
  BY <1>1 DEF HolePunchInv, HolePunchTypeOK, Datagram
<1>3. SideOK(s)'
  BY <1>1, SideTyped DEF SideOK, Success, HolePunchInv, HolePunchTypeOK
<1>4. SideOK(Peer(s))'
  BY <1>1, SideTyped, TwoSides DEF SideOK, Outstanding, Success, HolePunchInv, HolePunchTypeOK
<1> QED  BY <1>2, <1>3, <1>4, BothSides

LEMMA ReadKeeps ==
  ASSUME HolePunchInv, NEW s \in Side, Read(s)
  PROVE  HolePunchInv'
<1> DEFINE p == Peer(s)
<1>1. p \in Side /\ p # s /\ Peer(p) = s
  BY TwoSides
<1> HIDE DEF p
<1>2. /\ probes[s] = ProbeCount /\ outcome[s] = "none" /\ first[s] # "none"
      /\ outcome' = [outcome EXCEPT ![s] = first[s]]
      /\ flying'  = IF first[s] = "PROBE" THEN [flying EXCEPT ![p]["ACK"] = @ + 1]
                    ELSE flying
      /\ UNCHANGED <<probes, first, unheard, overtaken>>
  BY DEF Read, Accepts, p
<1>3. /\ outcome'[s] = first[s] /\ outcome'[p] = outcome[p] /\ flying'[s] = flying[s]
      /\ flying'[p]["PROBE"] = flying[p]["PROBE"]
      /\ first[s] # "PROBE" => flying'[p]["ACK"] = flying[p]["ACK"]
  BY <1>1, <1>2 DEF HolePunchInv, HolePunchTypeOK, FromPeer
<1>4. HolePunchTypeOK'
  <2>1. flying' \in [Side -> [FromPeer -> Nat]]
    <3>1. flying[p] \in [FromPeer -> Nat] /\ flying[p]["ACK"] + 1 \in Nat
      BY <1>1 DEF HolePunchInv, HolePunchTypeOK, FromPeer
    <3> QED  BY <1>1, <1>2, <3>1 DEF HolePunchInv, HolePunchTypeOK, FromPeer
  <2> QED  BY <1>2, <2>1 DEF HolePunchInv, HolePunchTypeOK, Datagram
<1>5. SideOK(s)'
  BY <1>1, <1>2, <1>3, SideTyped DEF SideOK, Outstanding, Success, p
<1>6. SideOK(p)'
  <2>1. ~Success(s) /\ first[p] # "ACK" /\ ~(flying[p]["ACK"] > 0)
    BY <1>1, <1>2, SideTyped DEF SideOK, Success
  <2>2. Success(s)' <=> first[s] = "PROBE"
    BY <1>3 DEF Success
  <2> QED  BY <1>1, <1>2, <1>3, <2>1, <2>2, SideTyped DEF SideOK, Outstanding, Success
<1> QED  BY <1>4, <1>5, <1>6, BothSides DEF p

LEMMA TimeOutKeeps ==
  ASSUME HolePunchInv, NEW s \in Side, TimeOut(s)
  PROVE  HolePunchInv'
<1>1. /\ outcome[s] = "none" /\ first[s] = "none"
      /\ outcome' = [outcome EXCEPT ![s] = "timeout"]
      /\ UNCHANGED <<probes, flying, first, unheard, overtaken>>
  BY DEF TimeOut
<1>2. HolePunchTypeOK'
  BY <1>1 DEF HolePunchInv, HolePunchTypeOK
<1>3. SideOK(s)'
  BY <1>1, SideTyped, TwoSides DEF SideOK, Outstanding, Success, HolePunchInv, HolePunchTypeOK
<1>4. SideOK(Peer(s))'
  BY <1>1, SideTyped, TwoSides DEF SideOK, Outstanding, Success, HolePunchInv, HolePunchTypeOK
<1> QED  BY <1>2, <1>3, <1>4, BothSides

LEMMA HolePunchStep == HolePunchInv /\ [HolePunchNext]_holePunchVars => HolePunchInv'
<1>1. ASSUME HolePunchInv, UNCHANGED holePunchVars
      PROVE  HolePunchInv'
  BY <1>1 DEF holePunchVars, HolePunchInv, HolePunchTypeOK, SideOK, Outstanding, Success
<1> QED  BY <1>1, ProbeKeeps, ArriveKeeps, LoseKeeps, StrayKeeps, ReadKeeps, TimeOutKeeps
         DEF HolePunchNext

\* A side that reports success heard a probe.  For one that reads its peer's
\* acknowledgement instead, all of the peer's probes were lost or overtaken, in
\* whatever order the network delivers, for any number of probes (punch_hole).
THEOREM OneSidedIsExplained == HolePunchSpec => []OneSidedExplained
<1>1. HolePunchInv => OneSidedExplained
  <2> SUFFICES ASSUME HolePunchInv, NEW s \in Side
               PROVE  /\ Success(s) => unheard[s] < probes[Peer(s)]
                      /\ outcome[s] = "ACK" =>
                           Success(Peer(s)) /\ unheard[s] + overtaken[s] = ProbeCount
    BY DEF OneSidedExplained
  <2> QED  BY SideTyped, TwoSides DEF SideOK, Outstanding, Success
<1> QED  BY <1>1, HolePunchInitially, HolePunchStep, PTL DEF HolePunchSpec

-----------------------------------------------------------------------------
(* Onion circuits, for every set of senders and paths and every width of   *)
(* the circuit ids.                                                        *)

\* A cell has the layers of one circuit from the hop it is going to.
OnCircuit(cell, c, h) ==
  /\ h \in 1..Len(c.path)
  /\ cell.at = c.path[h]
  /\ cell.layers \in Seq(Layer)
  /\ Len(cell.layers) = Len(c.path) + 1 - h
  /\ \A i \in 1..Len(cell.layers) : cell.layers[i] = [circuit |-> c, hop |-> h + i - 1]

OnionInv ==
  /\ nextId \in [Sender -> Ids]
  /\ built \in 0..MaxCircuits
  /\ circuits \in [Sender -> Seq(Circuit)]
  /\ \A s \in Sender : \A i \in 1..Len(circuits[s]) : circuits[s][i].path # <<>>
  /\ \A cell \in cells : \E c \in Circuit, h \in Nat : OnCircuit(cell, c, h)
  /\ ExitDelivers

LEMMA PathsAreSequences ==
  ASSUME NEW p \in Path
  PROVE  /\ Len(p) \in Nat /\ DOMAIN p = 1..Len(p) /\ (p # <<>> => Len(p) >= 1)
         /\ \A i \in 1..Len(p) : p[i] # NoLeg
<1> DEFINE S == {p[i] : i \in DOMAIN p} \ {NoLeg}
<1>1. p \in Seq(S) /\ NoLeg \notin S
  BY OnionAssumption
<1> HIDE DEF S
<1> QED  BY <1>1

LEMMA OnionInitially == OnionInit => OnionInv
<1> SUFFICES ASSUME OnionInit PROVE OnionInv
  OBVIOUS
<1>1. 1 \in Ids /\ 0 \in 0..MaxCircuits
  BY OnionAssumption DEF Ids
<1>2. circuits \in [Sender -> Seq(Circuit)] /\ \A s \in Sender : Len(circuits[s]) = 0
  BY DEF OnionInit
<1> QED  BY <1>1, <1>2 DEF OnionInit, OnionInv, ExitDelivers

LEMMA CircuitIsOneOfThem ==
  ASSUME OnionInv, NEW s \in Sender, NEW id, NEW j \in DOMAIN circuits[s], circuits[s][j].id = id
  PROVE  \E i \in 1..Len(circuits[s]) : Get(s, id) = circuits[s][i]
<1> DEFINE match == {i \in DOMAIN circuits[s] : circuits[s][i].id = id}
<1>1. DOMAIN circuits[s] = 1..Len(circuits[s]) /\ Len(circuits[s]) \in Nat
  BY DEF OnionInv
<1>2. match \subseteq Nat /\ match # {}
  BY <1>1
<1> DEFINE R == {ss \in Nat \X Nat : ss[1] < ss[2]}
<1>6. IsWellFoundedOn(R, Nat)
  BY NatLessThanWellFounded DEF OpToRel
<1>3. PICK i \in match : \A k \in match : ~(<<k, i>> \in R)
  BY <1>2, <1>6, WFMin, Zenon
<1>7. ASSUME NEW k \in match PROVE i <= k
  <2>1. k \in Nat /\ i \in Nat /\ <<k, i>> \notin R
    BY <1>2, <1>3, <1>7
  <2>2. ~(k < i)
    BY <2>1
  <2> QED  BY <2>1, <2>2
<1>4. \A k \in match : i <= k
  BY <1>7
<1>5. (CHOOSE m \in match : \A k \in match : m <= k) \in match
  BY <1>4
<1> QED  BY <1>1, <1>5 DEF Get

LEMMA WrapIsOnCircuit ==
  ASSUME NEW c \in Circuit, c.path # <<>>, NEW id
  PROVE  OnCircuit([at |-> c.path[1], id |-> id, layers |-> Wrap(c)], c, 1)
<1>1. c.path \in Path /\ Len(c.path) \in Nat /\ Len(c.path) >= 1
  BY PathsAreSequences DEF Circuit
<1>2. \A i \in 1..Len(c.path) : [circuit |-> c, hop |-> i] \in Layer
  BY <1>1 DEF Layer
<1>3. Wrap(c) \in Seq(Layer) /\ Len(Wrap(c)) = Len(c.path)
  BY <1>1, <1>2 DEF Wrap
<1> QED  BY <1>1, <1>3 DEF OnCircuit, Wrap

LEMMA CellMoves ==
  ASSUME OnionInv, NEW cell \in cells, ProcessCell(cell)
  PROVE  OnionInv'
<1> DEFINE leg  == legs[cell.at][cell.id]
           rest == Tail(cell.layers)
<1>1. PICK c \in Circuit, h \in Nat : OnCircuit(cell, c, h)
  BY DEF OnionInv
<1>2. c.path \in Path /\ Len(c.path) \in Nat /\ h \in 1..Len(c.path) /\ \A i \in 1..Len(c.path) : c.path[i] # NoLeg
  BY <1>1, PathsAreSequences DEF Circuit, OnCircuit
<1>3. /\ leg # NoLeg /\ Opens(cell.layers, leg)
      /\ UNCHANGED <<nextId, built, circuits, legs>>
      /\ IF NextHop(leg) = NoLeg
         THEN /\ cells' = cells \ {cell}
              /\ delivered' = [at |-> cell.at, opened |-> leg, layers |-> rest]
         ELSE /\ cells' = (cells \ {cell})
                            \cup {[at |-> NextHop(leg), id |-> cell.id, layers |-> rest]}
              /\ UNCHANGED delivered
  BY DEF ProcessCell
<1>4. leg = [circuit |-> c, hop |-> h]
  <2>1. cell.layers # <<>> /\ Head(cell.layers) = leg
    BY <1>3 DEF Opens
  <2>2. Head(cell.layers) = cell.layers[1] /\ 1 \in 1..Len(cell.layers)
    BY <1>1, <2>1 DEF OnCircuit
  <2>3. cell.layers[1] = [circuit |-> c, hop |-> h + 1 - 1] /\ h + 1 - 1 = h
    BY <1>1, <1>2, <2>2 DEF OnCircuit
  <2> QED  BY <2>1, <2>2, <2>3
<1>5. /\ rest \in Seq(Layer) /\ Len(rest) = Len(c.path) - h
      /\ \A i \in 1..Len(rest) : rest[i] = [circuit |-> c, hop |-> (h + 1) + i - 1]
  <2>1. cell.layers \in Seq(Layer) /\ cell.layers # <<>> /\ Len(cell.layers) = Len(c.path) + 1 - h
    BY <1>1, <1>3 DEF Opens, OnCircuit
  <2>2. /\ rest \in Seq(Layer) /\ Len(rest) = Len(cell.layers) - 1
        /\ \A i \in 1..Len(rest) : rest[i] = cell.layers[i + 1] /\ i + 1 \in 1..Len(cell.layers)
    BY <2>1
  <2>3. \A i \in 1..Len(rest) : h + (i + 1) - 1 = (h + 1) + i - 1
    BY <1>2
  <2> QED  BY <1>1, <1>2, <2>1, <2>2, <2>3 DEF OnCircuit
<1> HIDE DEF leg, rest
<1>6. CASE h = Len(c.path)
  <2>1. NextHop(leg) = NoLeg
    BY <1>4, <1>6 DEF NextHop
  <2>2. rest = <<>>
    BY <1>2, <1>5, <1>6
  <2>3. /\ delivered' = [at |-> cell.at, opened |-> leg, layers |-> <<>>]
        /\ cells' \subseteq cells
    BY <1>3, <2>1, <2>2
  <2>4. ExitDelivers'
    BY <1>1, <1>4, <1>6, <2>3 DEF ExitDelivers, OnCircuit
  <2> QED  BY <1>3, <2>3, <2>4 DEF OnionInv
<1>7. CASE h # Len(c.path)
  <2>1. h + 1 \in 1..Len(c.path)
    BY <1>2, <1>7
  <2>2. NextHop(leg) = c.path[h + 1] /\ NextHop(leg) # NoLeg
    BY <1>2, <1>4, <1>7, <2>1 DEF NextHop
  <2>3. /\ cells' = (cells \ {cell}) \cup {[at |-> c.path[h + 1], id |-> cell.id, layers |-> rest]}
        /\ UNCHANGED delivered
    BY <1>3, <2>2
  <2>4. OnCircuit([at |-> c.path[h + 1], id |-> cell.id, layers |-> rest], c, h + 1)
    <3>1. Len(rest) = Len(c.path) + 1 - (h + 1)
      <4>1. Len(c.path) - h = Len(c.path) + 1 - (h + 1)
        <5>1. Len(c.path) \in Int /\ h \in Int
          BY <1>2
        <5>2. \A a, b \in Int : a - b = a + 1 - (b + 1)
          OBVIOUS
        <5> QED  BY <5>1, <5>2
      <4> QED  BY <1>5, <4>1
    <3> QED  BY <1>5, <2>1, <3>1 DEF OnCircuit
  <2> QED  BY <1>3, <2>1, <2>3, <2>4 DEF OnionInv, ExitDelivers
<1> QED  BY <1>6, <1>7

LEMMA OnionStep == OnionInv /\ [OnionNext]_onionVars => OnionInv'
<1> SUFFICES ASSUME OnionInv, [OnionNext]_onionVars
             PROVE  OnionInv'
  OBVIOUS
<1>1. ASSUME NEW s \in Sender, NEW p \in Path, BuildCircuit(s, p)
      PROVE  OnionInv'
  <2> DEFINE c == [sender |-> s, id |-> nextId[s], birth |-> built + 1, path |-> p]
  <2>1. /\ built < MaxCircuits /\ p # <<>> /\ built' = built + 1
        /\ nextId' = [nextId EXCEPT ![s] = After(@)]
        /\ circuits' = [circuits EXCEPT ![s] = Append(@, c)]
        /\ UNCHANGED <<legs, cells, delivered>>
    BY <1>1 DEF BuildCircuit, Buildable
  <2>2. c \in Circuit
    BY <2>1, OnionAssumption DEF Circuit, OnionInv
  <2>3. After(nextId[s]) \in Ids
    BY OnionAssumption DEF OnionInv, After, Ids
  <2>4. built' \in 0..MaxCircuits
    BY <2>1, OnionAssumption DEF OnionInv
  <2> HIDE DEF c
  <2>5. /\ Append(circuits[s], c) \in Seq(Circuit)
        /\ Len(Append(circuits[s], c)) = Len(circuits[s]) + 1
        /\ \A i \in 1..Len(circuits[s]) : Append(circuits[s], c)[i] = circuits[s][i]
        /\ Append(circuits[s], c)[Len(circuits[s]) + 1] = c
        /\ Len(circuits[s]) \in Nat
    BY <2>2 DEF OnionInv
  <2>6. c.path # <<>>
    BY <2>1 DEF c
  <2>7. circuits' \in [Sender -> Seq(Circuit)]
    BY <2>1, <2>5 DEF OnionInv
  <2>8. ASSUME NEW t \in Sender, NEW i \in 1..Len(circuits'[t])
        PROVE  circuits'[t][i].path # <<>>
    <3>1. CASE t # s
      BY <2>1, <2>8, <3>1 DEF OnionInv
    <3>2. CASE t = s
      <4>1. circuits'[t] = Append(circuits[s], c)
        BY <2>1, <3>2 DEF OnionInv
      <4>2. i \in 1..Len(circuits[s]) \/ i = Len(circuits[s]) + 1
        BY <2>5, <2>8, <4>1
      <4> QED  BY <2>5, <2>6, <4>1, <4>2 DEF OnionInv
    <3> QED  BY <3>1, <3>2
  <2> QED  BY <2>1, <2>3, <2>4, <2>7, <2>8 DEF OnionInv, ExitDelivers
<1>2. ASSUME NEW s \in Sender, PruneExpired(s)
      PROVE  OnionInv'
  <2>1. PICK n \in 1..Len(circuits[s]) :
           circuits' = [circuits EXCEPT ![s] = SubSeq(@, n + 1, Len(@))]
    BY <1>2 DEF PruneExpired
  <2>2. UNCHANGED <<nextId, built, legs, cells, delivered>>
    BY <1>2 DEF PruneExpired
  <2> DEFINE left == SubSeq(circuits[s], n + 1, Len(circuits[s]))
  <2>3. /\ left \in Seq(Circuit) /\ Len(left) = Len(circuits[s]) - n
        /\ \A i \in 1..Len(left) : left[i] = circuits[s][n + i] /\ n + i \in 1..Len(circuits[s])
    BY DEF OnionInv
  <2>4. circuits' \in [Sender -> Seq(Circuit)] /\ circuits'[s] = left
    BY <2>1, <2>3 DEF OnionInv
  <2>5. \A t \in Sender \ {s} : circuits'[t] = circuits[t]
    BY <2>1 DEF OnionInv
  <2> HIDE DEF left
  <2>6. \A t \in Sender : \A i \in 1..Len(circuits'[t]) : circuits'[t][i].path # <<>>
    <3>1. \A i \in 1..Len(left) : left[i].path # <<>>
      BY <2>3 DEF OnionInv
    <3> QED  BY <2>4, <2>5, <3>1 DEF OnionInv
  <2> QED  BY <2>2, <2>4, <2>6 DEF OnionInv, ExitDelivers
<1>3. ASSUME NEW s \in Sender, NEW id \in Ids, SendCell(s, id)
      PROVE  OnionInv'
  <2>1. /\ \E i \in DOMAIN circuits[s] : circuits[s][i].id = id
        /\ cells' = cells \cup {[at |-> Get(s, id).path[1], id |-> id, layers |-> Wrap(Get(s, id))]}
        /\ UNCHANGED <<nextId, built, circuits, legs, delivered>>
    BY <1>3 DEF SendCell
  <2>2. Get(s, id) \in Circuit /\ Get(s, id).path # <<>>
    <3>1. PICK i \in 1..Len(circuits[s]) : Get(s, id) = circuits[s][i]
      BY <2>1, CircuitIsOneOfThem
    <3> QED  BY <3>1 DEF OnionInv
  <2> QED  BY <2>1, <2>2, WrapIsOnCircuit DEF OnionInv, ExitDelivers
<1>4. CASE \/ \E s \in Sender : \E i \in DOMAIN circuits[s] :
                \E hop \in DOMAIN circuits[s][i].path : RegisterLeg(circuits[s][i], hop)
           \/ \E r \in Relay, id \in Ids : DestroyLeg(r, id)
           \/ UNCHANGED onionVars
  <2>1. UNCHANGED <<nextId, built, circuits, cells, delivered>>
    BY <1>4 DEF RegisterLeg, DestroyLeg, onionVars
  <2> QED  BY <2>1 DEF OnionInv, ExitDelivers
<1>5. ASSUME NEW cell \in cells, RefuseCell(cell)
      PROVE  OnionInv'
  BY <1>5 DEF RefuseCell, OnionInv, ExitDelivers
<1> QED  BY <1>1, <1>2, <1>3, <1>4, <1>5, CellMoves DEF OnionNext

\* An exit hands out fully opened payloads of circuits that end at it, whatever
\* legs share their ids with (build_onion, process_cell).
THEOREM ExitsDeliver == OnionSpec => []ExitDelivers
<1>1. OnionInv => ExitDelivers
  BY DEF OnionInv
<1> QED  BY <1>1, OnionInitially, OnionStep, PTL DEF OnionSpec

\* With the leg of its circuit in place, a relay opens what the sender wrapped.
LEMMA RefusalExplained ==
  ASSUME OnionInv, NEW cell \in cells, RefuseCell(cell), NEW s \in Sender,
         NEW i \in DOMAIN circuits[s], NEW hop \in DOMAIN circuits[s][i].path,
         cell.layers # <<>>, cell.layers[Len(cell.layers)].circuit = circuits[s][i],
         Len(cell.layers) = Len(circuits[s][i].path) + 1 - hop
  PROVE  legs[cell.at][cell.id] # [circuit |-> circuits[s][i], hop |-> hop]
<1> DEFINE way == circuits[s][i]
<1>1. PICK c \in Circuit, h \in Nat : OnCircuit(cell, c, h)
  BY DEF OnionInv
<1>2. Head(cell.layers) = [circuit |-> c, hop |-> h] /\ way = c
  <2>1. /\ cell.layers \in Seq(Layer) /\ 1 \in 1..Len(cell.layers)
        /\ Len(cell.layers) \in 1..Len(cell.layers) /\ Head(cell.layers) = cell.layers[1]
    BY <1>1 DEF OnCircuit
  <2>2. h + 1 - 1 = h
    OBVIOUS
  <2>3. cell.layers[1] = [circuit |-> c, hop |-> h + 1 - 1]
    BY <1>1, <2>1 DEF OnCircuit
  <2>4. cell.layers[Len(cell.layers)].circuit = c
    <3>1. cell.layers[Len(cell.layers)] = [circuit |-> c, hop |-> h + Len(cell.layers) - 1]
      BY <1>1, <2>1 DEF OnCircuit
    <3> QED  BY <3>1
  <2> QED  BY <2>1, <2>2, <2>3, <2>4
<1>3. Len(c.path) \in Nat /\ DOMAIN c.path = 1..Len(c.path)
  BY PathsAreSequences DEF Circuit
<1>4. h = hop
  BY <1>1, <1>2, <1>3 DEF OnCircuit
<1>5. [circuit |-> c, hop |-> h] \in Layer
  BY DEF Layer
<1> QED  BY <1>2, <1>4, <1>5, NoLegAssumption DEF RefuseCell, Opens

\* A cell is refused only for want of its circuit's leg (process_cell).
THEOREM RefusalsAreExplained == OnionSpec => RefusedWithoutLeg
<1>1. OnionInv /\ [OnionNext]_onionVars =>
        [\A cell \in cells :
           RefuseCell(cell) => \A s \in Sender : \A i \in DOMAIN circuits[s] :
              LET way == circuits[s][i] IN
              \A hop \in DOMAIN way.path :
                 (way.id = cell.id /\ way.path[hop] = cell.at /\ cell.layers # <<>>
                    /\ cell.layers[Len(cell.layers)].circuit = way
                    /\ Len(cell.layers) = Len(way.path) + 1 - hop)
                    => legs[cell.at][cell.id] # [circuit |-> way, hop |-> hop]]_onionVars
  BY RefusalExplained
<1> QED  BY <1>1, OnionInitially, OnionStep, PTL DEF OnionSpec, RefusedWithoutLeg

=============================================================================
