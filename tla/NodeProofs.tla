------------------------------ MODULE NodeProofs ------------------------------
(***************************************************************************)
(* A node as the composition of its parts (MCNode): what is proved of a    *)
(* part holds of the node, and the node is well typed, for every value of  *)
(* the constants.  The invariants of the parts' own theorems give most of  *)
(* the types; here is what they leave out.                                 *)
(***************************************************************************)
EXTENDS MCNode, LinkProofs, NetworkProofs, LocalProofs, ClientProofs

-----------------------------------------------------------------------------
(* The links.                                                              *)

SessionTyped == SessionInv /\ crossed \subseteq Conn

LEMMA SessionIsTyped == SessionTyped => SessionTypeOK
<1> SUFFICES ASSUME SessionTyped PROVE SessionTypeOK
  OBVIOUS
<1>1. ASSUME NEW x \in Conn, NEW e \in End, NEW i \in DOMAIN toEnd[x][e]
      PROVE  toEnd[x][e][i] \in Key \cup {Hello, HelloOk}
  <2>1. toEnd[x][e] \in Seq(Frame)
    BY DEF SessionTyped, SessionInv, SessionTypes
  <2>2. toEnd[x][e][i] \in Frame
    BY <2>1
  <2> QED  BY <2>2, SessionAssumption DEF Frame, Key, Hello, HelloOk
<1> QED  BY <1>1 DEF SessionTyped, SessionInv, SessionTypes, SessionTypeOK

LEMMA SessionsInitially == SessionInit => SessionTyped
  BY SessionInitially DEF SessionInit, SessionTyped

LEMMA SessionsStep == SessionTyped /\ [SessionNext]_sessionVars => SessionTyped'
<1> SUFFICES ASSUME SessionTyped, [SessionNext]_sessionVars PROVE crossed' \subseteq Conn
  BY SessionStep DEF SessionTyped
<1>1. CASE \E x \in Conn, e \in End : SetKey(e, x)
  BY <1>1 DEF SetKey, SessionTyped
<1>2. ASSUME NEW x \in Conn, AnswerHello(x) \/ FinishHello(x)
      PROVE  \E e \in End : SetKey(e, x)
  <2>1. dialler[x] \in End
    BY DEF SessionTyped, SessionInv, SessionTypes
  <2> QED  BY <1>2, <2>1, TwoEnds DEF AnswerHello, FinishHello
<1>3. CASE UNCHANGED crossed
  BY <1>3 DEF SessionTyped
<1> QED  BY <1>1, <1>2, <1>3
         DEF SessionNext, sessionVars, DialOut, SendFrame, ReadFrame, CloseEnd, RestartEnd

HeartbeatTyped ==
  /\ SilenceInv /\ PingInv
  /\ linkUp \in BOOLEAN
  /\ cutOff \subseteq Caller
  /\ pings \in Seq(Caller \cup {NoCaller}) /\ pongs \in Seq(Caller \cup {NoCaller})
  /\ cut \in [unanswered : 0..2, inherited : 0..2]

LEMMA HeartbeatIsTyped == HeartbeatTyped => HeartbeatTypeOK
<1> SUFFICES ASSUME HeartbeatTyped PROVE HeartbeatTypeOK
  OBVIOUS
<1>1. \A q \in {pings, pongs} : \A i \in DOMAIN q : q[i] \in Caller \cup {NoCaller}
  BY DEF HeartbeatTyped
<1> QED  BY <1>1 DEF HeartbeatTyped, SilenceInv, PingInv, PingTypes, HeartbeatTypeOK

LEMMA HeartbeatInitially == HeartbeatInit => HeartbeatTyped
<1> SUFFICES ASSUME HeartbeatInit PROVE HeartbeatTyped
  OBVIOUS
<1>1. SilenceInv
  BY DEF HeartbeatInit, SilenceInv, CutEarned
<1>2. PingInv
  BY HeartbeatAssumption
     DEF HeartbeatInit, PingInv, PingTypes, PendingIsUntold, ManualEntryOwned, Id, Step, Result
<1>3. /\ <<>> \in Seq(Caller \cup {NoCaller})
      /\ [unanswered |-> 2, inherited |-> 0] \in [unanswered : 0..2, inherited : 0..2]
  OBVIOUS
<1> QED  BY <1>1, <1>2, <1>3 DEF HeartbeatInit, HeartbeatTyped

LEMMA HeartbeatStep == HeartbeatTyped /\ [HeartbeatNext]_heartbeatVars => HeartbeatTyped'
<1> DEFINE Other == /\ linkUp' \in BOOLEAN
                    /\ cutOff' \subseteq Caller
                    /\ pings' \in Seq(Caller \cup {NoCaller})
                    /\ pongs' \in Seq(Caller \cup {NoCaller})
                    /\ cut' \in [unanswered : 0..2, inherited : 0..2]
<1> SUFFICES ASSUME HeartbeatTyped, [HeartbeatNext]_heartbeatVars PROVE Other
  BY SilenceStep, PingStep DEF HeartbeatTyped
<1>2. \A x \in Caller \cup {NoCaller} : Sent(x) \in Seq(Caller \cup {NoCaller})
  BY DEF HeartbeatTyped, Sent
<1>3. Drop => linkUp' \in BOOLEAN /\ cutOff' \subseteq Caller /\ pings' = <<>> /\ pongs' = <<>>
  BY DEF Drop
<1>4. <<>> \in Seq(Caller \cup {NoCaller})
  OBVIOUS
<1>5. CASE LinkStarts
  BY <1>5 DEF LinkStarts, HeartbeatTyped
<1>6. CASE LinkEnds
  BY <1>6, <1>3, <1>4 DEF LinkEnds, HeartbeatTyped
<1>7. CASE SilenceCounts
  <2>1. CASE missed < 2
    BY <1>7, <1>2, <2>1 DEF SilenceCounts, HeartbeatTyped
  <2>2. CASE ~(missed < 2)
    BY <1>7, <1>3, <1>4, <2>2 DEF SilenceCounts, HeartbeatTyped, SilenceInv
  <2> QED  BY <2>1, <2>2
<1>8. CASE PeerAnswers
  <2>1. /\ Tail(pings) \in Seq(Caller \cup {NoCaller})
        /\ Append(pongs, Head(pings)) \in Seq(Caller \cup {NoCaller})
    BY <1>8 DEF PeerAnswers, HeartbeatTyped
  <2> QED  BY <1>8, <2>1 DEF PeerAnswers, HeartbeatTyped
<1>9. CASE HandlePong
  <2>1. Tail(pongs) \in Seq(Caller \cup {NoCaller})
    BY <1>9 DEF HandlePong, HeartbeatTyped
  <2> QED  BY <1>9, <2>1 DEF HandlePong, HeartbeatTyped
<1>10. ASSUME NEW k \in Caller, SendPing(k) PROVE Other
  BY <1>2, <1>10 DEF SendPing, HeartbeatTyped
<1>11. ASSUME NEW k \in Caller, NEW i \in Id,
              FinishPing(k) \/ ExpirePing(k) \/ RemoveExpired(k) \/ InsertPing(k, i) \/ NotConnected(k, i)
       PROVE  Other
  BY <1>11 DEF FinishPing, ExpirePing, RemoveExpired, InsertPing, NotConnected, HeartbeatTyped
<1>12. CASE UNCHANGED heartbeatVars
  BY <1>12 DEF heartbeatVars, HeartbeatTyped
<1>13. "channel" \in Id
  BY DEF Id
<1> HIDE DEF Other
<1> QED  BY <1>5, <1>6, <1>7, <1>8, <1>9, <1>10, <1>11, <1>12, <1>13 DEF HeartbeatNext

FrameTyped ==
  /\ FrameInv
  /\ Len(lengthGot) <= 1
  /\ inPayload \in BOOLEAN /\ cutLength \in BOOLEAN
  /\ reader \in {"reading", "invalid", "timeout"}

LEMMA FrameIsTyped == FrameTyped => FrameTypeOK
<1> SUFFICES ASSUME FrameTyped PROVE FrameTypeOK
  OBVIOUS
<1>1. \A q \in {onWire, arrived, lengthGot} : \A i \in DOMAIN q : q[i] \in Piece
  BY DEF FrameTyped, FrameInv
<1> QED  BY <1>1 DEF FrameTyped, FrameInv, FrameTypeOK

LEMMA FramesInitially == FrameInit => FrameTyped
<1>1. Len(<<>>) <= 1
  OBVIOUS
<1> QED  BY <1>1, FrameInitially DEF FrameInit, FrameTyped

LEMMA FramesStep == FrameTyped /\ [FrameNext]_frameVars => FrameTyped'
<1> SUFFICES ASSUME FrameTyped, [FrameNext]_frameVars
             PROVE  /\ Len(lengthGot') <= 1
                    /\ inPayload' \in BOOLEAN /\ cutLength' \in BOOLEAN
                    /\ reader' \in {"reading", "invalid", "timeout"}
  BY FrameStep DEF FrameTyped
<1>1. CASE \E n \in Size : WriteFrame(n)
  BY <1>1 DEF WriteFrame, FrameTyped
<1>2. CASE PieceArrives \/ PayloadTimeout \/ UNCHANGED frameVars
  BY <1>2 DEF PieceArrives, PayloadTimeout, frameVars, FrameTyped
<1>3. CASE ReadHalf
  <2>1. Len(<<NextPiece>>) = 1
    OBVIOUS
  <2> QED  BY <1>3, <2>1 DEF ReadHalf, FrameTyped
<1>4. CASE ReadLength
  <2>1. Len(<<>>) = 0
    OBVIOUS
  <2>2. /\ lengthGot' = <<>> /\ UNCHANGED cutLength
        /\ \/ inPayload' = TRUE /\ UNCHANGED reader
           \/ reader' \in {"invalid", "timeout"} /\ UNCHANGED inPayload
    BY <1>4, Zenon DEF ReadLength
  <2>3. Len(lengthGot') <= 1
    BY <2>1, <2>2
  <2>4. /\ inPayload' \in BOOLEAN /\ cutLength' \in BOOLEAN
        /\ reader' \in {"reading", "invalid", "timeout"}
    BY <2>2, Zenon DEF FrameTyped
  <2> QED  BY <2>3, <2>4
<1>5. CASE LengthTimeout
  <2>1. Len(<<>>) = 0
    OBVIOUS
  <2> QED  BY <1>5, <2>1 DEF LengthTimeout, FrameTyped
<1>6. CASE ReadPayload
  BY <1>6 DEF ReadPayload, AfterPayload, FrameTyped
<1> QED  BY <1>1, <1>2, <1>3, <1>4, <1>5, <1>6 DEF FrameNext

-----------------------------------------------------------------------------
(* The network.                                                            *)

OnionTyped ==
  /\ OnionInv
  /\ \A s \in Sender : \A i \in 1..Len(circuits[s]) : circuits[s][i].sender = s
  /\ legs \in [Relay -> [Ids -> Layer \cup {NoLeg}]]
  /\ \A r \in Relay, id \in Ids :
        legs[r][id] # NoLeg => legs[r][id].hop \in DOMAIN legs[r][id].circuit.path
  /\ \A x \in cells : x.id \in Ids
  /\ delivered # NoLeg => delivered.at \in Relay

\* A cell goes to a relay.
LEMMA CellsAreAtRelays ==
  ASSUME OnionInv, NEW x \in cells
  PROVE  x.at \in Relay
<1>1. PICK y \in Circuit, h \in Nat : OnCircuit(x, y, h)
  BY DEF OnionInv
<1>2. y.path \in Path /\ h \in DOMAIN y.path
  BY <1>1, PathsAreSequences DEF Circuit, OnCircuit
<1> QED  BY <1>1, <1>2 DEF OnCircuit, Relay

LEMMA OnionIsTyped == OnionTyped => OnionTypeOK
<1> SUFFICES ASSUME OnionTyped PROVE OnionTypeOK
  OBVIOUS
<1>1. ASSUME NEW s \in Sender, NEW i \in DOMAIN circuits[s]
      PROVE  circuits[s][i] \in Circuit /\ circuits[s][i].sender = s
  <2>1. circuits[s] \in Seq(Circuit)
    BY DEF OnionTyped, OnionInv
  <2> QED  BY <2>1 DEF OnionTyped
<1>2. ASSUME NEW r \in Relay, NEW id \in Ids, legs[r][id] # NoLeg
      PROVE  legs[r][id].circuit \in Circuit
  BY <1>2 DEF OnionTyped, Layer
<1> QED  BY <1>1, <1>2, CellsAreAtRelays DEF OnionTyped, OnionInv, OnionTypeOK

LEMMA OnionsInitially == OnionInit => OnionTyped
<1> SUFFICES ASSUME OnionInit PROVE OnionTyped
  OBVIOUS
<1>1. \A s \in Sender : Len(circuits[s]) = 0
  BY DEF OnionInit
<1> QED  BY <1>1, OnionInitially DEF OnionInit, OnionTyped

LEMMA OnionsStep == OnionTyped /\ [OnionNext]_onionVars => OnionTyped'
<1> DEFINE Owned == \A s \in Sender : \A i \in 1..Len(circuits[s]) : circuits[s][i].sender = s
           Legs  == /\ legs \in [Relay -> [Ids -> Layer \cup {NoLeg}]]
                    /\ \A r \in Relay, id \in Ids :
                          legs[r][id] # NoLeg =>
                             legs[r][id].hop \in DOMAIN legs[r][id].circuit.path
           Cells == /\ \A x \in cells : x.id \in Ids
                    /\ delivered # NoLeg => delivered.at \in Relay
<1>0. OnionTyped => OnionInv /\ Owned /\ Legs /\ Cells
  BY DEF OnionTyped
<1> SUFFICES ASSUME OnionTyped, [OnionNext]_onionVars PROVE Owned' /\ Legs' /\ Cells'
  BY OnionStep DEF OnionTyped
<1>1. ASSUME NEW s \in Sender, NEW p \in Path, BuildCircuit(s, p)
      PROVE  Owned' /\ UNCHANGED <<legs, cells, delivered>>
  <2> DEFINE new == [sender |-> s, id |-> nextId[s], birth |-> built + 1, path |-> p]
  <2>1. /\ circuits' = [circuits EXCEPT ![s] = Append(@, new)]
        /\ UNCHANGED <<legs, cells, delivered>>
    BY <1>1 DEF BuildCircuit
  <2>2. new.sender = s
    OBVIOUS
  <2> HIDE DEF new
  <2>3. circuits \in [Sender -> Seq(Circuit)] /\ circuits' \in [Sender -> Seq(Circuit)]
    BY OnionStep DEF OnionTyped, OnionInv
  <2>4. circuits'[s] = Append(circuits[s], new) /\ \A t \in Sender \ {s} : circuits'[t] = circuits[t]
    BY <2>1, <2>3
  <2>5. /\ Len(Append(circuits[s], new)) = Len(circuits[s]) + 1 /\ Len(circuits[s]) \in Nat
        /\ \A i \in 1..Len(circuits[s]) : Append(circuits[s], new)[i] = circuits[s][i]
        /\ Append(circuits[s], new)[Len(circuits[s]) + 1] = new
    BY <2>3
  <2>6. \A i \in 1..Len(circuits'[s]) : circuits'[s][i].sender = s
    BY <1>0, <2>2, <2>4, <2>5
  <2> QED  BY <1>0, <2>1, <2>4, <2>6
<1>2. ASSUME NEW s \in Sender, PruneExpired(s)
      PROVE  Owned' /\ UNCHANGED <<legs, cells, delivered>>
  <2>1. PICK n \in 1..Len(circuits[s]) :
           circuits' = [circuits EXCEPT ![s] = SubSeq(@, n + 1, Len(@))]
    BY <1>2 DEF PruneExpired
  <2> DEFINE left == SubSeq(circuits[s], n + 1, Len(circuits[s]))
  <2>2. circuits \in [Sender -> Seq(Circuit)]
    BY DEF OnionTyped, OnionInv
  <2>3. /\ Len(left) = Len(circuits[s]) - n /\ Len(circuits[s]) \in Nat
        /\ \A i \in 1..Len(left) : left[i] = circuits[s][n + i] /\ n + i \in 1..Len(circuits[s])
    BY <2>2
  <2>4. circuits'[s] = left /\ \A t \in Sender \ {s} : circuits'[t] = circuits[t]
    BY <2>1, <2>2
  <2> HIDE DEF left
  <2>5. \A i \in 1..Len(left) : left[i].sender = s
    BY <1>0, <2>3
  <2> QED  BY <1>0, <1>2, <2>4, <2>5 DEF PruneExpired
<1>3. ASSUME NEW s \in Sender, NEW id \in Ids, SendCell(s, id)
      PROVE  Cells' /\ UNCHANGED <<circuits, legs>>
  BY <1>0, <1>3 DEF SendCell
<1>4. ASSUME NEW s \in Sender, NEW i \in DOMAIN circuits[s],
             NEW hop \in DOMAIN circuits[s][i].path, RegisterLeg(circuits[s][i], hop)
      PROVE  Legs' /\ UNCHANGED <<circuits, cells, delivered>>
  <2> DEFINE y == circuits[s][i]
             new == [circuit |-> y, hop |-> hop]
  <2>1. y \in Circuit
    BY DEF OnionTyped, OnionInv
  <2>2. y.path \in Path /\ y.id \in Ids
    BY <2>1 DEF Circuit
  <2>3. hop \in Nat /\ y.path[hop] \in Relay
    BY <2>2, PathsAreSequences DEF Relay
  <2>4. new \in Layer /\ new.circuit = y /\ new.hop = hop
    BY <2>1, <2>3 DEF Layer
  <2>5. /\ legs' = [legs EXCEPT ![y.path[hop]][y.id] = new]
        /\ UNCHANGED <<circuits, cells, delivered>>
    BY <1>4 DEF RegisterLeg
  <2> HIDE DEF y, new
  <2>6. legs' \in [Relay -> [Ids -> Layer \cup {NoLeg}]]
    BY <1>0, <2>2, <2>3, <2>4, <2>5
  <2>7. ASSUME NEW r \in Relay, NEW id \in Ids, legs'[r][id] # NoLeg
        PROVE  legs'[r][id].hop \in DOMAIN legs'[r][id].circuit.path
    <3>1. CASE r = y.path[hop] /\ id = y.id
      <4>1. legs'[r][id] = new
        BY <1>0, <2>2, <2>3, <2>5, <3>1
      <4> QED  BY <2>4, <4>1 DEF y
    <3>2. CASE ~(r = y.path[hop] /\ id = y.id)
      <4>1. legs'[r][id] = legs[r][id]
        BY <1>0, <2>2, <2>3, <2>5, <3>2
      <4> QED  BY <1>0, <2>7, <4>1
    <3> QED  BY <3>1, <3>2
  <2> QED  BY <2>5, <2>6, <2>7
<1>5. ASSUME NEW r \in Relay, NEW id \in Ids, DestroyLeg(r, id)
      PROVE  Legs' /\ UNCHANGED <<circuits, cells, delivered>>
  <2>1. legs' = [legs EXCEPT ![r][id] = NoLeg]
    BY <1>5 DEF DestroyLeg
  <2>2. legs' \in [Relay -> [Ids -> Layer \cup {NoLeg}]]
    BY <1>0, <2>1
  <2>3. \A q \in Relay, n \in Ids : legs'[q][n] \in {NoLeg, legs[q][n]}
    BY <1>0, <2>1
  <2>4. Legs'
    BY <1>0, <2>2, <2>3
  <2> QED  BY <1>5, <2>4 DEF DestroyLeg
<1>6. ASSUME NEW x \in cells, ProcessCell(x)
      PROVE  Cells' /\ UNCHANGED <<circuits, legs>>
  BY <1>0, <1>6, CellsAreAtRelays DEF ProcessCell
<1>7. ASSUME NEW x \in cells, RefuseCell(x)
      PROVE  Cells' /\ UNCHANGED <<circuits, legs>>
  BY <1>0, <1>7 DEF RefuseCell
<1>8. CASE UNCHANGED onionVars
  BY <1>0, <1>8 DEF onionVars
<1> HIDE DEF Owned, Legs, Cells
<1>9. UNCHANGED circuits => (Owned => Owned')
  BY DEF Owned
<1>10. UNCHANGED legs => (Legs => Legs')
  BY DEF Legs
<1>11. UNCHANGED <<cells, delivered>> => (Cells => Cells')
  BY DEF Cells
<1> QED  BY <1>0, <1>1, <1>2, <1>3, <1>4, <1>5, <1>6, <1>7, <1>8, <1>9, <1>10, <1>11 DEF OnionNext

\* Every message belongs to a fetch and travels along a link.
LEMMA FetchIds ==
  ASSUME FetchInv
  PROVE  /\ DOMAIN fetches = 1..Len(fetches) /\ Len(fetches) \in Nat
         /\ \A x \in carried : x.id \in DOMAIN fetches
<1>1. \A x \in carried : x.id \in DOMAIN fetches
  BY DEF FetchInv, MessageOK
<1>2. fetches \in Seq(Fetch)
  BY DEF FetchInv
<1> QED  BY <1>1, <1>2

ContentTyped ==
  /\ FetchInv
  /\ Len(fetches) <= MaxFetches
  /\ shown \subseteq DOMAIN fetches /\ excused \subseteq DOMAIN fetches

LEMMA ContentIsTyped == ContentTyped => ContentTypeOK
<1> SUFFICES ASSUME ContentTyped PROVE ContentTypeOK
  OBVIOUS
<1>1. \A i \in DOMAIN fetches : fetches[i] \in Fetch
  BY DEF ContentTyped, FetchInv
<1>2. ASSUME NEW x \in carried
      PROVE  /\ <<x.from, x.to>> \in Linked /\ x.id \in DOMAIN fetches
             /\ x.kind \in {"data", "request", "response"}
  BY DEF ContentTyped, FetchInv, MessageOK, Request, Response
<1> QED  BY <1>1, <1>2 DEF ContentTyped, FetchInv, ContentTypeOK, Fetch

LEMMA ContentsInitially == ContentInit => ContentTyped
<1> SUFFICES ASSUME ContentInit PROVE ContentTyped
  OBVIOUS
<1>1. fetches = <<>> /\ shown = {} /\ excused = {}
  BY DEF ContentInit
<1>2. Len(fetches) = 0
  BY <1>1
<1> QED  BY <1>1, <1>2, FetchInitially, ContentAssumption DEF ContentTyped

LEMMA ContentsStep == ContentTyped /\ [ContentNext]_contentVars => ContentTyped'
<1> SUFFICES ASSUME ContentTyped, [ContentNext]_contentVars PROVE ContentTyped'
  OBVIOUS
<1>1. FetchInv' /\ FetchInv
  BY FetchStep DEF ContentTyped
<1>2. ASSUME NEW n \in Member, NEW url \in Url, StartFetch(n, url)
      PROVE  ContentTyped'
  <2>1. PICK f : fetches' = Append(fetches, f)
    BY <1>2 DEF StartFetch
  <2>2. Len(fetches) < MaxFetches /\ UNCHANGED <<shown, excused>>
    BY <1>2 DEF StartFetch
  <2>3. fetches \in Seq(Fetch) /\ Len(fetches) \in Nat
    BY <1>1 DEF FetchInv
  <2>4. Len(fetches') = Len(fetches) + 1 /\ DOMAIN fetches \subseteq DOMAIN fetches'
    BY <2>1, <2>3
  <2> QED  BY <1>1, <2>2, <2>3, <2>4, ContentAssumption DEF ContentTyped
<1>3. ASSUME UNCHANGED fetches,
             shown' \subseteq shown \cup DOMAIN fetches,
             excused' \subseteq excused \cup DOMAIN fetches
      PROVE  ContentTyped'
  BY <1>1, <1>3 DEF ContentTyped
<1>4. ASSUME NEW n \in Member, NEW url \in Url, PublishContent(n, url)
      PROVE  ContentTyped'
  BY <1>3, <1>4 DEF PublishContent
<1>5. ASSUME NEW x \in carried,
             ReceiveWrapped(x) \/ ReceiveRequest(x) \/ LoseMessage(x)
      PROVE  ContentTyped'
  BY <1>1, <1>3, <1>5, FetchIds DEF ReceiveWrapped, ReceiveRequest, LoseMessage
<1>6. ASSUME Len(fetches') = Len(fetches), UNCHANGED shown,
             excused' \subseteq excused \cup DOMAIN fetches
      PROVE  ContentTyped'
  <2>1. DOMAIN fetches' = 1..Len(fetches') /\ DOMAIN fetches = 1..Len(fetches)
    BY <1>1, FetchIds DEF FetchInv
  <2> QED  BY <1>1, <1>6, <2>1 DEF ContentTyped
<1>7. ASSUME NEW x \in carried, ReceiveResponse(x)
      PROVE  ContentTyped'
  <2>1. fetches \in Seq(Fetch)
    BY <1>1 DEF FetchInv
  <2>2. Len(fetches') = Len(fetches)
    BY <1>7, <2>1 DEF ReceiveResponse
  <2> QED  BY <1>6, <1>7, <2>2 DEF ReceiveResponse
<1>8. ASSUME NEW id \in DOMAIN fetches, TimeOutFetch(id)
      PROVE  ContentTyped'
  <2>1. fetches \in Seq(Fetch)
    BY <1>1 DEF FetchInv
  <2>2. Len(fetches') = Len(fetches)
    BY <1>8, <2>1 DEF TimeOutFetch
  <2> QED  BY <1>6, <1>8, <2>2 DEF TimeOutFetch
<1>9. CASE UNCHANGED contentVars
  BY <1>3, <1>9 DEF contentVars
<1> QED  BY <1>2, <1>4, <1>5, <1>7, <1>8, <1>9 DEF ContentNext

-----------------------------------------------------------------------------
(* What is local to a node.                                                *)

FilesTyped ==
  /\ FilesInv
  /\ running \in {"down", "creating", "up"}
  /\ key \in IdKey \cup {None} /\ lastKey \in IdKey \cup {None}
  /\ candidates \subseteq PeerAddr \ ApiAddr
  /\ edited \in BOOLEAN
  /\ lastPeer \in PeerAddr \cup {None}
  /\ broken \subseteq {"identity", "peers"}

LEMMA FilesAreTyped == FilesTyped => NodeFilesTypeOK
<1> SUFFICES ASSUME FilesTyped PROVE NodeFilesTypeOK
  OBVIOUS
<1>1. /\ \A i \in DOMAIN peersFile.peers : peersFile.peers[i] \in PeerAddr
      /\ peersFile.state \in FileState
  BY DEF FilesTyped, FilesInv
<1> QED  BY <1>1 DEF FilesTyped, FilesInv, NodeFilesTypeOK

LEMMA NodeFilesInitially == NodeFilesInit => FilesTyped
  BY FilesInitially DEF NodeFilesInit, FilesTyped

\* The API's own addresses are left out of those that are loaded.
LEMMA LoadedAreCandidates == FilesInv => Loaded \subseteq PeerAddr \ ApiAddr
<1>1. FilesInv => \A i \in DOMAIN peersFile.peers : peersFile.peers[i] \in PeerAddr
  BY DEF FilesInv
<1> QED  BY <1>1 DEF Loaded

LEMMA NodeFilesStep == FilesTyped /\ [NodeFilesNext]_fileVars => FilesTyped'
<1> DEFINE Other == /\ running' \in {"down", "creating", "up"}
                    /\ key' \in IdKey \cup {None} /\ lastKey' \in IdKey \cup {None}
                    /\ candidates' \subseteq PeerAddr \ ApiAddr
                    /\ edited' \in BOOLEAN
                    /\ lastPeer' \in PeerAddr \cup {None}
                    /\ broken' \subseteq {"identity", "peers"}
<1> SUFFICES ASSUME FilesTyped, [NodeFilesNext]_fileVars PROVE Other
  BY FilesStep DEF FilesTyped
<1>1. ASSUME NEW k \in IdKey \cup {None}, ComeUp(k), UNCHANGED <<lastPeer, broken>> PROVE Other
  BY <1>1, LoadedAreCandidates DEF ComeUp, FilesTyped
<1>2. CASE LoadIdentity
  <2>1. identity.key \in IdKey \cup {None}
    BY DEF FilesTyped, FilesInv
  <2> QED  BY <1>1, <1>2, <2>1 DEF LoadIdentity
<1>3. CASE WriteIdentity
  BY <1>1, <1>3 DEF WriteIdentity, FilesTyped
<1>4. ASSUME NEW k \in IdKey, CreateIdentity(k) \/ EditIdentity(k) PROVE Other
  BY <1>4 DEF CreateIdentity, EditIdentity, FilesTyped
<1>5. ASSUME NEW p \in PeerAddr, RecordPeer(p) PROVE Other
  BY <1>5 DEF RecordPeer, FilesTyped
<1>6. CASE WritePeers
  BY <1>6 DEF WritePeers, FilesTyped, FilesInv
<1>7. CASE StopNode
  BY <1>7 DEF StopNode, FilesTyped
<1>8. CASE UNCHANGED fileVars
  BY <1>8 DEF fileVars, FilesTyped
<1> HIDE DEF Other
<1> QED  BY <1>2, <1>3, <1>4, <1>5, <1>6, <1>7, <1>8 DEF NodeFilesNext

\* What a bandit has counted, and its sums within the counts.
Tallied(counts) ==
  /\ counts \in Bandit
  /\ \A k \in Scope \X Candidate : counts[k].sum <= 2 * counts[k].n

Outcome == [scope : Scope, peer : Candidate, reward : Reward]

LearningTyped ==
  /\ LearningInv
  /\ tried \in [Candidate -> 0..MaxCount]
  /\ Tallied(bandit) /\ Tallied(saved) /\ Tallied(flushed)
  /\ qs \in [Target \X Candidate -> 0..Q_INIT]
  /\ recorded \in [Recorder -> Outcome \cup {NoOutcome}]
  /\ \A t \in Recorder : Tallied(copied[t])
  /\ \A t \in Recorder : at[t] = "reward" => recorded[t] \in Outcome
  /\ lost \in BOOLEAN

LEMMA LearningIsTyped == LearningTyped => LearningTypeOK
<1> SUFFICES ASSUME LearningTyped PROVE LearningTypeOK
  OBVIOUS
<1>1. copied \in [Recorder -> Bandit]
  BY DEF LearningTyped, LearningInv, Tallied
<1> QED  BY <1>1 DEF LearningTyped, LearningInv, LearningTypeOK, Tallied, Outcome

LEMMA NothingTallied == Tallied(NoCounts)
  BY LearningAssumption DEF Tallied, NoCounts, Bandit

LEMMA OneMoreTallied ==
  ASSUME NEW counts, Tallied(counts), NEW k \in Scope \X Candidate, NEW r \in 0..2,
         counts[k].n < MaxCount
  PROVE  Tallied([counts EXCEPT ![k] = [n |-> @.n + 1, sum |-> @.sum + r]])
<1> DEFINE new == [n |-> counts[k].n + 1, sum |-> counts[k].sum + r]
<1>1. /\ counts[k].n \in Nat /\ counts[k].sum \in Nat /\ counts[k].sum <= 2 * counts[k].n
  BY LearningAssumption DEF Tallied, Bandit
<1>2. /\ new \in [n : 0..MaxCount, sum : 0..(2 * MaxCount)]
      /\ new.sum <= 2 * new.n
  BY <1>1, LearningAssumption
<1> HIDE DEF new
<1>3. Tallied([counts EXCEPT ![k] = new])
  BY <1>2 DEF Tallied, Bandit
<1> QED  BY <1>3 DEF new

LEMMA LearningsInitially == LearningInit => LearningTyped
<1> SUFFICES ASSUME LearningInit PROVE LearningTyped
  OBVIOUS
<1>1. 0 \in 0..MaxCount /\ Q_INIT \in 0..Q_INIT
  BY LearningAssumption DEF Q_INIT
<1> QED  BY <1>1, LearningInitially, NothingTallied DEF LearningInit, LearningTyped

LEMMA EstimatesStay ==
  ASSUME NEW q \in 0..Q_INIT, NEW hop \in {0, Q_INIT}
  PROVE  Moved(q, hop) \in 0..Q_INIT
<1>1. \A n \in 0..400 : n \div 20 \in 0..20
  OBVIOUS
<1>2. (20 - 3) * q + 3 * hop \in 0..400
  BY DEF Q_INIT
<1> QED  BY <1>1, <1>2 DEF Moved, Q_INIT, Q_ALPHA

LEMMA LearningsStep == LearningTyped /\ [LearningNext]_learningVars => LearningTyped'
<1> SUFFICES ASSUME LearningTyped, [LearningNext]_learningVars PROVE LearningTyped'
  OBVIOUS
<1>1. LearningInv /\ LearningInv'
  BY LearningStep DEF LearningTyped
<1>2. at \in [Recorder -> {"idle", "reward", "persist", "save"}]
  BY <1>1 DEF LearningInv
<1>3. ASSUME NEW t \in Recorder, NEW s \in Scope, NEW p \in Candidate, NEW r \in Reward,
             StartRecord(t, s, p, r)
      PROVE  LearningTyped'
  <2> DEFINE new == [scope |-> s, peer |-> p, reward |-> r]
  <2>1. new \in Outcome
    BY DEF Outcome
  <2> HIDE DEF new
  <2>2. /\ recorded' = [recorded EXCEPT ![t] = new] /\ at' = [at EXCEPT ![t] = "reward"]
        /\ UNCHANGED <<bandit, saved, flushed, qs, copied, lost>>
    BY <1>3 DEF StartRecord, new
  <2>3. tried' \in [Candidate -> 0..MaxCount]
    BY <1>3, LearningAssumption DEF StartRecord, LearningTyped
  <2> QED  BY <1>1, <1>2, <2>1, <2>2, <2>3 DEF LearningTyped
<1>4. ASSUME NEW t \in Recorder, RecordReward(t)
      PROVE  LearningTyped'
  <2> DEFINE k == <<recorded[t].scope, recorded[t].peer>>
             r == recorded[t].reward
  <2>1. k \in Scope \X Candidate /\ r \in 0..2
    BY <1>4, LearningAssumption DEF RecordReward, LearningTyped, Outcome
  <2>2. /\ bandit[k].n < MaxCount
        /\ bandit' = [bandit EXCEPT ![k] = [n |-> @.n + 1, sum |-> @.sum + r]]
        /\ at' = [at EXCEPT ![t] = "persist"]
        /\ recorded' = [recorded EXCEPT ![t] = NoOutcome]
        /\ UNCHANGED <<tried, saved, flushed, qs, copied, lost>>
    BY <1>4 DEF RecordReward
  <2> HIDE DEF k, r
  <2>3. Tallied(bandit')
    BY <2>1, <2>2, OneMoreTallied DEF LearningTyped
  <2> QED  BY <1>1, <1>2, <2>2, <2>3 DEF LearningTyped
<1>5. ASSUME NEW t \in Recorder, Serialise(t)
      PROVE  LearningTyped'
  <2>1. copied = [u \in Recorder |-> copied[u]]
    BY <1>1 DEF LearningInv
  <2>2. /\ \A u \in Recorder : copied'[u] \in {bandit, copied[u]}
        /\ \A u \in Recorder : at'[u] = "reward" => at[u] = "reward"
        /\ UNCHANGED <<tried, bandit, saved, flushed, qs, recorded, lost>>
    BY <1>2, <1>5, <2>1 DEF Serialise
  <2>3. \A u \in Recorder : Tallied(copied'[u])
    BY <2>2 DEF LearningTyped
  <2> QED  BY <1>1, <2>2, <2>3 DEF LearningTyped
<1>6. ASSUME NEW t \in Recorder, Save(t)
      PROVE  LearningTyped'
  <2>1. copied = [u \in Recorder |-> copied[u]]
    BY <1>1 DEF LearningInv
  <2>2. /\ saved' \in {copied[t], saved} /\ lost' \in BOOLEAN
        /\ \A u \in Recorder : copied'[u] \in {NoCounts, copied[u]}
        /\ \A u \in Recorder : at'[u] = "reward" => at[u] = "reward"
        /\ UNCHANGED <<tried, bandit, flushed, qs, recorded>>
    BY <1>2, <1>6, <2>1 DEF Save
  <2>3. Tallied(saved') /\ \A u \in Recorder : Tallied(copied'[u])
    BY <2>2, NothingTallied DEF LearningTyped
  <2> QED  BY <1>1, <2>2, <2>3 DEF LearningTyped
<1>7. ASSUME NEW d1 \in Target, NEW p \in Candidate, NEW hop \in {0, Q_INIT}, QRecord(d1, p, hop)
      PROVE  LearningTyped'
  <2> DEFINE k == <<d1, p>>
  <2>1. k \in Target \X Candidate
    OBVIOUS
  <2>2. /\ qs' = [qs EXCEPT ![k] = Moved(qs[k], hop)]
        /\ UNCHANGED <<tried, bandit, saved, flushed, at, recorded, copied, lost>>
    BY <1>7 DEF QRecord
  <2> HIDE DEF k
  <2>3. qs' \in [Target \X Candidate -> 0..Q_INIT]
    BY <2>1, <2>2, EstimatesStay DEF LearningTyped
  <2> QED  BY <1>1, <2>2, <2>3 DEF LearningTyped
<1>8. CASE StoreFlushed \/ UNCHANGED learningVars
  BY <1>1, <1>8 DEF StoreFlushed, learningVars, LearningTyped
<1>9. CASE RestartRouter
  <2>1. /\ Tallied(saved') /\ Tallied(bandit') /\ Tallied(flushed')
    BY <1>9 DEF RestartRouter, LearningTyped
  <2>2. /\ 0 \in 0..MaxCount /\ Q_INIT \in 0..Q_INIT
    BY LearningAssumption DEF Q_INIT
  <2> QED  BY <1>1, <1>9, <2>1, <2>2, NothingTallied DEF RestartRouter, LearningTyped
<1> QED  BY <1>3, <1>4, <1>5, <1>6, <1>7, <1>8, <1>9 DEF LearningNext

MessengerTyped == MessengerInv /\ Len(log) <= InboxCap

LEMMA MessengerIsTyped == MessengerTyped => MessengerTypeOK
  BY DEF MessengerTyped, MessengerInv, EntryInv, PushTypes, ViewInv, ViewTypes, MessengerTypeOK

LEMMA MessengersInitially == MessengerInit => MessengerTyped
<1> SUFFICES ASSUME MessengerInit PROVE Len(log) <= InboxCap
  BY MessengerInitially DEF MessengerTyped
<1>1. Len(log) = 0
  BY DEF MessengerInit
<1> QED  BY <1>1, MessengerAssumption

LEMMA MessengersStep == MessengerTyped /\ [MessengerNext]_messengerVars => MessengerTyped'
<1> SUFFICES ASSUME MessengerTyped, [MessengerNext]_messengerVars PROVE Len(log') <= InboxCap
  BY MessengerStep DEF MessengerTyped
<1>1. log \in Seq(ChatEntry) /\ Len(log) <= InboxCap /\ Len(log) \in Nat /\ InboxCap \in Nat
  BY MessengerAssumption DEF MessengerTyped, MessengerInv, EntryInv, PushTypes
<1>2. ASSUME NEW t \in Pusher, AppendToLog(t)
      PROVE  Len(log') <= InboxCap
  <2> DEFINE x   == push[t].entry
             all == Append(log, x)
  <2>1. x \in ChatEntry
    BY <1>2, PushingIs DEF AppendToLog, MessengerTyped, MessengerInv, EntryInv, Holds
  <2> HIDE DEF x
  <2>2. all \in Seq(ChatEntry) /\ Len(all) = Len(log) + 1
    BY <1>1, <2>1
  <2>3. log' = IF Len(all) > InboxCap THEN Tail(all) ELSE all
    BY <1>2 DEF AppendToLog, x
  <2> HIDE DEF all
  <2>4. CASE Len(all) > InboxCap
    <3>1. all # <<>>
      BY <1>1, <2>2
    <3>2. Len(Tail(all)) = Len(all) - 1
      BY <2>2, <3>1
    <3> QED  BY <1>1, <2>2, <2>3, <2>4, <3>2
  <2>5. CASE ~(Len(all) > InboxCap)
    BY <1>1, <2>2, <2>3, <2>5
  <2> QED  BY <2>4, <2>5
<1>3. ASSUME NEW t \in Pusher, NEW x \in Letter, FlagDelivered(t, x)
      PROVE  Len(log') <= InboxCap
  <2>1. DOMAIN log = 1..Len(log)
    BY <1>1
  <2>2. log' = [i \in 1..Len(log) |-> IF log[i].id = x
                                      THEN [log[i] EXCEPT !.delivered = TRUE] ELSE log[i]]
    BY <1>3, <2>1 DEF FlagDelivered
  <2>3. Len(log') = Len(log)
    BY <1>1, <2>2
  <2> QED  BY <1>1, <2>3
<1>4. CASE UNCHANGED log
  BY <1>1, <1>4
<1> QED  BY <1>2, <1>3, <1>4
         DEF MessengerNext, TakeIn, PostSend, TakeNumber, PublishNew, AnnounceDelivered, AnnouncePeer,
             OpenChat, ReadHistory, Subscribe, Unsubscribe, ReceiveEvent, messengerVars, pushVars

-----------------------------------------------------------------------------
(* The node.                                                               *)

NodeInv ==
  /\ SessionTyped /\ HeartbeatTyped /\ FrameTyped /\ OnionTyped /\ RelayInv
  /\ HolePunchInv /\ StunInv /\ DiscoveryInv /\ ContentTyped
  /\ NameInv /\ FilesTyped /\ PortInv /\ LearningTyped /\ TraceInv /\ MessengerTyped

\* A step of the node is a step of one part, and the others stand still.
LEMMA NodeStepIsParts ==
  ASSUME [NodeNext]_nodeVars
  PROVE  /\ [SessionNext]_sessionVars /\ [HeartbeatNext]_heartbeatVars
         /\ [FrameNext]_frameVars /\ [OnionNext]_onionVars
         /\ [NatRelayNext]_natRelayVars /\ [HolePunchNext]_holePunchVars
         /\ [StunNext]_stunVars /\ [DiscoveryNext]_discoveryVars
         /\ [ContentNext]_contentVars /\ [NameNext]_nameVars
         /\ [NodeFilesNext]_fileVars /\ [ServicesNext]_servicesVars
         /\ [LearningNext]_learningVars /\ [TraceNext]_traceVars
         /\ [MessengerNext]_messengerVars
BY DEF NodeNext, nodeVars, links, network, local

\* The properties of the parts hold of the node: it takes each part through its
\* own initial states and steps, and pings under its own fairness (Node::start
\* spawns the tasks of all parts in one process).
THEOREM NodeIsItsParts ==
  NodeSpec =>
    /\ SessionSpec /\ HeartbeatSpec /\ FrameSpec /\ OnionSpec /\ NatRelaySpec
    /\ HolePunchSpec /\ StunSpec /\ DiscoverySpec /\ ContentSpec
    /\ NameSpec /\ NodeFilesSpec /\ ServicesSpec /\ LearningSpec /\ TraceSpec
    /\ MessengerSpec
<1>1. NodeInit => /\ SessionInit /\ HeartbeatInit /\ FrameInit /\ OnionInit /\ NatRelayInit
                  /\ HolePunchInit /\ StunInit /\ DiscoveryInit /\ ContentInit
                  /\ NameInit /\ NodeFilesInit /\ ServicesInit /\ LearningInit /\ TraceInit
                  /\ MessengerInit
  BY DEF NodeInit
<1> QED  BY <1>1, NodeStepIsParts, PTL
         DEF NodeSpec, SessionSpec, HeartbeatSpec, FrameSpec, OnionSpec, NatRelaySpec,
             HolePunchSpec, StunSpec, DiscoverySpec, ContentSpec, NameSpec, NodeFilesSpec,
             ServicesSpec, LearningSpec, TraceSpec, MessengerSpec

\* The state of every part is well typed.
THEOREM NodeTypeCorrect == NodeSpec => []NodeTypeOK
<1>1. NodeInit => NodeInv
  BY SessionsInitially, HeartbeatInitially, FramesInitially, OnionsInitially, RelayInitially,
     HolePunchInitially, StunInitially, DiscoveryInitially, ContentsInitially, NameInitially,
     NodeFilesInitially, PortsInitially, LearningsInitially, TraceInitially, MessengersInitially
     DEF NodeInit, NodeInv
<1>2. NodeInv /\ [NodeNext]_nodeVars => NodeInv'
  BY NodeStepIsParts, SessionsStep, HeartbeatStep, FramesStep, OnionsStep, RelayStep,
     HolePunchStep, StunStep, DiscoveryStep, ContentsStep, NameStep, NodeFilesStep, PortsStep,
     LearningsStep, TraceStep, MessengersStep DEF NodeInv
<1>3. NodeInv => NodeTypeOK
  BY SessionIsTyped, HeartbeatIsTyped, FrameIsTyped, OnionIsTyped,
     ContentIsTyped, FilesAreTyped, LearningIsTyped, MessengerIsTyped
     DEF NodeInv, NodeTypeOK, RelayInv, HolePunchInv, StunInv, DiscoveryInv, NameInv, PortInv, TraceInv
<1> QED  BY <1>1, <1>2, <1>3, PTL DEF NodeSpec

\* What the parts promise, at every moment.
PartsKeepTheirPromises ==
  /\ KeysExplained /\ CutEarned /\ ManualEntryOwned /\ ReceivedIsPrefix
  /\ ExitDelivers /\ Bridged /\ OneSidedExplained /\ AnswerAttributed /\ NotSilenced
  /\ FetchExplained /\ NamesSurvive /\ FilesKept /\ StoreCaughtUp
  /\ FindsApi /\ OracleBetween /\ ViewExplained

\* The node keeps the promises of all its parts, and no step of it refuses a
\* cell whose leg a relay has.
THEOREM NodeIsSafe == NodeSpec => []PartsKeepTheirPromises /\ RefusedWithoutLeg
<1>1. /\ KeysExplained /\ CutEarned /\ ManualEntryOwned /\ ReceivedIsPrefix
      /\ ExitDelivers /\ Bridged /\ OneSidedExplained /\ AnswerAttributed /\ NotSilenced
      /\ FetchExplained /\ NamesSurvive /\ FilesKept /\ StoreCaughtUp
      /\ FindsApi /\ OracleBetween /\ ViewExplained
      => PartsKeepTheirPromises
  BY DEF PartsKeepTheirPromises
<1> QED
  BY <1>1, NodeIsItsParts, KeysAreExplained, CutsAreEarned, ManualEntriesAreOwned,
     ReceivedPrefix, ExitsDeliver, RelayBridges, OneSidedIsExplained, AnswersAreAttributed,
     NobodyIsSilenced, FetchesAreExplained, NamesAreKept, FilesAreKept, StoreCatchesUp,
     ApisAreFound, OracleIsBetween, ViewsAreExplained, RefusalsAreExplained, PTL

=============================================================================
