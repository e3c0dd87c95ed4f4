------------------------------ MODULE LinkProofs ------------------------------
(***************************************************************************)
(* Theorems about one link between two nodes (SessionKeys, Heartbeat,      *)
(* FrameStream), for every value of their constants.  The parts share no   *)
(* state; each has an inductive invariant of its own.                      *)
(***************************************************************************)
EXTENDS SessionKeys, Heartbeat, FrameStream, SequenceTheorems, TLAPS

-----------------------------------------------------------------------------
(* Session keys.                                                           *)

LEMMA TwoEnds ==
  ASSUME NEW e \in End
  PROVE  Far(e) \in End /\ Far(e) # e /\ Far(Far(e)) = e /\ End = {e, Far(e)}
<1>1. PICK a \in End, b \in End : a # b /\ End = {a, b}
  BY SessionAssumption
<1>2. \E f \in End : f # e
  BY <1>1
<1>3. Far(e) \in End /\ Far(e) # e
  BY <1>2 DEF Far
<1>4. \E f \in End : f # Far(e)
  BY <1>3
<1>5. Far(Far(e)) \in End /\ Far(Far(e)) # Far(e)
  BY <1>4 DEF Far
<1> QED  BY <1>1, <1>3, <1>5

Frame == 0..(MaxDials + 2)

SessionTypes ==
  /\ dialled      \in 0..MaxDials
  /\ dialler      \in [Conn -> End]
  /\ endState     \in [Conn -> [End -> {"unused", "greeting", "open", "closed"}]]
  /\ toEnd        \in [Conn -> [End -> Seq(Frame)]]
  /\ sessionKey   \in [End -> Key]

\* A greeting comes first, and not to an open end.
GreetingFirst(c, e) ==
  \A i \in DOMAIN toEnd[c][e] :
     toEnd[c][e][i] \in {Hello, HelloOk} => endState[c][e] # "open" /\ i = 1

\* An end of a connection nobody crossed uses its key, and so do its frames.
OwnKey(c, e) ==
  /\ endState[c][e] = "open" => sessionKey[e] = c
  /\ \A i \in DOMAIN toEnd[c][e] : toEnd[c][e][i] \in {c, Hello, HelloOk}

\* Before the listening side has answered, nothing came back.
NothingBefore(c) ==
  endState[c][Far(dialler[c])] \in {"unused", "greeting"} =>
     toEnd[c][dialler[c]] = <<>> /\ endState[c][dialler[c]] # "open"

ConnOK(c) ==
  /\ \A e \in End : GreetingFirst(c, e) /\ (c \notin crossed => OwnKey(c, e))
  /\ NothingBefore(c)
  /\ c > dialled => \A e \in End : endState[c][e] = "unused"

SessionInv ==
  /\ SessionTypes
  /\ \A c \in Conn : ConnOK(c)
  /\ undeciphered \subseteq crossed

LEMMA SessionInitially == SessionInit => SessionInv
<1> SUFFICES ASSUME SessionInit PROVE SessionInv
  OBVIOUS
<1>1. SessionTypes
  BY SessionAssumption DEF SessionInit, SessionTypes, Key
<1>2. ASSUME NEW c \in Conn PROVE ConnOK(c)
  <2>1. \A e \in End : endState[c][e] = "unused" /\ toEnd[c][e] = <<>>
    BY DEF SessionInit
  <2>2. dialler[c] \in End /\ Far(dialler[c]) \in End
    BY <1>1, TwoEnds DEF SessionTypes
  <2> QED  BY <2>1, <2>2 DEF ConnOK, GreetingFirst, OwnKey, NothingBefore
<1> QED  BY <1>1, <1>2 DEF SessionInv, SessionInit

\* A connection that a step leaves alone: whoever sets a key then crosses it.
LEMMA Untouched ==
  ASSUME SessionInv, NEW c \in Conn, ConnOK(c),
         endState'[c] = endState[c], toEnd'[c] = toEnd[c], dialler' = dialler,
         dialled' \in Nat, dialled' >= dialled,
         crossed \subseteq crossed',
         \/ c \in crossed'
         \/ ~Live(c)
         \/ sessionKey' = sessionKey
  PROVE  ConnOK(c)'
<1>1. \A e \in End : GreetingFirst(c, e)'
  BY DEF ConnOK, GreetingFirst, Hello, HelloOk
<1>2. NothingBefore(c)'
  BY DEF ConnOK, NothingBefore
<1>3. ASSUME c \notin crossed', NEW e \in End PROVE OwnKey(c, e)'
  BY <1>3 DEF ConnOK, OwnKey, Live, Hello, HelloOk
<1>4. c > dialled' => c > dialled
  BY SessionAssumption DEF SessionInv, SessionTypes, Conn
<1> QED  BY <1>1, <1>2, <1>3, <1>4 DEF ConnOK

\* A handshake message is read: SetKey and the connection's own change.
LEMMA GreetingRead ==
  ASSUME SessionInv, NEW c \in Conn, NEW e \in End, SetKey(e, c),
         endState[c][e] = "greeting", toEnd[c][e] # <<>>,
         endState' = [endState EXCEPT ![c][e] = "open"],
         toEnd'[c][e] = Tail(toEnd[c][e]),
         UNCHANGED <<dialled, dialler, undeciphered>>,
         \A d \in Conn \ {c} : toEnd'[d] = toEnd[d],
         toEnd' \in [Conn -> [End -> Seq(Frame)]]
  PROVE  /\ SessionTypes'
         /\ \A d \in Conn \ {c} : ConnOK(d)'
         /\ undeciphered' \subseteq crossed'
         /\ GreetingFirst(c, e)' /\ (c \notin crossed' => OwnKey(c, e)')
         /\ c <= dialled
         /\ crossed \subseteq crossed'
         /\ endState'[c][e] = "open" /\ endState'[c][Far(e)] = endState[c][Far(e)]
         /\ sessionKey'[Far(e)] = sessionKey[Far(e)]
<1>1. /\ sessionKey' = [sessionKey EXCEPT ![e] = c]
      /\ crossed' = crossed \cup {d \in Conn \ {c} : Live(d)}
  BY DEF SetKey, NewKey
<1>2. SessionTypes'
  <2>1. c \in Key
    BY SessionAssumption DEF Conn, Key
  <2>2. sessionKey' \in [End -> Key]
    BY <1>1, <2>1 DEF SessionInv, SessionTypes
  <2>3. endState' \in [Conn -> [End -> {"unused", "greeting", "open", "closed"}]]
    BY DEF SessionInv, SessionTypes
  <2> QED  BY <2>2, <2>3 DEF SessionInv, SessionTypes
<1>3. \A d \in Conn \ {c} : endState'[d] = endState[d]
  BY DEF SessionInv, SessionTypes
<1>4. ASSUME NEW d \in Conn \ {c} PROVE ConnOK(d)'
  <2>1. d \in crossed' \/ ~Live(d)
    BY <1>1, <1>4
  <2>2. dialled' \in Nat /\ dialled' >= dialled
    BY SessionAssumption DEF SessionInv, SessionTypes
  <2>3. ConnOK(d) /\ d \in Conn
    BY <1>4 DEF SessionInv
  <2> QED  BY <1>1, <1>3, <1>4, <2>1, <2>2, <2>3, Untouched
<1>5. /\ endState'[c][e] = "open" /\ endState'[c][Far(e)] = endState[c][Far(e)]
      /\ sessionKey'[e] = c /\ sessionKey'[Far(e)] = sessionKey[Far(e)]
  BY <1>1, TwoEnds DEF SessionInv, SessionTypes
<1>6. /\ toEnd[c][e] \in Seq(Frame)
      /\ \A i \in DOMAIN toEnd[c][e] : toEnd[c][e][i] \in {Hello, HelloOk} => i = 1
      /\ c \notin crossed => \A i \in DOMAIN toEnd[c][e] : toEnd[c][e][i] \in {c, Hello, HelloOk}
  BY DEF SessionInv, SessionTypes, ConnOK, GreetingFirst, OwnKey
<1>7. \A i \in DOMAIN Tail(toEnd[c][e]) :
         /\ i + 1 \in DOMAIN toEnd[c][e] /\ Tail(toEnd[c][e])[i] = toEnd[c][e][i + 1]
         /\ i + 1 # 1
  BY <1>6
<1>8. GreetingFirst(c, e)' /\ (c \notin crossed' => OwnKey(c, e)')
  BY <1>1, <1>5, <1>6, <1>7 DEF GreetingFirst, OwnKey, Hello, HelloOk
<1>9. c <= dialled
  BY SessionAssumption DEF SessionInv, SessionTypes, ConnOK, Conn
<1> QED  BY <1>1, <1>2, <1>4, <1>5, <1>8, <1>9 DEF SessionInv

LEMMA DialOutKeeps ==
  ASSUME SessionInv, DialOut,
         NEW new, new = dialled + 1, NEW l, l = Far(dialler[new])
  PROVE  SessionInv'
<1>1. /\ dialled < MaxDials /\ dialled' = new
      /\ endState' = [endState EXCEPT ![new] = [e \in End |-> "greeting"]]
      /\ toEnd' = [toEnd EXCEPT ![new][l] = <<Hello>>]
      /\ UNCHANGED <<dialler, sessionKey, crossed, undeciphered>>
  BY DEF DialOut
<1>2. new \in Conn /\ new \in 0..MaxDials /\ new > dialled
  BY <1>1, SessionAssumption DEF SessionInv, SessionTypes, Conn
<1>3. dialler[new] \in End /\ l \in End /\ l # dialler[new] /\ End = {dialler[new], l}
  BY <1>2, TwoEnds DEF SessionInv, SessionTypes
<1>4. <<Hello>> \in Seq(Frame)
  BY SessionAssumption DEF Hello, Frame
<1>5. SessionTypes'
  <2>1. toEnd' \in [Conn -> [End -> Seq(Frame)]]
    BY <1>1, <1>2, <1>3, <1>4 DEF SessionInv, SessionTypes
  <2>2. endState' \in [Conn -> [End -> {"unused", "greeting", "open", "closed"}]]
    BY <1>1, <1>2 DEF SessionInv, SessionTypes
  <2> QED  BY <1>1, <1>2, <2>1, <2>2 DEF SessionInv, SessionTypes
<1>6. ASSUME NEW d \in Conn, d # new PROVE ConnOK(d)'
  <2>1. endState'[d] = endState[d] /\ toEnd'[d] = toEnd[d]
    BY <1>1, <1>2, <1>6 DEF SessionInv, SessionTypes
  <2>2. dialled' \in Nat /\ dialled' >= dialled
    BY <1>1, SessionAssumption DEF SessionInv, SessionTypes
  <2>3. ConnOK(d)
    BY DEF SessionInv
  <2> QED  BY <1>1, <2>1, <2>2, <2>3, Untouched
<1>7. ConnOK(new)'
  <2>1. \A e \in End : endState[new][e] = "unused"
    BY <1>2 DEF SessionInv, ConnOK
  <2>2. toEnd[new][dialler[new]] = <<>>
    BY <1>2, <1>3, <2>1 DEF SessionInv, ConnOK, NothingBefore
  <2>3. /\ \A e \in End : endState'[new][e] = "greeting"
        /\ toEnd'[new][l] = <<Hello>> /\ toEnd'[new][dialler[new]] = <<>>
    BY <1>1, <1>2, <1>3, <2>2 DEF SessionInv, SessionTypes
  <2>4. \A e \in End : GreetingFirst(new, e)'
    BY <1>1, <1>3, <2>3 DEF GreetingFirst, Hello, HelloOk
  <2>5. \A e \in End : OwnKey(new, e)'
    BY <1>1, <1>3, <2>3 DEF OwnKey, Hello, HelloOk
  <2>6. NothingBefore(new)'
    BY <1>1, <1>3, <2>3 DEF NothingBefore
  <2>7. ~(new > dialled')
    BY <1>1, <1>2
  <2> QED  BY <2>4, <2>5, <2>6, <2>7 DEF ConnOK
<1> QED  BY <1>1, <1>5, <1>6, <1>7 DEF SessionInv

LEMMA AnswerHelloKeeps ==
  ASSUME SessionInv, NEW c \in Conn, AnswerHello(c),
         NEW e, e = Far(dialler[c]), NEW d, d = dialler[c]
  PROVE  SessionInv'
<1>1. /\ endState[c][e] = "greeting" /\ toEnd[c][e] # <<>> /\ SetKey(e, c)
      /\ toEnd' = [toEnd EXCEPT ![c][e] = Tail(@), ![c][Far(e)] = Append(@, HelloOk)]
      /\ endState' = [endState EXCEPT ![c][e] = "open"]
      /\ UNCHANGED <<dialled, dialler, undeciphered>>
  BY DEF AnswerHello
<1>2. d \in End /\ e \in End /\ e # d /\ Far(e) = d /\ End = {d, e}
  BY TwoEnds DEF SessionInv, SessionTypes
<1>3. toEnd[c][d] = <<>> /\ endState[c][d] # "open"
  BY <1>1 DEF SessionInv, ConnOK, NothingBefore
<1>4. /\ toEnd'[c][e] = Tail(toEnd[c][e]) /\ toEnd'[c][d] = <<HelloOk>>
      /\ \A b \in Conn \ {c} : toEnd'[b] = toEnd[b]
      /\ toEnd' \in [Conn -> [End -> Seq(Frame)]]
  <2>1. Tail(toEnd[c][e]) \in Seq(Frame)
    BY <1>1, <1>2 DEF SessionInv, SessionTypes
  <2>2. Append(toEnd[c][d], HelloOk) = <<HelloOk>> /\ <<HelloOk>> \in Seq(Frame)
    BY <1>3, SessionAssumption DEF HelloOk, Frame
  <2> QED  BY <1>1, <1>2, <2>1, <2>2 DEF SessionInv, SessionTypes
<1>5. /\ SessionTypes'
      /\ \A b \in Conn \ {c} : ConnOK(b)'
      /\ undeciphered' \subseteq crossed'
      /\ GreetingFirst(c, e)' /\ (c \notin crossed' => OwnKey(c, e)')
      /\ c <= dialled
      /\ endState'[c][e] = "open" /\ endState'[c][d] = endState[c][d]
  <2>1. /\ \A b \in Conn \ {c} : toEnd'[b] = toEnd[b]
        /\ toEnd'[c][e] = Tail(toEnd[c][e]) /\ toEnd' \in [Conn -> [End -> Seq(Frame)]]
    BY <1>4
  <2>2. /\ endState[c][e] = "greeting" /\ toEnd[c][e] # <<>> /\ SetKey(e, c)
        /\ endState' = [endState EXCEPT ![c][e] = "open"]
        /\ UNCHANGED <<dialled, dialler, undeciphered>>
    BY <1>1
  <2>3. e \in End /\ Far(e) = d
    BY <1>2
  <2>4. /\ SessionTypes'
        /\ \A b \in Conn \ {c} : ConnOK(b)'
        /\ undeciphered' \subseteq crossed'
        /\ GreetingFirst(c, e)' /\ (c \notin crossed' => OwnKey(c, e)')
        /\ c <= dialled
        /\ endState'[c][e] = "open" /\ endState'[c][Far(e)] = endState[c][Far(e)]
    BY <2>1, <2>2, <2>3, GreetingRead
  <2> QED  BY <2>3, <2>4
<1>6. GreetingFirst(c, d)' /\ OwnKey(c, d)'
  BY <1>3, <1>4, <1>5 DEF GreetingFirst, OwnKey, Hello, HelloOk
<1>7. NothingBefore(c)'
  BY <1>1, <1>5 DEF NothingBefore
<1>8. ~(c > dialled')
  BY <1>1, <1>5, SessionAssumption DEF SessionInv, SessionTypes, Conn
<1> QED  BY <1>2, <1>5, <1>6, <1>7, <1>8 DEF SessionInv, ConnOK

LEMMA FinishHelloKeeps ==
  ASSUME SessionInv, NEW c \in Conn, FinishHello(c),
         NEW e, e = dialler[c], NEW l, l = Far(dialler[c])
  PROVE  SessionInv'
<1>1. /\ endState[c][e] = "greeting" /\ toEnd[c][e] # <<>> /\ SetKey(e, c)
      /\ toEnd' = [toEnd EXCEPT ![c][e] = Tail(@)]
      /\ endState' = [endState EXCEPT ![c][e] = "open"]
      /\ UNCHANGED <<dialled, dialler, undeciphered>>
  BY DEF FinishHello
<1>2. e \in End /\ l \in End /\ e # l /\ Far(e) = l /\ End = {e, l}
  BY TwoEnds DEF SessionInv, SessionTypes
<1>3. endState[c][l] \notin {"unused", "greeting"}
  BY <1>1 DEF SessionInv, ConnOK, NothingBefore
<1>4. /\ toEnd'[c][e] = Tail(toEnd[c][e]) /\ toEnd'[c][l] = toEnd[c][l]
      /\ \A b \in Conn \ {c} : toEnd'[b] = toEnd[b]
      /\ toEnd' \in [Conn -> [End -> Seq(Frame)]]
  <2>1. Tail(toEnd[c][e]) \in Seq(Frame)
    BY <1>1, <1>2 DEF SessionInv, SessionTypes
  <2> QED  BY <1>1, <1>2, <2>1 DEF SessionInv, SessionTypes
<1>5. /\ SessionTypes'
      /\ \A b \in Conn \ {c} : ConnOK(b)'
      /\ undeciphered' \subseteq crossed'
      /\ GreetingFirst(c, e)' /\ (c \notin crossed' => OwnKey(c, e)')
      /\ c <= dialled
      /\ crossed \subseteq crossed'
      /\ endState'[c][e] = "open" /\ endState'[c][l] = endState[c][l]
      /\ sessionKey'[l] = sessionKey[l]
  <2>1. /\ SessionTypes'
        /\ \A b \in Conn \ {c} : ConnOK(b)'
        /\ undeciphered' \subseteq crossed'
        /\ GreetingFirst(c, e)' /\ (c \notin crossed' => OwnKey(c, e)')
        /\ c <= dialled
        /\ crossed \subseteq crossed'
        /\ endState'[c][e] = "open" /\ endState'[c][Far(e)] = endState[c][Far(e)]
        /\ sessionKey'[Far(e)] = sessionKey[Far(e)]
    <3>1. /\ endState[c][e] = "greeting" /\ toEnd[c][e] # <<>> /\ SetKey(e, c)
          /\ endState' = [endState EXCEPT ![c][e] = "open"]
          /\ UNCHANGED <<dialled, dialler, undeciphered>>
      BY <1>1
    <3>2. /\ \A b \in Conn \ {c} : toEnd'[b] = toEnd[b]
          /\ toEnd'[c][e] = Tail(toEnd[c][e]) /\ toEnd' \in [Conn -> [End -> Seq(Frame)]]
      BY <1>4
    <3>3. e \in End
      BY <1>2
    <3> QED  BY <3>1, <3>2, <3>3, GreetingRead
  <2> QED  BY <2>1, <1>2
<1>6. GreetingFirst(c, l)' /\ (c \notin crossed' => OwnKey(c, l)')
  BY <1>2, <1>4, <1>5 DEF SessionInv, ConnOK, GreetingFirst, OwnKey, Hello, HelloOk
<1>7. NothingBefore(c)'
  BY <1>1, <1>3, <1>5 DEF NothingBefore
<1>8. ~(c > dialled')
  BY <1>1, <1>5, SessionAssumption DEF SessionInv, SessionTypes, Conn
<1> QED  BY <1>2, <1>5, <1>6, <1>7, <1>8 DEF SessionInv, ConnOK

\* A step of one end of one connection that sets no key.
LEMMA EndSteps ==
  ASSUME SessionInv, NEW c \in Conn, NEW e \in End,
         NEW f \in End,
         UNCHANGED <<dialled, dialler, sessionKey, crossed>>,
         undeciphered' \subseteq crossed,
         toEnd' \in [Conn -> [End -> Seq(Frame)]],
         endState' \in [Conn -> [End -> {"unused", "greeting", "open", "closed"}]],
         \A d \in Conn \ {c} : toEnd'[d] = toEnd[d] /\ endState'[d] = endState[d],
         ConnOK(c)'
  PROVE  SessionInv'
<1>1. SessionTypes'
  BY DEF SessionInv, SessionTypes
<1>2. ASSUME NEW d \in Conn \ {c} PROVE ConnOK(d)'
  <2>1. ConnOK(d) /\ dialled' \in Nat /\ dialled' >= dialled
    BY SessionAssumption DEF SessionInv, SessionTypes
  <2> QED  BY <2>1, Untouched
<1> QED  BY <1>1, <1>2 DEF SessionInv

LEMMA SendFrameKeeps ==
  ASSUME SessionInv, NEW c \in Conn, NEW e \in End, SendFrame(c, e)
  PROVE  SessionInv'
<1>1. /\ endState[c][e] = "open"
      /\ toEnd' = [toEnd EXCEPT ![c][Far(e)] = Append(@, sessionKey[e])]
      /\ UNCHANGED <<dialled, dialler, endState, sessionKey, crossed, undeciphered>>
  BY DEF SendFrame
<1>2. Far(e) \in End /\ Far(e) # e /\ End = {e, Far(e)}
  BY TwoEnds
<1>3. sessionKey[e] \in 0..MaxDials /\ sessionKey[e] \in Frame /\ toEnd[c][Far(e)] \in Seq(Frame)
  BY <1>2, SessionAssumption DEF SessionInv, SessionTypes, Key, Frame
<1>4. /\ toEnd'[c][Far(e)] = Append(toEnd[c][Far(e)], sessionKey[e])
      /\ toEnd'[c][e] = toEnd[c][e]
      /\ \A d \in Conn \ {c} : toEnd'[d] = toEnd[d] /\ endState'[d] = endState[d]
      /\ toEnd' \in [Conn -> [End -> Seq(Frame)]]
  <2>1. Append(toEnd[c][Far(e)], sessionKey[e]) \in Seq(Frame)
    BY <1>3
  <2> QED  BY <1>1, <1>2, <2>1 DEF SessionInv, SessionTypes
<1>5. sessionKey[e] \notin {Hello, HelloOk}
  BY <1>3, SessionAssumption DEF Hello, HelloOk
<1>6. \A i \in DOMAIN toEnd'[c][Far(e)] :
         toEnd'[c][Far(e)][i] = sessionKey[e]
           \/ (i \in DOMAIN toEnd[c][Far(e)] /\ toEnd'[c][Far(e)][i] = toEnd[c][Far(e)][i])
  BY <1>3, <1>4
<1>7. \A g \in End : GreetingFirst(c, g)'
  BY <1>1, <1>2, <1>4, <1>5, <1>6 DEF SessionInv, ConnOK, GreetingFirst, Hello, HelloOk
<1>8. ASSUME c \notin crossed PROVE \A g \in End : OwnKey(c, g)'
  BY <1>1, <1>2, <1>4, <1>6, <1>8 DEF SessionInv, ConnOK, OwnKey, Hello, HelloOk
<1>9. NothingBefore(c)'
  <2>1. CASE Far(e) = dialler[c]
    <3>1. Far(dialler[c]) = e
      BY <2>1, TwoEnds
    <3> QED  BY <1>1, <3>1 DEF NothingBefore
  <2>2. CASE Far(e) # dialler[c]
    <3>1. dialler[c] = e
      BY <1>2, <2>2 DEF SessionInv, SessionTypes
    <3> QED  BY <1>1, <1>4, <3>1 DEF SessionInv, ConnOK, NothingBefore
  <2> QED  BY <2>1, <2>2
<1>10. ConnOK(c)'
  BY <1>1, <1>7, <1>8, <1>9 DEF SessionInv, ConnOK
<1> QED  BY <1>1, <1>4, <1>10, EndSteps DEF SessionInv, SessionTypes

\* An end closes, or takes a frame that is not a greeting.
LEMMA FewerFrames ==
  ASSUME SessionInv, NEW c \in Conn, NEW e \in End,
         UNCHANGED <<dialled, dialler, sessionKey, crossed>>,
         toEnd' \in [Conn -> [End -> Seq(Frame)]],
         endState' \in [Conn -> [End -> {"unused", "greeting", "open", "closed"}]],
         endState[c][e] # "unused",
         endState'[c][e] = "closed" \/ (endState'[c][e] = endState[c][e] /\ endState[c][e] = "open"),
         toEnd'[c][e] = <<>> \/ (toEnd[c][e] # <<>> /\ toEnd'[c][e] = Tail(toEnd[c][e])),
         toEnd'[c][Far(e)] = toEnd[c][Far(e)], endState'[c][Far(e)] = endState[c][Far(e)]
  PROVE  ConnOK(c)'
<1>1. Far(e) \in End /\ Far(e) # e /\ End = {e, Far(e)} /\ Far(Far(e)) = e
  BY TwoEnds
<1>2. toEnd[c][e] \in Seq(Frame)
  BY DEF SessionInv, SessionTypes
<1>3. \A i \in DOMAIN toEnd'[c][e] :
         i + 1 \in DOMAIN toEnd[c][e] /\ toEnd'[c][e][i] = toEnd[c][e][i + 1] /\ i + 1 # 1
  <2>1. CASE toEnd'[c][e] = <<>>
    BY <2>1
  <2>2. CASE toEnd[c][e] # <<>> /\ toEnd'[c][e] = Tail(toEnd[c][e])
    <3>1. \A i \in DOMAIN Tail(toEnd[c][e]) :
            i + 1 \in DOMAIN toEnd[c][e] /\ Tail(toEnd[c][e])[i] = toEnd[c][e][i + 1] /\ i + 1 # 1
      BY <1>2, <2>2
    <3> QED  BY <2>2, <3>1
  <2> QED  BY <2>1, <2>2
<1>4. \A i \in DOMAIN toEnd'[c][e] : toEnd'[c][e][i] \notin {Hello, HelloOk}
  BY <1>3 DEF SessionInv, ConnOK, GreetingFirst
<1>5. \A g \in End : GreetingFirst(c, g)'
  BY <1>1, <1>4 DEF SessionInv, ConnOK, GreetingFirst, Hello, HelloOk
<1>6. ASSUME c \notin crossed PROVE \A g \in End : OwnKey(c, g)'
  BY <1>1, <1>3, <1>6 DEF SessionInv, ConnOK, OwnKey, Hello, HelloOk
<1>7. NothingBefore(c)'
  <2>1. dialler[c] \in {e, Far(e)}
    BY <1>1 DEF SessionInv, SessionTypes
  <2>2. CASE dialler[c] = Far(e)
    <3>1. Far(dialler[c]) = e /\ (endState[c][e] = "greeting" => endState'[c][e] = "closed")
      BY <1>1, <2>2
    <3> QED  BY <2>2, <3>1 DEF SessionInv, ConnOK, NothingBefore
  <2>3. CASE dialler[c] = e
    <3>1. toEnd[c][e] = <<>> => toEnd'[c][e] = <<>>
      OBVIOUS
    <3> QED  BY <2>3, <3>1 DEF SessionInv, ConnOK, NothingBefore
  <2> QED  BY <2>1, <2>2, <2>3
<1>8. ~(c > dialled)
  BY DEF SessionInv, ConnOK
<1> QED  BY <1>5, <1>6, <1>7, <1>8 DEF ConnOK

LEMMA ShutTypes ==
  ASSUME SessionInv, NEW c \in Conn, NEW e \in End, Shut(c, e)
  PROVE  /\ toEnd' \in [Conn -> [End -> Seq(Frame)]]
         /\ endState' \in [Conn -> [End -> {"unused", "greeting", "open", "closed"}]]
         /\ endState'[c][e] = "closed" /\ toEnd'[c][e] = <<>>
         /\ toEnd'[c][Far(e)] = toEnd[c][Far(e)] /\ endState'[c][Far(e)] = endState[c][Far(e)]
         /\ \A d \in Conn \ {c} : toEnd'[d] = toEnd[d] /\ endState'[d] = endState[d]
  BY TwoEnds DEF Shut, SessionInv, SessionTypes

LEMMA ReadFrameKeeps ==
  ASSUME SessionInv, NEW c \in Conn, NEW e \in End, ReadFrame(c, e)
  PROVE  SessionInv'
<1>1. /\ endState[c][e] = "open" /\ toEnd[c][e] # <<>>
      /\ UNCHANGED <<dialled, dialler, sessionKey, crossed>>
  BY DEF ReadFrame
<1>2. CASE Readable(Head(toEnd[c][e]), e)
  <2>1. toEnd' = [toEnd EXCEPT ![c][e] = Tail(@)] /\ UNCHANGED <<endState, undeciphered>>
    BY <1>2 DEF ReadFrame
  <2>2. Tail(toEnd[c][e]) \in Seq(Frame)
    BY <1>1 DEF SessionInv, SessionTypes
  <2>3. /\ toEnd' \in [Conn -> [End -> Seq(Frame)]]
        /\ toEnd'[c][e] = Tail(toEnd[c][e])
        /\ toEnd'[c][Far(e)] = toEnd[c][Far(e)]
        /\ \A d \in Conn \ {c} : toEnd'[d] = toEnd[d]
    BY <2>1, <2>2, TwoEnds DEF SessionInv, SessionTypes
  <2>4. endState' \in [Conn -> [End -> {"unused", "greeting", "open", "closed"}]]
    BY <2>1 DEF SessionInv, SessionTypes
  <2>5. ConnOK(c)'
    BY <1>1, <2>1, <2>3, <2>4, FewerFrames
  <2> QED  BY <1>1, <2>1, <2>3, <2>4, <2>5, EndSteps DEF SessionInv
<1>3. CASE ~Readable(Head(toEnd[c][e]), e)
  <2>1. Shut(c, e) /\ undeciphered' = undeciphered \cup {c}
    BY <1>3 DEF ReadFrame
  <2>2. c \in crossed
    <3>1. 1 \in DOMAIN toEnd[c][e] /\ Head(toEnd[c][e]) = toEnd[c][e][1]
      BY <1>1 DEF SessionInv, SessionTypes
    <3>2. toEnd[c][e][1] \notin {Hello, HelloOk}
      BY <1>1, <3>1 DEF SessionInv, ConnOK, GreetingFirst
    <3> QED  BY <1>1, <1>3, <3>1, <3>2 DEF SessionInv, ConnOK, OwnKey, Readable
  <2>3. ConnOK(c)'
    BY <1>1, <2>1, ShutTypes, FewerFrames
  <2>4. undeciphered' \subseteq crossed
    BY <2>1, <2>2 DEF SessionInv
  <2> QED  BY <1>1, <2>1, <2>3, <2>4, ShutTypes, EndSteps
<1> QED  BY <1>2, <1>3

LEMMA CloseEndKeeps ==
  ASSUME SessionInv, NEW c \in Conn, NEW e \in End, CloseEnd(c, e)
  PROVE  SessionInv'
<1>1. /\ endState[c][e] \in {"greeting", "open"} /\ Shut(c, e)
      /\ UNCHANGED <<dialled, dialler, sessionKey, crossed, undeciphered>>
  BY DEF CloseEnd
<1>2. ConnOK(c)'
  BY <1>1, ShutTypes, FewerFrames
<1>3. undeciphered' \subseteq crossed
  BY <1>1 DEF SessionInv
<1> QED  BY <1>1, <1>2, <1>3, ShutTypes, EndSteps

LEMMA RestartEndKeeps ==
  ASSUME SessionInv, NEW e \in End, RestartEnd(e)
  PROVE  SessionInv'
<1>1. /\ sessionKey' = [sessionKey EXCEPT ![e] = 0]
      /\ endState' = [c \in Conn |-> [endState[c] EXCEPT ![e] =
                         IF @ = "unused" THEN @ ELSE "closed"]]
      /\ toEnd' = [c \in Conn |-> [toEnd[c] EXCEPT ![e] = <<>>]]
      /\ UNCHANGED <<dialled, dialler, crossed, undeciphered>>
  BY DEF RestartEnd
<1>2. Far(e) \in End /\ Far(e) # e /\ End = {e, Far(e)} /\ Far(Far(e)) = e
  BY TwoEnds
<1>3. SessionTypes'
  <2>1. 0 \in Key
    BY SessionAssumption DEF Key
  <2>2. sessionKey' \in [End -> Key]
    BY <1>1, <2>1 DEF SessionInv, SessionTypes
  <2>3. endState' \in [Conn -> [End -> {"unused", "greeting", "open", "closed"}]]
    BY <1>1 DEF SessionInv, SessionTypes
  <2>4. toEnd' \in [Conn -> [End -> Seq(Frame)]]
    BY <1>1 DEF SessionInv, SessionTypes
  <2> QED  BY <1>1, <2>2, <2>3, <2>4 DEF SessionInv, SessionTypes
<1>4. ASSUME NEW c \in Conn PROVE ConnOK(c)'
  <2>1. /\ toEnd'[c][e] = <<>> /\ toEnd'[c][Far(e)] = toEnd[c][Far(e)]
        /\ endState'[c][e] = (IF endState[c][e] = "unused" THEN "unused" ELSE "closed")
        /\ endState'[c][Far(e)] = endState[c][Far(e)]
        /\ sessionKey'[Far(e)] = sessionKey[Far(e)]
    BY <1>1, <1>2 DEF SessionInv, SessionTypes
  <2>2. ConnOK(c)
    BY DEF SessionInv
  <2>3. \A g \in End : GreetingFirst(c, g)'
    BY <1>2, <2>1, <2>2 DEF ConnOK, GreetingFirst, Hello, HelloOk
  <2>4. c \notin crossed' => \A g \in End : OwnKey(c, g)'
    BY <1>1, <1>2, <2>1, <2>2 DEF ConnOK, OwnKey, Hello, HelloOk
  <2>5. dialler[c] \in {e, Far(e)} /\ dialler'[c] = dialler[c]
    BY <1>1, <1>2 DEF SessionInv, SessionTypes
  <2>6. NothingBefore(c)'
    BY <1>1, <1>2, <2>1, <2>2, <2>5 DEF ConnOK, NothingBefore
  <2>7. c > dialled' => \A g \in End : endState'[c][g] = "unused"
    BY <1>1, <1>2, <2>1, <2>2 DEF ConnOK
  <2> QED  BY <2>3, <2>4, <2>6, <2>7 DEF ConnOK
<1> QED  BY <1>1, <1>3, <1>4 DEF SessionInv

LEMMA SessionStep == SessionInv /\ [SessionNext]_sessionVars => SessionInv'
<1> SUFFICES ASSUME SessionInv, [SessionNext]_sessionVars
             PROVE  SessionInv'
  OBVIOUS
<1>1. CASE DialOut
  BY <1>1, DialOutKeeps
<1>2. ASSUME NEW c \in Conn, AnswerHello(c) \/ FinishHello(c)
      PROVE  SessionInv'
  BY <1>2, AnswerHelloKeeps, FinishHelloKeeps
<1>3. ASSUME NEW c \in Conn, NEW e \in End, SendFrame(c, e) \/ ReadFrame(c, e) \/ CloseEnd(c, e)
      PROVE  SessionInv'
  BY <1>3, SendFrameKeeps, ReadFrameKeeps, CloseEndKeeps
<1>4. ASSUME NEW e \in End, RestartEnd(e)
      PROVE  SessionInv'
  BY <1>4, RestartEndKeeps
<1>5. CASE UNCHANGED sessionVars
  <2>1. UNCHANGED <<dialled, dialler, endState, toEnd, sessionKey, crossed, undeciphered>>
    BY <1>5 DEF sessionVars
  <2>2. \A c \in Conn : ConnOK(c)'
    BY <2>1 DEF SessionInv, ConnOK, GreetingFirst, OwnKey, NothingBefore, Hello, HelloOk
  <2> QED  BY <2>1, <2>2 DEF SessionInv, SessionTypes
<1> QED  BY <1>1, <1>2, <1>3, <1>4, <1>5 DEF SessionNext

\* A connection nobody crossed has its own key at both ends, and only a crossed
\* one meets a frame it cannot decipher (set_session_key, get_session_key).
THEOREM KeysAreExplained == SessionSpec => []KeysExplained
<1>1. SessionInv => KeysExplained
  BY DEF SessionInv, ConnOK, OwnKey, KeysExplained, OwnKeyUnlessCrossed, UndecipheredExplained
<1> QED  BY <1>1, SessionInitially, SessionStep, PTL DEF SessionSpec

-----------------------------------------------------------------------------
(* Heartbeats.  A connection's count of silences is its own, or inherited. *)

SilenceInv ==
  /\ missed \in 0..2 /\ unanswered \in 0..2 /\ inherited \in 0..2
  /\ linkUp => unanswered <= missed /\ missed <= unanswered + inherited
  /\ CutEarned

LEMMA SilenceStep == SilenceInv /\ [HeartbeatNext]_heartbeatVars => SilenceInv'
<1> SUFFICES ASSUME SilenceInv, [HeartbeatNext]_heartbeatVars
             PROVE  SilenceInv'
  OBVIOUS
<1>1. CASE LinkStarts
  BY <1>1 DEF LinkStarts, SilenceInv, CutEarned
<1>2. CASE LinkEnds
  BY <1>2 DEF LinkEnds, Drop, SilenceInv, CutEarned
<1>3. CASE SilenceCounts
  <2>1. unanswered <= missed /\ missed <= unanswered + inherited
    BY <1>3 DEF SilenceCounts, SilenceInv
  <2>2. CASE missed < 2
    <3>1. missed' = missed + 1 /\ unanswered' = unanswered + 1 /\ UNCHANGED <<inherited, cut>>
      BY <1>3, <2>2 DEF SilenceCounts
    <3> QED  BY <2>1, <2>2, <3>1 DEF SilenceInv, CutEarned
  <2>3. CASE ~(missed < 2)
    <3>1. /\ missed' = 0 /\ ~linkUp' /\ UNCHANGED <<unanswered, inherited>>
          /\ cut' = [unanswered |-> unanswered, inherited |-> inherited]
      BY <1>3, <2>3 DEF SilenceCounts, Drop
    <3>2. missed = 2
      BY <2>3 DEF SilenceInv
    <3> QED  BY <2>1, <3>1, <3>2 DEF SilenceInv, CutEarned
  <2> QED  BY <2>2, <2>3
<1>4. CASE HandlePong
  BY <1>4 DEF HandlePong, MissedAfterPong, SilenceInv, CutEarned
<1>5. CASE \/ PeerAnswers
           \/ \E k \in Caller :
                \/ SendPing(k) \/ FinishPing(k) \/ ExpirePing(k) \/ RemoveExpired(k)
                \/ \E i \in Id : InsertPing(k, i) \/ NotConnected(k, i)
  <2>1. UNCHANGED <<linkUp, missed, unanswered, inherited, cut>>
    BY <1>5 DEF PeerAnswers, SendPing, FinishPing, ExpirePing, RemoveExpired, InsertPing, NotConnected
  <2> QED  BY <2>1 DEF SilenceInv, CutEarned
<1>6. CASE UNCHANGED heartbeatVars
  BY <1>6 DEF heartbeatVars, SilenceInv, CutEarned
<1> QED  BY <1>1, <1>2, <1>3, <1>4, <1>5, <1>6 DEF HeartbeatNext

\* A peer is given up only after silences that earn it (the read timeout and
\* the Pong arm of handle_connection).
THEOREM CutsAreEarned == HeartbeatSpec => []CutEarned
<1>1. HeartbeatInit => SilenceInv
  BY DEF HeartbeatInit, SilenceInv, CutEarned
<1>2. SilenceInv => CutEarned
  BY DEF SilenceInv
<1> QED  BY <1>1, <1>2, SilenceStep, PTL DEF HeartbeatSpec

-----------------------------------------------------------------------------
(* Manual pings.  The caller whose entry is pending has not been told yet. *)

PingTypes ==
  /\ manual \in [Id -> Caller \cup {NoCaller}]
  /\ name   \in [Caller -> Id]
  /\ step   \in [Caller -> Step]
  /\ result \in [Caller -> Result]

PendingIsUntold ==
  \A k \in Caller :
     /\ \A i \in Id : manual[i] = k => result[k] = "none"
     /\ step[k] = "idle" => result[k] = "none"
     /\ result[k] \in {"timeout", "failed"} => step[k] = "done"

PingInv == PingTypes /\ PendingIsUntold /\ ManualEntryOwned

\* What an idle caller has left behind: nothing.
LEMMA IdleCaller ==
  ASSUME PingInv, NEW k \in Caller, step[k] = "idle"
  PROVE  result[k] = "none" /\ \A i \in Id : manual[i] # k
  BY DEF PingInv, PendingIsUntold, ManualEntryOwned

\* Caller k ends with its own entry or another's removed.
LEMMA EntryRemoved ==
  ASSUME PingInv, NEW k \in Caller, NEW reason \in {"timeout", "failed"},
         step[k] \in {"inserted", "expired"},
         step' = [step EXCEPT ![k] = "done"],
         manual' = [manual EXCEPT ![name[k]] = NoCaller],
         result' = Canceled(k, reason),
         UNCHANGED name
  PROVE  PingInv'
<1> DEFINE owner == manual[name[k]]
<1> USE HeartbeatAssumption
<1>1. /\ name[k] \in Id /\ manual'[name[k]] = NoCaller
      /\ \A i \in Id : i # name[k] => manual'[i] = manual[i]
      /\ step'[k] = "done" /\ result'[k] = reason
      /\ \A r \in Caller \ {k} : /\ step'[r] = step[r]
                                 /\ result'[r] = IF r = owner /\ step[r] # "expired"
                                                THEN "canceled" ELSE result[r]
  BY DEF Canceled, PingInv, PingTypes
<1>2. PingTypes'
  BY <1>1 DEF Canceled, PingInv, PingTypes, Result, Step
<1>3. owner \in Caller => step[owner] # "done" /\ name[owner] = name[k] /\ result[owner] = "none"
  BY <1>1 DEF PingInv, PendingIsUntold, ManualEntryOwned
<1>4. PendingIsUntold'
  <2>1. ASSUME NEW r \in Caller, NEW i \in Id, manual'[i] = r PROVE result'[r] = "none"
    <3>1. i # name[k] /\ manual[i] = r /\ result[r] = "none" /\ name[r] = i
      BY <1>1, <2>1 DEF PingInv, PendingIsUntold, ManualEntryOwned
    <3> QED  BY <1>1, <1>3, <3>1
  <2>2. ASSUME NEW r \in Caller
        PROVE  /\ step'[r] = "idle" => result'[r] = "none"
               /\ result'[r] \in {"timeout", "failed"} => step'[r] = "done"
    <3>1. CASE r = k
      BY <1>1, <3>1
    <3>2. CASE r # k
      <4>1. owner = r => step[r] # "idle"
        BY <1>1 DEF PingInv, ManualEntryOwned
      <4> QED  BY <1>1, <3>2, <4>1 DEF PingInv, PendingIsUntold
    <3> QED  BY <3>1, <3>2
  <2> QED  BY <2>1, <2>2 DEF PendingIsUntold
<1>5. ASSUME NEW r \in Caller
      PROVE  /\ (step'[r] \in {"inserted", "waiting"} /\ result'[r] = "none") => manual'[name[r]] = r
             /\ \A i \in Id : manual'[i] = r =>
                  name[r] = i /\ step'[r] \in {"inserted", "waiting", "expired"}
             /\ result'[r] = "latency" => name[r] = "channel"
  <2>1. CASE r = k
    BY <1>1, <2>1 DEF PingInv, ManualEntryOwned
  <2>2. CASE r # k
    <3>1. name[r] \in Id
      BY DEF PingInv, PingTypes
    <3> QED  BY <1>1, <2>2, <3>1 DEF PingInv, ManualEntryOwned
  <2> QED  BY <2>1, <2>2
<1>6. ASSUME NEW r \in Caller, result'[r] = "canceled"
      PROVE  \E j \in Caller \ {r} : name[j] = name[r] /\ result'[j] \in {"timeout", "failed"}
  <2>1. r # k
    BY <1>1, <1>6
  <2>2. CASE r = owner /\ step[r] # "expired"
    BY <1>1, <1>3, <2>1, <2>2
  <2>3. CASE ~(r = owner /\ step[r] # "expired")
    <3>1. result[r] = "canceled"
      BY <1>1, <1>6, <2>1, <2>3
    <3>2. PICK j \in Caller \ {r} : name[j] = name[r] /\ result[j] \in {"timeout", "failed"}
      BY <3>1 DEF PingInv, ManualEntryOwned
    <3>3. j # k /\ j # owner
      BY <1>3, <3>2 DEF PingInv, PendingIsUntold
    <3> QED  BY <1>1, <3>2, <3>3
  <2> QED  BY <2>2, <2>3
<1> QED  BY <1>2, <1>4, <1>5, <1>6 DEF PingInv, ManualEntryOwned

\* Caller k, which was idle, is done or has the entry under its id.
LEMMA CallBegins ==
  ASSUME PingInv, NEW k \in Caller, NEW i \in Id, step[k] = "idle",
         name' = [name EXCEPT ![k] = i],
         \/ /\ manual[i] = NoCaller
            /\ manual' = [manual EXCEPT ![i] = k]
            /\ step' = [step EXCEPT ![k] = "inserted"]
            /\ UNCHANGED result
         \/ /\ step' = [step EXCEPT ![k] = "done"]
            /\ UNCHANGED manual
            /\ \E r \in {"refused", "unconnected"} : result' = [result EXCEPT ![k] = r]
  PROVE  PingInv'
<1> USE HeartbeatAssumption
<1>1. /\ name'[k] = i /\ \A r \in Caller \ {k} : name'[r] = name[r] /\ step'[r] = step[r]
                                                  /\ result'[r] = result[r]
      /\ \A h \in Id \ {i} : manual'[h] = manual[h]
  BY DEF PingInv, PingTypes
<1>2. PingTypes'
  BY DEF PingInv, PingTypes, Step, Result
<1>3. result[k] = "none" /\ \A h \in Id : manual[h] # k
  BY IdleCaller
<1>4. \/ manual[i] = NoCaller /\ manual'[i] = k /\ step'[k] = "inserted" /\ result'[k] = "none"
      \/ step'[k] = "done" /\ manual'[i] = manual[i] /\ result'[k] \in {"refused", "unconnected"}
  BY <1>3 DEF PingInv, PingTypes
<1>5. PendingIsUntold'
  BY <1>1, <1>3, <1>4 DEF PingInv, PendingIsUntold
<1>6. ASSUME NEW r \in Caller
      PROVE  /\ (step'[r] \in {"inserted", "waiting"} /\ result'[r] = "none") => manual'[name'[r]] = r
             /\ \A h \in Id : manual'[h] = r =>
                  name'[r] = h /\ step'[r] \in {"inserted", "waiting", "expired"}
             /\ result'[r] = "latency" => name'[r] = "channel"
  <2>1. CASE r = k
    BY <1>1, <1>3, <1>4, <2>1
  <2>2. CASE r # k
    <3>1. name[r] \in Id
      BY DEF PingInv, PingTypes
    <3> QED  BY <1>1, <1>4, <2>2, <3>1 DEF PingInv, ManualEntryOwned
  <2> QED  BY <2>1, <2>2
<1>7. ASSUME NEW r \in Caller, result'[r] = "canceled"
      PROVE  \E j \in Caller \ {r} : name'[j] = name'[r] /\ result'[j] \in {"timeout", "failed"}
  <2>1. r # k /\ result[r] = "canceled"
    BY <1>1, <1>4, <1>7
  <2>2. PICK j \in Caller \ {r} : name[j] = name[r] /\ result[j] \in {"timeout", "failed"}
    BY <2>1 DEF PingInv, ManualEntryOwned
  <2>3. j # k
    BY <1>3, <2>2
  <2> QED  BY <1>1, <2>1, <2>2, <2>3
<1> QED  BY <1>2, <1>5, <1>6, <1>7 DEF PingInv, ManualEntryOwned

LEMMA PongKeeps == PingInv /\ HandlePong => PingInv'
<1> SUFFICES ASSUME PingInv, HandlePong PROVE PingInv'
  OBVIOUS
<1> DEFINE k == manual["channel"]
<1> USE HeartbeatAssumption
<1>1. /\ "channel" \in Id /\ manual' = [manual EXCEPT !["channel"] = NoCaller]
      /\ result' = IF k # NoCaller /\ step[k] # "expired"
                   THEN [result EXCEPT ![k] = "latency"] ELSE result
      /\ UNCHANGED <<name, step>>
  BY DEF HandlePong, Id
<1>2. k \in Caller \cup {NoCaller}
  BY <1>1 DEF PingInv, PingTypes
<1>3. k \in Caller => name[k] = "channel" /\ step[k] # "done" /\ step[k] # "idle" /\ result[k] = "none"
  BY <1>1 DEF PingInv, ManualEntryOwned, PendingIsUntold
<1>4. /\ manual'["channel"] = NoCaller
      /\ \A h \in Id : h # "channel" => manual'[h] = manual[h]
      /\ \A r \in Caller : result'[r] = IF r = k /\ step[r] # "expired" THEN "latency" ELSE result[r]
  BY <1>1, <1>2 DEF PingInv, PingTypes
<1>5. PingTypes'
  BY <1>1, <1>2 DEF PingInv, PingTypes, Result
<1>6. PendingIsUntold'
  <2>1. ASSUME NEW r \in Caller, NEW i \in Id, manual'[i] = r PROVE result'[r] = "none"
    <3>1. i # "channel" /\ manual[i] = r /\ result[r] = "none" /\ name[r] = i
      BY <1>4, <2>1 DEF PingInv, PendingIsUntold, ManualEntryOwned
    <3> QED  BY <1>3, <1>4, <3>1
  <2> QED  BY <1>1, <1>3, <1>4, <2>1 DEF PingInv, PendingIsUntold
<1>7. ASSUME NEW r \in Caller
      PROVE  /\ (step[r] \in {"inserted", "waiting"} /\ result'[r] = "none") => manual'[name[r]] = r
             /\ \A i \in Id : manual'[i] = r =>
                  name[r] = i /\ step[r] \in {"inserted", "waiting", "expired"}
             /\ result'[r] = "latency" => name[r] = "channel"
  <2>1. name[r] \in Id
    BY DEF PingInv, PingTypes
  <2> QED  BY <1>3, <1>4, <2>1 DEF PingInv, ManualEntryOwned
<1>8. ASSUME NEW r \in Caller, result'[r] = "canceled"
      PROVE  \E j \in Caller \ {r} : name[j] = name[r] /\ result'[j] \in {"timeout", "failed"}
  <2>1. result[r] = "canceled"
    BY <1>4, <1>8
  <2>2. PICK j \in Caller \ {r} : name[j] = name[r] /\ result[j] \in {"timeout", "failed"}
    BY <2>1 DEF PingInv, ManualEntryOwned
  <2>3. j # k
    BY <1>3, <2>2
  <2> QED  BY <1>4, <2>2, <2>3
<1> QED  BY <1>1, <1>5, <1>6, <1>7, <1>8 DEF PingInv, ManualEntryOwned

\* Only the step of caller k changes, to one in which its entry may stay.
LEMMA StepOnly ==
  ASSUME PingInv, NEW k \in Caller, NEW l \in Step,
         step[k] \in {"inserted", "waiting"},
         step' = [step EXCEPT ![k] = l],
         UNCHANGED <<manual, name, result>>,
         l = "waiting" \/ (l = "expired" /\ result[k] = "none") \/ (l = "done" /\ result[k] # "none")
  PROVE  PingInv'
<1>1. step'[k] = l /\ \A r \in Caller \ {k} : step'[r] = step[r]
  BY DEF PingInv, PingTypes
<1>2. PingTypes'
  BY DEF PingInv, PingTypes
<1>3. l = "done" => \A i \in Id : manual[i] # k
  BY DEF PingInv, PendingIsUntold
<1>4. PendingIsUntold'
  BY <1>1 DEF PingInv, PendingIsUntold
<1>5. ManualEntryOwned'
  BY <1>1, <1>3 DEF PingInv, ManualEntryOwned
<1> QED  BY <1>2, <1>4, <1>5 DEF PingInv

LEMMA PingStep == PingInv /\ [HeartbeatNext]_heartbeatVars => PingInv'
<1> SUFFICES ASSUME PingInv, [HeartbeatNext]_heartbeatVars
             PROVE  PingInv'
  OBVIOUS
<1>1. CASE LinkStarts \/ LinkEnds \/ SilenceCounts \/ PeerAnswers \/ UNCHANGED heartbeatVars
  <2>1. UNCHANGED <<manual, name, step, result>>
    BY <1>1 DEF LinkStarts, LinkEnds, SilenceCounts, PeerAnswers, callers, heartbeatVars
  <2> QED  BY <2>1 DEF PingInv, PingTypes, PendingIsUntold, ManualEntryOwned
<1>2. CASE HandlePong
  BY <1>2, PongKeeps
<1>3. ASSUME NEW k \in Caller, SendPing(k) PROVE PingInv'
  <2>1. CASE k \in cutOff
    BY <1>3, <2>1, EntryRemoved DEF SendPing
  <2>2. CASE k \notin cutOff
    BY <1>3, <2>2, StepOnly DEF SendPing, Step
  <2> QED  BY <2>1, <2>2
<1>4. ASSUME NEW k \in Caller, FinishPing(k) \/ ExpirePing(k) PROVE PingInv'
  BY <1>4, StepOnly DEF FinishPing, ExpirePing, Step
<1>5. ASSUME NEW k \in Caller, RemoveExpired(k) PROVE PingInv'
  BY <1>5, EntryRemoved DEF RemoveExpired, EntryAfter
<1>6. ASSUME NEW k \in Caller, NEW i \in Id, InsertPing(k, i) \/ NotConnected(k, i)
      PROVE  PingInv'
  BY <1>6, CallBegins DEF InsertPing, NotConnected
<1> QED  BY <1>1, <1>2, <1>3, <1>4, <1>5, <1>6 DEF HeartbeatNext

\* Entries of pending_manual_pings have an owner that still waits, and every
\* caller that waits has its entry (ping_peer, the Pong arm).
THEOREM ManualEntriesAreOwned == HeartbeatSpec => []ManualEntryOwned
<1>1. HeartbeatInit => PingInv
  BY HeartbeatAssumption
     DEF HeartbeatInit, PingInv, PingTypes, PendingIsUntold, ManualEntryOwned, Id, Step, Result
<1>2. PingInv => ManualEntryOwned
  BY DEF PingInv
<1> QED  BY <1>1, <1>2, PingStep, PTL DEF HeartbeatSpec

-----------------------------------------------------------------------------
(* Padding and frames.                                                     *)

\* pad_message leaves room for the length and the message, in whole blocks.
LEMMA PaddingFits ==
  ASSUME NEW n \in Nat
  PROVE  /\ PaddedLen(n) \in Nat /\ PaddedLen(n) >= n + 2
         /\ PaddedLen(n) % PADDING_BLOCK = 0 /\ PaddedLen(n) < n + 2 + PADDING_BLOCK
  BY DEF PaddedLen, PADDING_BLOCK

\* unpad_message undoes pad_message up to what the length prefix can express:
\* of a message of 64 KiB or more the low 16 bits of its length are left.
THEOREM PaddingRecovers ==
  ASSUME NEW n \in Nat
  PROVE  /\ Unpad(Pad(n)) = n % Prefix
         /\ Unpad(Pad(n)) = n <=> n < Prefix
<1>1. n % Prefix \in Nat /\ n % Prefix <= n /\ (n % Prefix = n <=> n < Prefix)
  BY DEF Prefix
<1>2. Pad(n).len >= n + 2 /\ Pad(n).len \in Nat /\ Pad(n).real = n % Prefix
  BY PaddingFits DEF Pad
<1>3. ~(Pad(n).len < 2 \/ 2 + Pad(n).real > Pad(n).len)
  BY <1>1, <1>2
<1> QED  BY <1>1, <1>2, <1>3 DEF Unpad

\* x is the p-th piece of the stream.
Place(part) == IF part = "high" THEN 1 ELSE IF part = "low" THEN 2 ELSE 3
At(x, p)    == x \in Piece /\ p = 3 * (x.frame - 1) + Place(x.part)

LEMMA PieceIsKnown ==
  ASSUME NEW x, NEW r \in Nat, NEW k \in {1, 2, 3}, At(x, 3 * r + k)
  PROVE  /\ x \in Piece /\ x.frame = r + 1 /\ Place(x.part) = k
         /\ (k = 1 <=> x.part = "high") /\ (k = 2 <=> x.part = "low")
<1>1. x \in Piece /\ x.frame \in Int /\ Place(x.part) \in {1, 2, 3} /\ x.part \in {"high", "low", "payload"}
  BY FrameAssumption DEF At, Piece, Place
<1>2. 3 * r + k = 3 * (x.frame - 1) + Place(x.part)
  BY DEF At
<1>3. x.frame = r + 1 /\ Place(x.part) = k
  BY <1>1, <1>2
<1> QED  BY <1>1, <1>3 DEF Place

\* How many pieces the reader has taken.
Taken == 3 * Len(sent) - Len(arrived) - Len(onWire)

\* Where the reader is, counted from the messages it has handled: only a cut
\* length lets it begin in the middle of one.
InStep ==
  LET r == 3 * Len(received) IN
  \/ /\ inPayload /\ lengthGot = <<>> /\ Taken = r + 2
  \/ /\ ~inPayload /\ lengthGot = <<>>
     /\ Taken = r \/ (cutLength /\ Taken \in {r + 1, r + 2})
  \/ /\ ~inPayload /\ Len(lengthGot) = 1 /\ At(lengthGot[1], Taken)
     /\ Taken = r + 1 \/ (cutLength /\ Taken = r + 2)

FrameInv ==
  /\ sent \in Seq(Size) /\ Len(sent) <= MaxFrames
  /\ received \in Seq(Size)
  /\ onWire \in Seq(Piece) /\ arrived \in Seq(Piece) /\ lengthGot \in Seq(Piece)
  /\ Len(received) <= Len(sent)
  /\ \A i \in 1..Len(received) : received[i] = sent[i]
  /\ \A i \in 1..Len(arrived) : At(arrived[i], Taken + i)
  /\ \A i \in 1..Len(onWire) : At(onWire[i], Taken + Len(arrived) + i)
  /\ reader = "reading" => InStep
  /\ reader = "invalid" => cutLength \/ (Len(received) < Len(sent) /\ sent[Len(received) + 1] >= Prefix)

LEMMA FrameInitially == FrameInit => FrameInv
<1> SUFFICES ASSUME FrameInit PROVE FrameInv
  OBVIOUS
<1>1. /\ sent = <<>> /\ received = <<>> /\ onWire = <<>> /\ arrived = <<>> /\ lengthGot = <<>>
      /\ inPayload = FALSE /\ reader = "reading"
  BY DEF FrameInit
<1>2. Taken = 0
  BY <1>1 DEF Taken
<1>3. InStep
  BY <1>1, <1>2 DEF InStep
<1>4. Len(sent) = 0 /\ Len(received) = 0 /\ Len(arrived) = 0 /\ Len(onWire) = 0
  BY <1>1
<1> QED  BY <1>1, <1>3, <1>4, FrameAssumption DEF FrameInv

LEMMA Counts ==
  ASSUME FrameInv
  PROVE  /\ {Len(sent), Len(received), Len(arrived), Len(onWire)} \subseteq Nat
         /\ Taken \in Int /\ Taken = 3 * Len(sent) - Len(arrived) - Len(onWire)
  BY DEF FrameInv, Taken

LEMMA WriteFrameKeeps ==
  ASSUME FrameInv, NEW n \in Size, WriteFrame(n)
  PROVE  FrameInv'
<1> USE FrameAssumption
<1>1. /\ Len(sent) < MaxFrames /\ sent' = Append(sent, n)
      /\ onWire' = onWire \o Pieces(Len(sent) + 1)
      /\ UNCHANGED <<arrived, lengthGot, inPayload, received, reader, cutLength>>
  BY DEF WriteFrame
<1>2. PICK new \in Seq(Piece) : /\ new = Pieces(Len(sent) + 1) /\ Len(new) = 3
                               /\ \A i \in 1..3 : At(new[i], 3 * Len(sent) + i)
  <2> DEFINE new == Pieces(Len(sent) + 1)
  <2>1. Len(sent) + 1 \in 1..MaxFrames
    BY <1>1 DEF FrameInv
  <2>2. new \in Seq(Piece) /\ Len(new) = 3
    BY <2>1 DEF Pieces, Piece
  <2>3. /\ new[1].frame = Len(sent) + 1 /\ new[2].frame = Len(sent) + 1 /\ new[3].frame = Len(sent) + 1
        /\ Place(new[1].part) = 1 /\ Place(new[2].part) = 2 /\ Place(new[3].part) = 3
        /\ new[1] \in Piece /\ new[2] \in Piece /\ new[3] \in Piece
    BY <2>1 DEF Pieces, Place, Piece
  <2> HIDE DEF new
  <2>4. At(new[1], 3 * Len(sent) + 1) /\ At(new[2], 3 * Len(sent) + 2) /\ At(new[3], 3 * Len(sent) + 3)
    BY <2>3, Counts DEF At
  <2>5. \A i \in 1..3 : i = 1 \/ i = 2 \/ i = 3
    OBVIOUS
  <2> QED  BY <2>2, <2>4, <2>5 DEF new
<1>3. /\ sent' \in Seq(Size) /\ Len(sent') = Len(sent) + 1
      /\ \A i \in 1..Len(sent) : sent'[i] = sent[i]
      /\ onWire' \in Seq(Piece) /\ Len(onWire') = Len(onWire) + 3
      /\ \A i \in 1..Len(onWire) : onWire'[i] = onWire[i]
      /\ \A i \in 1..3 : onWire'[Len(onWire) + i] = new[i]
  <2>1. onWire' = onWire \o new /\ onWire \in Seq(Piece) /\ sent \in Seq(Size)
    BY <1>1, <1>2 DEF FrameInv
  <2>2. /\ sent' \in Seq(Size) /\ Len(sent') = Len(sent) + 1
        /\ \A i \in 1..Len(sent) : sent'[i] = sent[i]
    BY <1>1, <2>1
  <2>3. /\ onWire' \in Seq(Piece) /\ Len(onWire') = Len(onWire) + 3
        /\ \A i \in 1..Len(onWire) : onWire'[i] = onWire[i]
        /\ \A i \in 1..3 : onWire'[Len(onWire) + i] = new[i]
    <3>1. /\ Len(onWire \o new) = Len(onWire) + Len(new) /\ onWire \o new \in Seq(Piece)
          /\ \A i \in 1..Len(onWire) + Len(new) :
               (onWire \o new)[i] = IF i <= Len(onWire) THEN onWire[i] ELSE new[i - Len(onWire)]
      BY <2>1, ConcatProperties
    <3>2. \A i \in 1..3 : /\ Len(onWire) + i \in 1..Len(onWire) + Len(new)
                          /\ ~(Len(onWire) + i <= Len(onWire)) /\ (Len(onWire) + i) - Len(onWire) = i
      BY <1>2, Counts
    <3>3. \A i \in 1..Len(onWire) : i \in 1..Len(onWire) + Len(new) /\ i <= Len(onWire)
      BY <1>2, Counts
    <3>4. \A i \in 1..3 : (onWire \o new)[Len(onWire) + i] = new[i]
      BY <3>1, <3>2
    <3>5. \A i \in 1..Len(onWire) : (onWire \o new)[i] = onWire[i]
      BY <3>1, <3>3
    <3> QED  BY <1>2, <2>1, <3>1, <3>4, <3>5
  <2> QED  BY <2>2, <2>3
<1>8. UNCHANGED <<arrived, lengthGot, inPayload, received, reader, cutLength>>
  BY <1>1
<1>4. Taken' = Taken
  <2>1. /\ Len(sent') = Len(sent) + 1 /\ Len(onWire') = Len(onWire) + 3 /\ arrived' = arrived
    BY <1>3, <1>8
  <2> QED  BY <2>1, Counts DEF Taken
<1>5. ASSUME NEW i \in 1..Len(onWire') PROVE At(onWire'[i], Taken + Len(arrived) + i)
  <2>1. CASE i <= Len(onWire)
    BY <1>3, <2>1 DEF FrameInv
  <2>2. CASE ~(i <= Len(onWire))
    <3> DEFINE j == i - Len(onWire)
    <3>1. j \in 1..3 /\ i = Len(onWire) + j
      <4>1. i \in 1..Len(onWire) + 3 /\ Len(onWire) \in Nat
        BY <1>3, Counts
      <4> QED  BY <2>2, <4>1
    <3>2. Taken + Len(arrived) + i = 3 * Len(sent) + j
      BY <3>1, Counts
    <3> HIDE DEF j
    <3> QED  BY <1>2, <1>3, <3>1, <3>2
  <2> QED  BY <2>1, <2>2
<1>6. reader' = "reading" => InStep'
  BY <1>1, <1>4 DEF FrameInv, InStep, At
<1>7. reader' = "invalid" =>
        cutLength' \/ (Len(received') < Len(sent') /\ sent'[Len(received') + 1] >= Prefix)
  <2>1. reader' = reader /\ cutLength' = cutLength /\ received' = received /\ Len(sent') = Len(sent) + 1
    BY <1>1, <1>3
  <2>2. CASE Len(received) < Len(sent)
    <3>1. Len(received) + 1 \in 1..Len(sent) /\ Len(received) < Len(sent) + 1
      BY <2>2, Counts
    <3>2. sent'[Len(received) + 1] = sent[Len(received) + 1]
      BY <1>3, <3>1
    <3> QED  BY <2>1, <3>1, <3>2 DEF FrameInv
  <2>3. CASE ~(Len(received) < Len(sent))
    BY <2>1, <2>3 DEF FrameInv
  <2> QED  BY <2>2, <2>3
<1>9. /\ Len(sent') <= MaxFrames /\ Len(received') <= Len(sent')
      /\ \A i \in 1..Len(received') : received'[i] = sent'[i]
  <2>1. Len(sent) < MaxFrames /\ received' = received
    BY <1>1
  <2>2. \A i \in 1..Len(received) : i \in 1..Len(sent)
    BY Counts DEF FrameInv
  <2>3. Len(sent') <= MaxFrames /\ Len(received') <= Len(sent')
    <3>1. Len(sent') = Len(sent) + 1 /\ Len(received) <= Len(sent)
      BY <1>3 DEF FrameInv
    <3> QED  BY <2>1, <3>1, Counts, FrameAssumption
  <2>4. \A i \in 1..Len(received) : received[i] = sent[i] /\ sent'[i] = sent[i]
    BY <1>3, <2>2 DEF FrameInv
  <2> QED  BY <2>1, <2>3, <2>4
<1>10. \A i \in 1..Len(arrived') : At(arrived'[i], Taken' + i)
  BY <1>4, <1>8 DEF FrameInv
<1>11. \A i \in 1..Len(onWire') : At(onWire'[i], Taken' + Len(arrived') + i)
  BY <1>4, <1>5, <1>8
<1> QED  BY <1>3, <1>6, <1>7, <1>8, <1>9, <1>10, <1>11 DEF FrameInv

LEMMA PieceArrivesKeeps == FrameInv /\ PieceArrives => FrameInv'
<1> SUFFICES ASSUME FrameInv, PieceArrives PROVE FrameInv'
  OBVIOUS
<1>1. /\ onWire # <<>> /\ onWire' = Tail(onWire) /\ arrived' = Append(arrived, Head(onWire))
      /\ UNCHANGED <<sent, lengthGot, inPayload, received, reader, cutLength>>
  BY DEF PieceArrives
<1>2. /\ onWire' \in Seq(Piece) /\ Len(onWire') = Len(onWire) - 1
      /\ \A i \in 1..Len(onWire') : onWire'[i] = onWire[i + 1]
      /\ arrived' \in Seq(Piece) /\ Len(arrived') = Len(arrived) + 1
      /\ \A i \in 1..Len(arrived) : arrived'[i] = arrived[i]
      /\ arrived'[Len(arrived) + 1] = onWire[1] /\ Len(onWire) >= 1
  BY <1>1 DEF FrameInv
<1>3. Taken' = Taken
  BY <1>1, <1>2 DEF Taken, FrameInv
<1>4. ASSUME NEW i \in 1..Len(arrived') PROVE At(arrived'[i], Taken + i)
  <2>1. CASE i <= Len(arrived)
    <3>1. i \in 1..Len(arrived)
      BY <1>2, <2>1, Counts
    <3> QED  BY <1>2, <3>1 DEF FrameInv
  <2>2. CASE ~(i <= Len(arrived))
    <3>1. i = Len(arrived) + 1
      BY <1>2, <2>2, Counts
    <3>2. At(onWire[1], Taken + Len(arrived) + 1)
      BY <1>2, Counts DEF FrameInv
    <3> QED  BY <1>2, <3>1, <3>2, Counts
  <2> QED  BY <1>2, <2>1, <2>2
<1>5. \A i \in 1..Len(onWire') : At(onWire'[i], Taken + Len(arrived') + i)
  <2>1. ASSUME NEW i \in 1..Len(onWire') PROVE At(onWire'[i], Taken + Len(arrived') + i)
    <3>1. i + 1 \in 1..Len(onWire) /\ Taken + Len(arrived) + (i + 1) = Taken + Len(arrived') + i
      BY <1>2 DEF FrameInv, Taken
    <3> QED  BY <1>2, <3>1 DEF FrameInv
  <2> QED  BY <2>1
<1>6. reader' = "reading" => InStep'
  BY <1>1, <1>3 DEF FrameInv, InStep, At
<1> QED  BY <1>1, <1>2, <1>3, <1>4, <1>5, <1>6 DEF FrameInv, At

\* The reader takes the next piece, x.
LEMMA PieceTaken ==
  ASSUME FrameInv, arrived # <<>>, arrived' = Tail(arrived), UNCHANGED <<sent, onWire>>
  PROVE  /\ arrived' \in Seq(Piece) /\ Taken' = Taken + 1
         /\ \A i \in 1..Len(arrived') : At(arrived'[i], Taken' + i)
         /\ \A i \in 1..Len(onWire') : At(onWire'[i], Taken' + Len(arrived') + i)
         /\ NextPiece \in Piece /\ At(NextPiece, Taken + 1) /\ Taken + 1 <= 3 * Len(sent)
         /\ Taken \in Int
<1>1. /\ arrived' \in Seq(Piece) /\ Len(arrived') = Len(arrived) - 1 /\ Len(arrived) >= 1
      /\ \A i \in 1..Len(arrived') : arrived'[i] = arrived[i + 1] /\ i + 1 \in 1..Len(arrived)
      /\ NextPiece = arrived[1] /\ 1 \in 1..Len(arrived)
  BY DEF FrameInv, NextPiece
<1>2. Taken' = Taken + 1 /\ Taken \in Int /\ Taken + 1 <= 3 * Len(sent)
  BY <1>1 DEF Taken, FrameInv
<1>3. ASSUME NEW i \in 1..Len(arrived') PROVE At(arrived'[i], Taken' + i)
  <2>1. Taken + (i + 1) = Taken' + i /\ At(arrived[i + 1], Taken + (i + 1))
    BY <1>1, <1>2 DEF FrameInv
  <2> QED  BY <1>1, <1>3, <2>1
<1>4. ASSUME NEW i \in 1..Len(onWire') PROVE At(onWire'[i], Taken' + Len(arrived') + i)
  <2>1. Taken' + Len(arrived') + i = Taken + Len(arrived) + i /\ i \in 1..Len(onWire)
    BY <1>1, <1>2 DEF FrameInv
  <2>2. At(onWire[i], Taken + Len(arrived) + i)
    BY <2>1 DEF FrameInv
  <2> QED  BY <1>4, <2>1, <2>2
<1> QED  BY <1>1, <1>2, <1>3, <1>4 DEF FrameInv

LEMMA ReadHalfKeeps == FrameInv /\ ReadHalf => FrameInv'
<1> SUFFICES ASSUME FrameInv, ReadHalf PROVE FrameInv'
  OBVIOUS
<1>1. /\ reader = "reading" /\ ~inPayload /\ lengthGot = <<>> /\ arrived # <<>>
      /\ NextPiece.part # "payload"
      /\ lengthGot' = <<NextPiece>> /\ arrived' = Tail(arrived)
      /\ UNCHANGED <<sent, onWire, inPayload, received, reader, cutLength>>
  BY DEF ReadHalf
<1>2. /\ Taken' = Taken + 1 /\ NextPiece \in Piece /\ At(NextPiece, Taken + 1) /\ Taken \in Int
  BY <1>1, PieceTaken
<1>3. lengthGot' \in Seq(Piece) /\ Len(lengthGot') = 1 /\ lengthGot'[1] = NextPiece
  BY <1>1, <1>2
<1>4. Taken = 3 * Len(received) \/ (cutLength /\ Taken \in {3 * Len(received) + 1, 3 * Len(received) + 2})
  BY <1>1 DEF FrameInv, InStep
<1>5. ASSUME Taken = 3 * Len(received) + 2 PROVE FALSE
  <2>1. At(NextPiece, 3 * Len(received) + 3)
    BY <1>2, <1>5, Counts
  <2>2. NextPiece \in Piece /\ NextPiece.part \notin {"high", "low"}
    BY <2>1, Counts, PieceIsKnown
  <2> QED  BY <1>1, <2>2 DEF Piece
<1>6. At(lengthGot'[1], Taken')
  BY <1>2, <1>3
<1>7. InStep'
  <2>1. Taken' = 3 * Len(received) + 1 \/ (cutLength /\ Taken' = 3 * Len(received) + 2)
    BY <1>2, <1>4, <1>5, Counts
  <2> QED  BY <1>1, <1>3, <1>6, <2>1 DEF InStep
<1> QED  BY <1>1, <1>3, <1>7, PieceTaken DEF FrameInv

LEMMA ReadLengthKeeps == FrameInv /\ ReadLength => FrameInv'
<1> SUFFICES ASSUME FrameInv, ReadLength PROVE FrameInv'
  OBVIOUS
<1> DEFINE matches == lengthGot = <<[NextPiece EXCEPT !.part = "high"]>> /\ NextPiece.part = "low"
<1>1. /\ reader = "reading" /\ ~inPayload /\ arrived # <<>>
      /\ lengthGot # <<>> \/ NextPiece.part = "payload"
      /\ IF matches THEN inPayload' = TRUE /\ UNCHANGED reader
         ELSE reader' \in {"invalid", "timeout"} /\ UNCHANGED inPayload
      /\ lengthGot' = <<>> /\ arrived' = Tail(arrived)
      /\ UNCHANGED <<sent, onWire, received, cutLength>>
  BY DEF ReadLength
<1>2. /\ Taken' = Taken + 1 /\ NextPiece \in Piece /\ At(NextPiece, Taken + 1) /\ Taken \in Int
  BY <1>1, PieceTaken
<1>3. lengthGot' \in Seq(Piece)
  BY <1>1
<1>4. CASE matches
  <2>1. /\ Len(lengthGot) = 1 /\ lengthGot[1].part = "high" /\ lengthGot # <<>>
    BY <1>2, <1>4 DEF Piece
  <2>2. /\ At(lengthGot[1], Taken) /\ Len(lengthGot) = 1
        /\ Taken = 3 * Len(received) + 1 \/ Taken = 3 * Len(received) + 2
    BY <1>1, <2>1 DEF FrameInv, InStep
  <2>3. Taken = 3 * Len(received) + 1
    <3>1. ASSUME Taken = 3 * Len(received) + 2 PROVE FALSE
      <4>1. At(lengthGot[1], 3 * Len(received) + 2) /\ lengthGot[1] \in Piece
        BY <2>1, <2>2, <3>1 DEF FrameInv
      <4>2. lengthGot[1].part = "low"
        BY <4>1, Counts, PieceIsKnown
      <4> QED  BY <2>1, <4>2
    <3> QED  BY <2>2, <3>1
  <2>4. InStep'
    BY <1>1, <1>2, <1>4, <2>3 DEF InStep, FrameInv
  <2> QED  BY <1>1, <1>3, <1>4, <2>4, PieceTaken DEF FrameInv
<1>5. CASE ~matches
  <2>1. reader' \in {"invalid", "timeout"} /\ UNCHANGED inPayload
    BY <1>1, <1>5
  <2>2. cutLength
    <3>1. CASE lengthGot = <<>>
      <4>1. ASSUME Taken = 3 * Len(received) PROVE FALSE
        <5>1. At(NextPiece, 3 * Len(received) + 1)
          BY <1>2, <4>1, Counts
        <5>2. NextPiece.part = "high"
          BY <5>1, Counts, PieceIsKnown
        <5> QED  BY <1>1, <3>1, <5>2
      <4> QED  BY <1>1, <3>1, <4>1 DEF FrameInv, InStep
    <3>2. CASE lengthGot # <<>>
      <4>1. /\ Len(lengthGot) = 1 /\ At(lengthGot[1], Taken)
            /\ Taken = 3 * Len(received) + 1 \/ cutLength
        BY <1>1, <3>2 DEF FrameInv, InStep
      <4>2. ASSUME Taken = 3 * Len(received) + 1 PROVE FALSE
        <5>1. /\ lengthGot[1] \in Piece /\ lengthGot[1].part = "high"
              /\ lengthGot[1].frame = Len(received) + 1
          BY <4>1, <4>2, Counts, PieceIsKnown
        <5>2. NextPiece.part = "low" /\ NextPiece.frame = Len(received) + 1
          <6>1. At(NextPiece, 3 * Len(received) + 2)
            BY <1>2, <4>2, Counts
          <6> QED  BY <6>1, Counts, PieceIsKnown
        <5>3. lengthGot[1] = [NextPiece EXCEPT !.part = "high"]
          BY <1>2, <5>1, <5>2 DEF Piece
        <5>4. lengthGot = <<lengthGot[1]>>
          BY <4>1 DEF FrameInv
        <5> QED  BY <1>5, <5>2, <5>3, <5>4
      <4> QED  BY <4>1, <4>2
    <3> QED  BY <3>1, <3>2
  <2> QED  BY <1>1, <1>3, <2>1, <2>2, PieceTaken DEF FrameInv
<1> QED  BY <1>4, <1>5

LEMMA ReadPayloadKeeps == FrameInv /\ ReadPayload => FrameInv'
<1> SUFFICES ASSUME FrameInv, ReadPayload PROVE FrameInv'
  OBVIOUS
<1> USE FrameAssumption
<1> DEFINE n == sent[NextPiece.frame]
<1>1. /\ reader = "reading" /\ inPayload /\ arrived # <<>>
      /\ reader' = AfterPayload(n)
      /\ received' = IF Unpad(Pad(n)) = n THEN Append(received, n) ELSE received
      /\ inPayload' = FALSE /\ arrived' = Tail(arrived)
      /\ UNCHANGED <<sent, onWire, lengthGot, cutLength>>
  BY DEF ReadPayload
<1>2. /\ Taken' = Taken + 1 /\ NextPiece \in Piece /\ At(NextPiece, Taken + 1) /\ Taken \in Int
      /\ Taken + 1 <= 3 * Len(sent)
  BY <1>1, PieceTaken
<1>3. lengthGot = <<>> /\ Taken = 3 * Len(received) + 2
  BY <1>1 DEF FrameInv, InStep
<1>4. NextPiece.frame = Len(received) + 1 /\ Len(received) + 1 <= Len(sent)
  <2>1. At(NextPiece, 3 * Len(received) + 3)
    BY <1>2, <1>3, Counts
  <2>2. NextPiece.frame = Len(received) + 1
    BY <2>1, Counts, PieceIsKnown
  <2> QED  BY <1>2, <1>3, <2>2, Counts
<1>5. n = sent[Len(received) + 1] /\ n \in Size /\ n \in Nat
  <2>1. Len(received) + 1 \in 1..Len(sent)
    BY <1>4, Counts
  <2>2. sent[Len(received) + 1] \in Size
    BY <2>1 DEF FrameInv
  <2> QED  BY <1>4, <2>2
<1> HIDE DEF n
<1>6. CASE n < Prefix
  <2>1. Unpad(Pad(n)) = n
    BY <1>5, <1>6, PaddingRecovers
  <2>2. received' = Append(received, n) /\ reader' = "reading"
    BY <1>1, <2>1 DEF AfterPayload
  <2>3. /\ received' \in Seq(Size) /\ Len(received') = Len(received) + 1
        /\ \A i \in 1..Len(received) : received'[i] = received[i]
        /\ received'[Len(received) + 1] = n
    BY <1>5, <2>2 DEF FrameInv
  <2>4. ASSUME NEW i \in 1..Len(received') PROVE received'[i] = sent[i]
    <3>1. i \in 1..Len(received) \/ i = Len(received) + 1
      BY <2>3, Counts
    <3> QED  BY <1>5, <2>3, <3>1 DEF FrameInv
  <2>5. InStep'
    BY <1>1, <1>2, <1>3, <2>3 DEF InStep, FrameInv
  <2> QED  BY <1>1, <1>4, <2>2, <2>3, <2>4, <2>5, PieceTaken DEF FrameInv
<1>7. CASE ~(n < Prefix)
  <2>1. Unpad(Pad(n)) # n
    BY <1>5, <1>7, PaddingRecovers
  <2>2. received' = received /\ reader' = "invalid"
    BY <1>1, <2>1 DEF AfterPayload
  <2>3. Len(received) < Len(sent) /\ sent[Len(received) + 1] >= Prefix
    BY <1>4, <1>5, <1>7 DEF FrameInv, Prefix
  <2> QED  BY <1>1, <2>2, <2>3, PieceTaken DEF FrameInv
<1> QED  BY <1>6, <1>7

LEMMA TimeoutKeeps == FrameInv /\ (LengthTimeout \/ PayloadTimeout) => FrameInv'
<1> SUFFICES ASSUME FrameInv, LengthTimeout \/ PayloadTimeout PROVE FrameInv'
  OBVIOUS
<1>1. CASE PayloadTimeout
  <2>1. /\ reader' = "timeout"
        /\ UNCHANGED <<sent, onWire, arrived, lengthGot, inPayload, received, cutLength>>
    BY <1>1 DEF PayloadTimeout
  <2>2. Taken' = Taken
    BY <2>1 DEF Taken
  <2> QED  BY <2>1, <2>2 DEF FrameInv, At
<1>2. CASE LengthTimeout
  <2>1. /\ reader = "reading" /\ ~inPayload
        /\ cutLength' = (cutLength \/ lengthGot # <<>>)
        /\ lengthGot' = <<>> /\ lengthGot' \in Seq(Piece)
        /\ UNCHANGED <<sent, onWire, arrived, inPayload, received, reader>>
    BY <1>2 DEF LengthTimeout
  <2>2. Taken' = Taken
    BY <2>1 DEF Taken
  <2>3. InStep'
    <3>1. CASE lengthGot = <<>>
      BY <2>1, <2>2, <3>1 DEF FrameInv, InStep
    <3>2. CASE lengthGot # <<>>
      <4>1. Taken \in {3 * Len(received) + 1, 3 * Len(received) + 2}
        BY <2>1, <3>2 DEF FrameInv, InStep
      <4> QED  BY <2>1, <2>2, <3>2, <4>1 DEF InStep
    <3> QED  BY <3>1, <3>2
  <2> QED  BY <2>1, <2>2, <2>3 DEF FrameInv, At
<1> QED  BY <1>1, <1>2

LEMMA FrameStep == FrameInv /\ [FrameNext]_frameVars => FrameInv'
<1> SUFFICES ASSUME FrameInv, [FrameNext]_frameVars PROVE FrameInv'
  OBVIOUS
<1>1. CASE UNCHANGED frameVars
  <2>1. UNCHANGED <<sent, onWire, arrived, lengthGot, inPayload, received, reader, cutLength>>
    BY <1>1 DEF frameVars
  <2>2. Taken' = Taken
    BY <2>1 DEF Taken
  <2>3. reader' = "reading" => InStep'
    BY <2>1, <2>2 DEF FrameInv, InStep, At
  <2> QED  BY <2>1, <2>2, <2>3 DEF FrameInv, At
<1> QED  BY <1>1, WriteFrameKeeps, PieceArrivesKeeps, ReadHalfKeeps, ReadLengthKeeps,
            ReadPayloadKeeps, TimeoutKeeps DEF FrameNext

\* What is handled is a prefix of what was sent (the reader of
\* handle_connection).
THEOREM ReceivedPrefix == FrameSpec => []ReceivedIsPrefix
<1>1. FrameInv => ReceivedIsPrefix
  <2> SUFFICES ASSUME FrameInv PROVE ReceivedIsPrefix
    OBVIOUS
  <2>1. received = SubSeq(sent, 1, Len(received))
    <3>1. /\ SubSeq(sent, 1, Len(received)) \in Seq(Size)
          /\ Len(SubSeq(sent, 1, Len(received))) = Len(received)
          /\ \A i \in 1..Len(received) : SubSeq(sent, 1, Len(received))[i] = received[i]
      BY DEF FrameInv
    <3> QED  BY <3>1 DEF FrameInv
  <2> QED  BY <2>1 DEF FrameInv, ReceivedIsPrefix
<1> QED  BY <1>1, FrameInitially, FrameStep, PTL DEF FrameSpec

=============================================================================
