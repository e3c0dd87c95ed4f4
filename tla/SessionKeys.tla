----------------------------- MODULE SessionKeys -----------------------------
(***************************************************************************)
(* Handshakes and session keys of two nodes (p2p/peer.rs,                  *)
(* p2p/encryption.rs, node.rs).  A node keeps one key for its peer,        *)
(* whichever connection it came from, and uses it on all of them.  A       *)
(* connection's number stands for the key its handshake agrees on, by      *)
(* X25519 or, with an old peer, by RSA: the listening side has the key     *)
(* when it sends its acknowledgement, the dialling side when it reads it.  *)
(* TCP delivers what an end wrote in order, up to some point.              *)
(***************************************************************************)
EXTENDS Naturals, Sequences

CONSTANTS
  End,         \* the two nodes
  MaxDials,    \* bound: connections dialled
  MaxInFlight  \* bound: frames on their way to an end

ASSUME SessionAssumption ==
  /\ \E a, b \in End : a # b /\ End = {a, b}
  /\ MaxDials \in Nat /\ MaxInFlight \in Nat

VARIABLES
  dialled,     \* number of connections dialled
  dialler,     \* which end dialled each of them
  endState,    \* of each connection, at each end
  toEnd,       \* what is on its way to each end of each connection
  sessionKey,  \* SessionKeyManager::sessions of each node, 0 for none
  crossed,     \* history: connections during which another one set a key
  undeciphered \* history: connections whose reader met a frame it cannot parse

sessionVars == <<dialled, dialler, endState, toEnd, sessionKey, crossed, undeciphered>>

Conn   == 1..MaxDials
Far(e) == CHOOSE f \in End : f # e

\* A message is represented by the key it was encrypted with, 0 for plain.
Key     == 0..MaxDials
Hello   == MaxDials + 1
HelloOk == MaxDials + 2

SessionTypeOK ==
  /\ dialled      \in 0..MaxDials
  /\ dialler      \in [Conn -> End]
  /\ endState     \in [Conn -> [End -> {"unused", "greeting", "open", "closed"}]]
  /\ \A c \in Conn, e \in End : \A i \in DOMAIN toEnd[c][e] :
        toEnd[c][e][i] \in Key \cup {Hello, HelloOk}
  /\ sessionKey   \in [End -> Key]
  /\ crossed      \subseteq Conn
  /\ undeciphered \subseteq Conn

SessionInit ==
  /\ dialled      = 0
  /\ dialler      \in [Conn -> End]
  /\ endState     = [c \in Conn |-> [e \in End |-> "unused"]]
  /\ toEnd        = [c \in Conn |-> [e \in End |-> <<>>]]
  /\ sessionKey   = [e \in End |-> 0]
  /\ crossed      = {}
  /\ undeciphered = {}

-----------------------------------------------------------------------------
(* perform_handshake.                                                      *)

Live(c) == \E e \in End : endState[c][e] \in {"greeting", "open"}

\* A connection is made and the dialling side sends its handshake.
DialOut ==
  /\ dialled < MaxDials
  /\ LET new == dialled + 1 IN
     /\ dialled'  = new
     /\ endState' = [endState EXCEPT ![new] = [e \in End |-> "greeting"]]
     /\ toEnd'    = [toEnd EXCEPT ![new][Far(dialler[new])] = <<Hello>>]
  /\ UNCHANGED <<dialler, sessionKey, crossed, undeciphered>>

\* Deviation: a key that is there already is kept.
FirstKey(e, c) == IF sessionKey[e] = 0 THEN c ELSE sessionKey[e]

\* set_session_key: the peer's earlier key is replaced.
NewKey(e, c) == c

SetKey(e, c) ==
  /\ sessionKey' = [sessionKey EXCEPT ![e] = NewKey(e, c)]
  /\ crossed'    = crossed \cup {d \in Conn \ {c} : Live(d)}

\* The listening side reads the handshake, sets the key and acknowledges.
AnswerHello(c) ==
  LET e == Far(dialler[c]) IN
  /\ endState[c][e] = "greeting"
  /\ toEnd[c][e] # <<>> /\ Head(toEnd[c][e]) = Hello
  /\ SetKey(e, c)
  /\ toEnd'    = [toEnd EXCEPT ![c][e] = Tail(@), ![c][Far(e)] = Append(@, HelloOk)]
  /\ endState' = [endState EXCEPT ![c][e] = "open"]
  /\ UNCHANGED <<dialled, dialler, undeciphered>>

\* The dialling side reads the acknowledgement and sets the key.
FinishHello(c) ==
  LET e == dialler[c] IN
  /\ endState[c][e] = "greeting"
  /\ toEnd[c][e] # <<>> /\ Head(toEnd[c][e]) = HelloOk
  /\ SetKey(e, c)
  /\ toEnd'    = [toEnd EXCEPT ![c][e] = Tail(@)]
  /\ endState' = [endState EXCEPT ![c][e] = "open"]
  /\ UNCHANGED <<dialled, dialler, undeciphered>>

-----------------------------------------------------------------------------
(* send_message_to_stream and the reader of handle_connection.             *)

SendFrame(c, e) ==
  /\ endState[c][e] = "open"
  /\ Len(toEnd[c][Far(e)]) < MaxInFlight
  /\ toEnd' = [toEnd EXCEPT ![c][Far(e)] = Append(@, sessionKey[e])]
  /\ UNCHANGED <<dialled, dialler, endState, sessionKey, crossed, undeciphered>>

\* A frame that does not decrypt is parsed as it is, which a plain one can be.
Readable(frame, e) == frame \in {0, sessionKey[e]}

Shut(c, e) ==
  /\ endState' = [endState EXCEPT ![c][e] = "closed"]
  /\ toEnd'    = [toEnd EXCEPT ![c][e] = <<>>]

\* A message is handled, or the reader returns an error.
ReadFrame(c, e) ==
  /\ endState[c][e] = "open"
  /\ toEnd[c][e] # <<>>
  /\ IF Readable(Head(toEnd[c][e]), e)
     THEN /\ toEnd' = [toEnd EXCEPT ![c][e] = Tail(@)]
          /\ UNCHANGED <<endState, undeciphered>>
     ELSE Shut(c, e) /\ undeciphered' = undeciphered \cup {c}
  /\ UNCHANGED <<dialled, dialler, sessionKey, crossed>>

\* An end gives the connection up, or sees that the other end did.
CloseEnd(c, e) ==
  /\ endState[c][e] \in {"greeting", "open"}
  /\ Shut(c, e)
  /\ UNCHANGED <<dialled, dialler, sessionKey, crossed, undeciphered>>

\* A node restarts: the keys are in memory only.
RestartEnd(e) ==
  /\ sessionKey' = [sessionKey EXCEPT ![e] = 0]
  /\ endState'   = [c \in Conn |-> [endState[c] EXCEPT ![e] =
                      IF @ = "unused" THEN @ ELSE "closed"]]
  /\ toEnd'      = [c \in Conn |-> [toEnd[c] EXCEPT ![e] = <<>>]]
  /\ UNCHANGED <<dialled, dialler, crossed, undeciphered>>

SessionNext ==
  \/ DialOut
  \/ \E c \in Conn : AnswerHello(c) \/ FinishHello(c)
  \/ \E c \in Conn, e \in End : SendFrame(c, e) \/ ReadFrame(c, e) \/ CloseEnd(c, e)
  \/ \E e \in End : RestartEnd(e)

SessionSpec == SessionInit /\ [][SessionNext]_sessionVars

-----------------------------------------------------------------------------

\* The ends of an open connection have its key, unless another crossed it.
OwnKeyUnlessCrossed ==
  \A c \in Conn \ crossed :
     (\A e \in End : endState[c][e] = "open") => \A e \in End : sessionKey[e] = c

\* A frame that does not decrypt needs a crossing connection as well.
UndecipheredExplained == undeciphered \subseteq crossed

\* Keys are kept per peer and shared by its connections.  A connection that is
\* open at both ends, and during which no handshake of another one between the
\* two nodes set a key, has its own key at both, whatever connections and
\* restarts came before it; and a frame that its reader cannot decipher, which
\* ends the connection, needs such a handshake: two nodes dialling each other,
\* or a late one (set_session_key, get_session_key).
KeysExplained == OwnKeyUnlessCrossed /\ UndecipheredExplained

=============================================================================
