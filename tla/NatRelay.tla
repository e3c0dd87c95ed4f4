------------------------------ MODULE NatRelay ------------------------------
(***************************************************************************)
(* The UDP relay for peers whose NATs cannot be punched (nat/relay.rs).    *)
(* Peers send JOIN and DATA datagrams, which the network may lose, repeat  *)
(* and reorder: the set relayIn of datagrams sent so far, any of which the *)
(* relay may read at any time, any number of times.                        *)
(***************************************************************************)
EXTENDS Naturals, FiniteSets

CONSTANTS
  Token,   \* shared tokens
  Addr,    \* source addresses the relay sees
  NoAddr   \* peer_b: None; and an allocation that does not exist

ASSUME NatRelayAssumption == NoAddr \notin Addr

VARIABLES
  relayIn,      \* datagrams sent to the relay
  allocations,  \* RelayNode::allocations
  relayOut,     \* payloads the relay sent on
  joined        \* history: addresses whose JOIN was handled, for each token

natRelayVars == <<relayIn, allocations, relayOut, joined>>

Entry == [peer_a : Addr \cup {NoAddr}, peer_b : Addr \cup {NoAddr}]

NatRelayTypeOK ==
  /\ relayIn     \subseteq [magic : {"JOIN", "DATA"}, token : Token, from : Addr]
  /\ allocations \in [Token -> Entry]
  /\ relayOut    \subseteq [token : Token, from : Addr, to : Addr]
  /\ joined      \in [Token -> SUBSET Addr]

NatRelayInit ==
  /\ relayIn     = {}
  /\ allocations = [t \in Token |-> [peer_a |-> NoAddr, peer_b |-> NoAddr]]
  /\ relayOut    = {}
  /\ joined      = [t \in Token |-> {}]

-----------------------------------------------------------------------------

\* relay_join and relay_send.
Send(magic, t, a) ==
  /\ relayIn' = relayIn \cup {[magic |-> magic, token |-> t, from |-> a]}
  /\ UNCHANGED <<allocations, relayOut, joined>>

\* Deviation: the second place is given without a look at the first.
JoinAgain(e, peer) ==
  IF e.peer_a = NoAddr THEN [e EXCEPT !.peer_a = peer] ELSE [e EXCEPT !.peer_b = peer]

\* The first to join is peer_a for good, a later other one is peer_b.
Joined(e, peer) ==
  CASE e.peer_a = NoAddr -> [e EXCEPT !.peer_a = peer]
    [] e.peer_a = peer   -> e
    [] OTHER             -> [e EXCEPT !.peer_b = peer]

\* handle_join.
HandleJoin(t, peer) ==
  /\ [magic |-> "JOIN", token |-> t, from |-> peer] \in relayIn
  /\ allocations' = [allocations EXCEPT ![t] = Joined(@, peer)]
  /\ joined'      = [joined EXCEPT ![t] = @ \cup {peer}]
  /\ UNCHANGED <<relayIn, relayOut>>

\* Where a datagram goes, NoAddr when nowhere.
Dest(e, from) == IF from = e.peer_a THEN e.peer_b ELSE e.peer_a

\* forward, which drops the datagram when there is no destination.
Forward(t, from) ==
  /\ [magic |-> "DATA", token |-> t, from |-> from] \in relayIn
  /\ Dest(allocations[t], from) # NoAddr
  /\ relayOut' = relayOut \cup
       {[token |-> t, from |-> from, to |-> Dest(allocations[t], from)]}
  /\ UNCHANGED <<relayIn, allocations, joined>>

NatRelayNext ==
  \E t \in Token, a \in Addr :
     \/ \E magic \in {"JOIN", "DATA"} : Send(magic, t, a)
     \/ HandleJoin(t, a)
     \/ Forward(t, a)

NatRelaySpec == NatRelayInit /\ [][NatRelayNext]_natRelayVars

-----------------------------------------------------------------------------

\* Once the JOINs of two addresses have been handled, in any order and however
\* often, each one's datagrams go to the other, as long as no third address
\* joins under the token; nothing is ever sent back to where it came from, nor
\* to an address that did not join (handle_join, forward).
Bridged ==
  /\ \A t \in Token : \A a, b \in Addr :
        (a # b /\ joined[t] = {a, b}) => Dest(allocations[t], a) = b
  /\ \A d \in relayOut : d.to # d.from /\ d.to \in joined[d.token]

=============================================================================
