-------------------------------- MODULE Stun --------------------------------
(***************************************************************************)
(* The STUN client (nat/stun.rs): servers are asked in order, each with a  *)
(* fresh transaction id and one read of the socket, which is bound to the  *)
(* same port every time, so that answers to earlier queries still arrive.  *)
(* The datagram read may be anyone's: its source is not looked at.         *)
(* Query i asks server i; its transaction id is i.                         *)
(***************************************************************************)
EXTENDS Naturals, Sequences

CONSTANTS
  Servers,  \* number of servers: DEFAULT_STUN_SERVERS
  Answer    \* lists of attributes of the answers: "ipv4" for a well-formed
            \* mapped address, "bad" for another one, "other" for the rest

ASSUME StunAssumption == Servers \in Nat

VARIABLES
  query,    \* the query under way, 0 before the first
  asked,    \* queries whose server's answer may still arrive
  timedOut, \* history: queries that timed out
  strayed,  \* history: queries that failed on a stray datagram or a second
            \* copy of an answer
  spoiled,  \* history: queries that failed on the answer to an earlier one
  external  \* what discover_external_addr returned: the server it names and
            \* the query whose answer the address is from

stunVars == <<query, asked, timedOut, strayed, spoiled, external>>

Query     == 1..Servers
NoAddress == [server |-> 0, of |-> 0]

StunTypeOK ==
  /\ query    \in 0..(Servers + 1)
  /\ asked    \subseteq Query
  /\ timedOut \subseteq Query
  /\ strayed  \subseteq Query
  /\ spoiled  \subseteq Query
  /\ external \in [server : 0..Servers, of : 0..Servers]

StunInit ==
  /\ query    = 0
  /\ asked    = {}
  /\ timedOut = {}
  /\ strayed  = {}
  /\ spoiled  = {}
  /\ external = NoAddress

-----------------------------------------------------------------------------

\* The attribute that decides: the first mapped address, XORed or not.
Deciding(attrs) ==
  LET mapped == {i \in DOMAIN attrs : attrs[i] # "other"}
  IN  IF mapped = {} THEN "none"
      ELSE attrs[CHOOSE i \in mapped : \A j \in mapped : i <= j]

\* Deviation: the transaction id is not compared.
ParsesAny(tx, attrs) == Deciding(attrs) = "ipv4"

\* parse_binding_response: the transaction id is the query's own, and the
\* first mapped address is well formed and of IPv4.
Parses(tx, attrs) == tx = query /\ Deciding(attrs) = "ipv4"

\* The next server that resolves is asked from a new socket on the same port;
\* past the last one discover_external_addr returns an error.  Of the answers
\* under way, those in `left` were not dropped with the old socket.
NextQuery(left) ==
  \E next \in (query + 1)..(Servers + 1) :
     /\ query' = next
     /\ asked' = left \cup ({next} \cap Query)

Pending == query \in Query /\ external = NoAddress

Start ==
  /\ query = 0
  /\ NextQuery({})
  /\ UNCHANGED <<timedOut, strayed, spoiled, external>>

\* The first datagram to arrive decides the query under way.  It is the answer
\* to query tx; the socket is closed with whatever else it had received.
Receive(tx, attrs) ==
  /\ Pending
  /\ tx \in asked
  /\ IF Parses(tx, attrs)
     THEN /\ external' = [server |-> query, of |-> tx]
          /\ asked'    = asked \ {tx}
          /\ UNCHANGED <<query, spoiled>>
     ELSE /\ \E left \in SUBSET (asked \ {tx}) : NextQuery(left)
          /\ spoiled' = IF tx = query THEN spoiled ELSE spoiled \cup {query}
          /\ UNCHANGED external
  /\ UNCHANGED <<timedOut, strayed>>

\* It is a stray one, or a second copy of the answer to an earlier query: it
\* has not the id of the query under way and is not parsed.
ReceiveStray ==
  /\ Pending
  /\ \E left \in SUBSET asked : NextQuery(left)
  /\ strayed' = strayed \cup {query}
  /\ UNCHANGED <<timedOut, spoiled, external>>

TimeOutQuery ==
  /\ Pending
  /\ NextQuery(asked)
  /\ timedOut' = timedOut \cup {query}
  /\ UNCHANGED <<strayed, spoiled, external>>

StunNext ==
  \/ Start
  \/ \E tx \in Query, attrs \in Answer : Receive(tx, attrs)
  \/ ReceiveStray
  \/ TimeOutQuery

StunSpec == StunInit /\ [][StunNext]_stunVars

-----------------------------------------------------------------------------

\* The address reported is the one the named server gave in answer to the
\* query under way, however late the answers to earlier queries arrive on the
\* same port.  Such an answer can fail a query whose server works, but the
\* servers' own answers never start it: an earlier query had timed out, or had
\* read a datagram that was nobody's first answer (query_stun_server).
AnswerAttributed ==
  /\ external.of = external.server
  /\ \A q \in spoiled : \E p \in timedOut \cup strayed : p < q

=============================================================================
