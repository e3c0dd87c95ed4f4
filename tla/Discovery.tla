------------------------------ MODULE Discovery ------------------------------
(***************************************************************************)
(* LAN discovery (p2p/discovery.rs): every node announces itself once a    *)
(* second by multicast, every listener reports a node it hears, at most    *)
(* once per Window seconds, to the task that connects.                     *)
(***************************************************************************)
EXTENDS Naturals

CONSTANTS
  Node,     \* announcing nodes, the listener among them
  Listener,
  Window,   \* five seconds
  MaxTime   \* bound: seconds

ASSUME DiscoveryAssumption ==
  /\ Listener \in Node
  /\ Window \in Nat \ {0} /\ MaxTime \in Nat

VARIABLES
  time,
  due,       \* the next announcement of each node
  last_seen, \* when the listener last took a message of each node, 0 for never
  heard,     \* history: when a message of each node last arrived
  reported   \* when each node was last reported, 0 for never

discoveryVars == <<time, due, last_seen, heard, reported>>

Times == 0..MaxTime

DiscoveryTypeOK ==
  /\ time \in Times
  /\ due \in [Node -> 1..(MaxTime + 1)]
  /\ last_seen \in [Node -> Times]
  /\ heard     \in [Node -> Times]
  /\ reported  \in [Node -> Times]

DiscoveryInit ==
  /\ time = 1 /\ 1 <= MaxTime
  /\ due       = [n \in Node |-> 1]
  /\ last_seen = [n \in Node |-> 0]
  /\ heard     = [n \in Node |-> 0]
  /\ reported  = [n \in Node |-> 0]

-----------------------------------------------------------------------------

TickTime ==
  /\ time < MaxTime
  /\ time' = time + 1
  /\ UNCHANGED <<due, last_seen, heard, reported>>

\* Deviation: a message that is not reported counts too.
SeenAnyway(n) == [last_seen EXCEPT ![n] = time]

Recent(n) == last_seen[n] # 0 /\ time - last_seen[n] < Window

\* last_seen after a message of n: a recent node's is left as it is.
Seen(n) == IF Recent(n) THEN last_seen ELSE [last_seen EXCEPT ![n] = time]

\* broadcast_loop, with a missed tick skipped; the multicast is lost or heard
\* by the listener, which ignores its own.
Announce(n) ==
  /\ due[n] <= time
  /\ due' = [due EXCEPT ![n] = time + 1]
  /\ \/ UNCHANGED <<last_seen, heard, reported>>
     \/ /\ n # Listener
        /\ heard'     = [heard EXCEPT ![n] = time]
        /\ last_seen' = Seen(n)
        /\ reported'  = IF Recent(n) THEN reported ELSE [reported EXCEPT ![n] = time]
  /\ UNCHANGED time

DiscoveryNext == TickTime \/ \E n \in Node : Announce(n)

DiscoverySpec == DiscoveryInit /\ [][DiscoveryNext]_discoveryVars

-----------------------------------------------------------------------------

\* Whenever a node is heard, it was reported less than Window seconds ago or is
\* being reported now: the rate limit never silences a node that goes on
\* announcing itself.  The listener does not report itself (listen_loop).
NotSilenced ==
  /\ \A n \in Node : heard[n] > 0 =>
        reported[n] > 0 /\ heard[n] - reported[n] < Window
  /\ reported[Listener] = 0

=============================================================================
