---------------------------- MODULE MeshDelivery ----------------------------
(***************************************************************************)
(* What the mesh promises of a message, whatever the topology, the routes  *)
(* and the failures: a message is received only after it was sent, by      *)
(* nobody but its addressee if it has one and never by its sender, and it  *)
(* counts as delivered at the sender only after the addressee received it. *)
(* Nothing is promised to arrive.                                          *)
(***************************************************************************)
CONSTANTS Node, Msg, Broadcast, None

VARIABLES
  origin,    \* the node that sent a message, None before that
  target,    \* the addressee, or Broadcast
  received,  \* pairs of a node and a message it received
  confirmed  \* messages their sender regards as delivered

vars == <<origin, target, received, confirmed>>

Init ==
  /\ origin    = [m \in Msg |-> None]
  /\ target    = [m \in Msg |-> None]
  /\ received  = {}
  /\ confirmed = {}

Send(n, m, to) ==
  /\ origin[m] = None
  /\ to # n
  /\ origin' = [origin EXCEPT ![m] = n]
  /\ target' = [target EXCEPT ![m] = to]
  /\ UNCHANGED <<received, confirmed>>

Receive(n, m) ==
  /\ origin[m] \notin {None, n}
  /\ target[m] \in {Broadcast, n}
  /\ received' = received \cup {<<n, m>>}
  /\ UNCHANGED <<origin, target, confirmed>>

Confirm(m) ==
  /\ <<target[m], m>> \in received
  /\ confirmed' = confirmed \cup {m}
  /\ UNCHANGED <<origin, target, received>>

Next ==
  \/ \E n \in Node, m \in Msg, to \in Node \cup {Broadcast} : Send(n, m, to)
  \/ \E n \in Node, m \in Msg : Receive(n, m)
  \/ \E m \in Msg : Confirm(m)

Spec == Init /\ [][Next]_vars

=============================================================================
