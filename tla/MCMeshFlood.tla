---------------------------- MODULE MCMeshFlood ----------------------------
(***************************************************************************)
(* Networks of a few nodes for MeshFlood.  In the kite copies of one       *)
(* message meet at a node through different readers, and there are two     *)
(* disjoint ways from a to d.  In the paw, a triangle with a tail, the     *)
(* copy that reaches c first may be the one that came round by b, and d    *)
(* hears from c only.                                                      *)
(***************************************************************************)
EXTENDS MeshFlood, TLC

CONSTANTS a, b, c, d

Both(pairs) == pairs \cup {<<p[2], p[1]>> : p \in pairs}

Triangle == Both({<<a, b>>, <<a, c>>, <<b, c>>})
Paw      == Triangle \cup Both({<<c, d>>})
Kite     == Paw \cup Both({<<b, d>>})

=============================================================================
