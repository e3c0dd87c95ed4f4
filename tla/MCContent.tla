----------------------------- MODULE MCContent -----------------------------
(* An instance of Content for TLC.                                         *)
EXTENDS Content

CONSTANTS a, b, c, d

\* A triangle of nodes, and one more that only c reaches.
Links == LET half == {<<a, b>>, <<b, c>>, <<c, a>>, <<c, d>>}
         IN  half \cup {<<p[2], p[1]>> : p \in half}

Urls == {[owner |-> c], [owner |-> d]}

=============================================================================
