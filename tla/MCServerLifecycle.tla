------------------------- MODULE MCServerLifecycle -------------------------
(* Instances of ServerLifecycle for TLC: connections that compete for fewer *)
(* permits, for as many, or for none.                                       *)
EXTENDS ServerLifecycle

CONSTANTS c1, c2, c3

ThreeConns == {c1, c2, c3}
TwoConns == {c1, c2}
=============================================================================
