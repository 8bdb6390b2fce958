------------------------------ MODULE MCFanOut ------------------------------
(* FanOut for TLC: no item, one, and three of which two share their child. *)
EXTENDS FanOut

CONSTANTS c1, c2

SmallBatches == {<<>>, <<c1>>, <<c1, c2, c1>>}
=============================================================================
