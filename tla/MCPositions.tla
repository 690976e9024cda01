----------------------------- MODULE MCPositions -----------------------------
(* Instances of Positions: which group trades which symbol.                 *)
EXTENDS Positions, TLC

CONSTANTS A, B, g1, g2

\* Two brackets on one symbol, or one on each of two.
SameSymbol == g1 :> A @@ g2 :> A
OneGroup   == g1 :> A
PairSize   == [g \in Group |-> 2]
UnitSize   == [g \in Group |-> 1]
==============================================================================
