--------------------------- MODULE MCOrderLifecycle ---------------------------
(* Instances of OrderLifecycle for TLC. *)
EXTENDS OrderLifecycle

CONSTANTS E, S, T    \* an entry, its stop loss and its take profit

MCOneChild  == {S}
MCChildren  == {S, T}
MCTempIds   == [l \in Leg |-> IF l = E THEN -1 ELSE IF l = S THEN -2 ELSE -3]
==============================================================================
