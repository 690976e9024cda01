------------------------------ MODULE OrderBook ------------------------------
(***************************************************************************)
(* What the order handling of a trade group promises about TWS, whatever   *)
(* fails on the way: a leg has at most one order that can still be         *)
(* executed, a new one is placed only after the last one is over, and its  *)
(* id is higher than every id used before, so no event of an old order can *)
(* be taken for one of a new order.  OrderLifecycle implements it.         *)
(***************************************************************************)
EXTENDS Integers

CONSTANTS Leg, MaxId

VARIABLES
    open,   \* of each leg, its orders that may still be executed
    used    \* the ids of all orders placed so far

vars == <<open, used>>

Id == 1..MaxId

Init ==
    /\ open = [l \in Leg |-> {}]
    /\ used \in SUBSET Id

Place(l) ==
    /\ open[l] = {}
    /\ \E i \in Id :
        /\ \A j \in used : j < i
        /\ open' = [open EXCEPT ![l] = {i}]
        /\ used' = used \cup {i}

\* Fills, cancellations and refusals, each of which may take others along.
Close(legs) ==
    /\ open' = [l \in Leg |-> IF l \in legs THEN {} ELSE open[l]]
    /\ UNCHANGED used

Next ==
    \/ \E l \in Leg : Place(l)
    \/ \E legs \in SUBSET Leg : Close(legs)

Spec == Init /\ [][Next]_vars
==============================================================================
