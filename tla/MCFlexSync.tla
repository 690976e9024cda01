------------------------------ MODULE MCFlexSync ------------------------------
(* Instances of FlexSync. *)
EXTENDS FlexSync, FiniteSetsExt

\* The first and the third group have one size.
TwoSizes == [g \in Group |-> IF g = 2 THEN 2 ELSE 1]

\* ib.positions() of the symbol, added up.
NetPosition ==
    [S \in SUBSET Group |-> MapThenSumSet(LAMBDA g : IF g \in Long THEN TwoSizes[g] ELSE -TwoSizes[g], S)]
=============================================================================
