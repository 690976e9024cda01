------------------------------- MODULE MCIntake -------------------------------
(* An instance of Intake: the files of two days. *)
EXTENDS Intake

CONSTANTS g1, g2, g3

MkItem(g, ls, k, q, p) == [group |-> g, legs |-> ls, kind |-> k, qty |-> q, price |-> p]

\* On the first day a group that is refused and two entries, of which the account
\* carries one and at most half of the other; on the next day the first group again,
\* as a futures contract, and a standalone exit of the second with the quantity its
\* entry was meant to have.
TwoDays ==
    << << MkItem(g3, {"SL"}, "invalid", 1, 0),
          MkItem(g1, {"ENTRY"}, "equity", 1, 2),
          MkItem(g2, {"ENTRY"}, "equity", 2, 2) >>,
       << MkItem(g1, {"ENTRY"}, "future", 1, 0),
          MkItem(g2, {"EXIT"}, "equity", 2, 0) >> >>

\* A bracket whose stop-loss has the quantity of its entry.
OneBracket == << << MkItem(g1, {"ENTRY", "SL"}, "equity", 2, 2) >> >>
=============================================================================
