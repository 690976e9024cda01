----------------------------- MODULE OrderStatus -----------------------------
(***************************************************************************)
(* The vocabulary of the orders table: the status column, the statuses TWS *)
(* reports, how TwsCallbacksManager maps and admits them, and the classes  *)
(* of TWS error codes.  Constant-level; every other module builds on it.   *)
(***************************************************************************)
EXTENDS Integers

\* The CHECK constraint of orders.status.
Status == {"Created", "Submitted", "PreSubmitted", "Filled", "Cancelled", "Error"}

\* States that _validate_status_transition treats as final.
Terminal == {"Filled", "Cancelled"}

\* Statuses under which recovery looks an order up at TWS.
Pending == {"Created", "Submitted", "PreSubmitted"}

\* The status strings of ib_async's OrderStatus (ApiCancelled and anything the
\* mapping does not name are collapsed into "Other").
TwsStatus == {"PendingSubmit", "PreSubmitted", "Submitted", "PendingCancel",
              "Filled", "Cancelled", "Inactive", "ValidationError", "Other"}

\* What a status event asks for: a table status, or the transient PendingCancel.
Requested == Status \cup {"PendingCancel"}

\* Mutant: a status the mapping does not name is stored as it is.
MapTwsStatusRaw(s, preMarket) ==
    IF s = "PendingSubmit" THEN "Submitted" ELSE s

\* TwsCallbacksManager._map_tws_status; preMarket: a 399 hold notice is known.
MapTwsStatus(s, preMarket) ==
    CASE s \in {"PreSubmitted", "Submitted"}     -> s
      [] s = "PendingSubmit"                      -> "Submitted"
      [] s = "PendingCancel"                      -> "PendingCancel"
      [] s = "Filled"                             -> "Filled"
      [] s \in {"Cancelled", "Inactive"}          -> "Cancelled"
      [] s = "ValidationError" /\ preMarket       -> "PreSubmitted"
      [] OTHER                                    -> "Error"

\* Mutant: nothing may follow PreSubmitted but a cancellation.
ValidTransitionTooStrict(current, new, preMarket) ==
    /\ current \notin Terminal
    /\ new # "PendingCancel"
    /\ ~(current = "PreSubmitted" /\ new \in {"Submitted", "Filled"})
    /\ ~(new = "Error" /\ current \in {"PreSubmitted", "Submitted"})
    /\ ~(new = "Error" /\ current = "Created" /\ preMarket)

\* TwsCallbacksManager._validate_status_transition, first component: may the
\* status event `new` overwrite the row's `current`?
ValidTransition(current, new, preMarket) ==
    /\ current \notin Terminal
    /\ new # "PendingCancel"
    /\ ~(current = "PreSubmitted" /\ new = "Submitted")
    /\ ~(new = "Error" /\ current \in {"PreSubmitted", "Submitted"})
    /\ ~(new = "Error" /\ current = "Created" /\ preMarket)

\* The row's status after the event has been applied or refused.
AfterEvent(current, new, preMarket) ==
    IF ValidTransition(current, new, preMarket) THEN new ELSE current

\* classify_error_code for a message that is not a read-only notice.
ErrorClass(code) ==
    CASE code \in {2100, 2103, 2104, 2105, 2106, 2107, 2108, 2109, 2119, 2157,
                   2158, 2182, 321, 322, 399, 10167}      -> "INFO"
      [] code \in {1101, 1102}                            -> "RECONNECT"
      [] code \in {1100, 1300, 10148, 502, 504, 162}      -> "RETRIABLE"
      [] code \in {202, 10147, 10149, 10268}              -> "CANCEL"
      [] OTHER                                            -> "FATAL"
==============================================================================
