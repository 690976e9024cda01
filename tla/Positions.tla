------------------------------ MODULE Positions ------------------------------
(***************************************************************************)
(* The reconciliation of positions at the end of every recovery run        *)
(* (reconcile_broker_positions, recovery.py), which order_status_sync_loop *)
(* starts again and again: what TWS holds of a symbol is compared with the *)
(* executions of the trades that are not settled.  A surplus is booked as  *)
(* an entry of the group UNASSIGNED_<symbol>; for a deficit the exits of   *)
(* the symbol are cancelled and synthetic exits close its trades.          *)
(*                                                                         *)
(* A group is a bracket that was sent: an ENTRY and one exit (SL), filled  *)
(* in one execution each.  An exit may wait for its retry when the model   *)
(* begins; how orders are sent and bounce is OrderLifecycle's subject,     *)
(* partial fills and cancelled entries are Settlement's.                   *)
(***************************************************************************)
EXTENDS Integers, FiniteSets, Functions

CONSTANTS
    Symbol,
    Group,      \* trade groups, each of one symbol
    SymbolOf,
    Size,       \* the quantity of each group's orders
    Held,       \* groups whose entry was filled and booked before
    Unsent,     \* groups whose exit was refused and waits for its retry (Created)
    Steady,     \* symbols that hold one unit from before, which nobody sells
    MaxSells,   \* bound on the units sold by hand
    Faults,     \* what may go wrong
    None

AllFaults ==
    {"lag",     \* positions are reported later than executions
     "raise",   \* cancelOrder raises: the session is lost, say
     "race"}    \* an exit is sent while or after a run cancels its Created row

ASSUME PositionsAssumption ==
    /\ IsFiniteSet(Symbol) /\ IsFiniteSet(Group) /\ Symbol \cap Group = {}
    /\ SymbolOf \in [Group -> Symbol] /\ Size \in [Group -> Nat \ {0}]
    /\ Held \subseteq Group /\ Unsent \subseteq Group /\ Steady \subseteq Symbol
    /\ MaxSells \in Nat /\ Faults \subseteq AllFaults
    /\ None \notin Symbol \cup Group

\* A book is what a trade_group_id names: a group, or the lot UNASSIGNED_<symbol>.
Book     == Group \cup Symbol
Order    == {"ENTRY", "SL"} \X Group
BookOf(s) == {s} \cup {g \in Group : SymbolOf[g] = s}

VARIABLES
    held, seen,       \* the position of a symbol, and ib.positions()
    order,            \* the orders at TWS
    recalled,         \* orders TWS has been asked to cancel
    forgotten,        \* exits whose cancelOrder has raised (a history variable)
    sells,
    arrived, told,    \* tasks: executions to save, Filled events to write
    due,              \* settlement tasks
    status, saved,    \* the table: orders.status, orders whose execution is there
    lot,              \* quantity of the synthetic entry (0: no row)
    closed,           \* quantity of a book's synthetic EXIT (0: no row)
    settled,          \* books in trades_settlement
    rpc,              \* the recovery run: place,
    rSeen, rBook,     \* positions and executions it has read,
    rLeft, rSymbol,   \* symbols left, the one in hand,
    rOrders, rUnsent, \* its exits to cancel, read as sent and as Created,
    rBooks,           \* its entries to close,
    rNeed, rSettle    \* remaining deficit, book to settle

twsVars  == <<held, seen, order, recalled, forgotten, sells>>
taskVars == <<arrived, told, due>>
dbVars   == <<status, saved, lot, closed, settled>>
recVars  == <<rpc, rSeen, rBook, rLeft, rSymbol, rOrders, rUnsent, rBooks, rNeed, rSettle>>
vars     == <<twsVars, taskVars, dbVars, recVars>>

\* The types; a synthetic quantity is never negative.
TypeOK ==
    /\ held \in [Symbol -> Int] /\ seen \in [Symbol -> Int]
    /\ order \in [Order -> {"unsent", "waiting", "working", "filled", "cancelled"}]
    /\ recalled \subseteq Order /\ forgotten \subseteq Order /\ sells \in 0..MaxSells
    /\ arrived \subseteq Order /\ told \subseteq Order /\ due \subseteq Group
    /\ status \in [Order -> {"Created", "Submitted", "Filled", "Cancelled"}]
    /\ saved \subseteq Order /\ settled \subseteq Book
    /\ lot \in [Symbol -> Nat] /\ closed \in [Book -> Nat]
    /\ rpc \in {"off", "start", "query", "surplus", "deficit", "cancel", "close",
                "settle"}
    /\ rSeen \in [Symbol -> Int] /\ rBook \in [Symbol -> Int]
    /\ rLeft \subseteq Symbol /\ rSymbol \in Symbol \cup {None}
    /\ rOrders \subseteq Order /\ rUnsent \subseteq Order /\ rBooks \subseteq Book
    /\ rNeed \in Nat /\ rSettle \in Book \cup {None}

Nothing == [s \in Symbol |-> 0]

Bought  == {<<"ENTRY", g>> : g \in Held}
Refused == {<<"SL", g>> : g \in Unsent}

Init ==
    /\ held = [s \in Symbol |-> (IF s \in Steady THEN 1 ELSE 0)
                    + SumFunctionOnSet(Size, BookOf(s) \cap Held)]
    /\ seen = held
    /\ order = [o \in Order |-> IF o \in Bought THEN "filled"
                                ELSE IF o \in Refused THEN "unsent"
                                ELSE IF o[1] = "ENTRY" \/ o[2] \in Held THEN "working"
                                ELSE "waiting"]
    /\ recalled = {} /\ forgotten = {} /\ sells = 0
    /\ arrived = {} /\ told = {} /\ due = {}
    /\ status = [o \in Order |-> IF o \in Bought THEN "Filled"
                                 ELSE IF o \in Refused THEN "Created" ELSE "Submitted"]
    /\ saved = Bought
    /\ lot = Nothing /\ closed = [b \in Book |-> 0] /\ settled = {}
    /\ rpc = "off" /\ rSeen = Nothing /\ rBook = Nothing
    /\ rLeft = {} /\ rSymbol = None /\ rOrders = {} /\ rUnsent = {} /\ rBooks = {}
    /\ rNeed = 0 /\ rSettle = None

----------------------------------------------------------------------------
(* TWS and the trader.                                                     *)

\* A change of a position, reported at once or later.
Moved(s, n) ==
    /\ held' = [held EXCEPT ![s] = @ + n]
    /\ seen' = IF "lag" \in Faults THEN seen ELSE [seen EXCEPT ![s] = @ + n]

Report(s) ==
    /\ seen[s] # held[s]
    /\ seen' = [seen EXCEPT ![s] = held[s]]
    /\ UNCHANGED <<held, order, recalled, forgotten, sells, taskVars, dbVars, recVars>>

\* An order is filled; the fill of an entry activates its exit.
Execute(o) ==
    LET g == o[2] IN
    /\ order[o] = "working"
    /\ order' = [p \in Order |->
                    IF p = o THEN "filled"
                    ELSE IF p = <<"SL", g>> /\ order[p] = "waiting" THEN "working"
                    ELSE order[p]]
    /\ Moved(SymbolOf[g], IF o[1] = "ENTRY" THEN Size[g] ELSE 0 - Size[g])
    /\ arrived' = arrived \cup {o} /\ told' = told \cup {o}
    /\ UNCHANGED <<recalled, forgotten, sells, due, dbVars, recVars>>

\* TWS works off the request to cancel an order.
TwsCancels(o) ==
    /\ o \in recalled
    /\ recalled' = recalled \ {o}
    /\ order' = IF order[o] = "filled" THEN order ELSE [order EXCEPT ![o] = "cancelled"]
    /\ UNCHANGED <<held, seen, forgotten, sells, taskVars, dbVars, recVars>>

\* The trader sells a unit in TWS.
Sell(s) ==
    /\ s \notin Steady /\ held[s] > 0 /\ sells < MaxSells
    /\ sells' = sells + 1
    /\ Moved(s, 0 - 1)
    /\ UNCHANGED <<order, recalled, forgotten, taskVars, dbVars, recVars>>

----------------------------------------------------------------------------
(* The worker and the callbacks.                                           *)

\* The worker sends the exit of a retried group under a new id.  It has read the row
\* before other awaits: what it says by now matters only without the race.
Send(g) ==
    LET exit == <<"SL", g>> IN
    /\ order[exit] = "unsent"
    /\ \/ "race" \in Faults
       \/ status[exit] = "Created" /\ exit \notin rUnsent
    /\ status' = [status EXCEPT ![exit] = "Submitted"]
    /\ order' = [order EXCEPT ![exit] =
                    IF order[<<"ENTRY", g>>] = "filled" THEN "working" ELSE "waiting"]
    /\ UNCHANGED <<held, seen, recalled, forgotten, sells, taskVars, saved, lot, closed,
                   settled, recVars>>

SaveExecution(o) ==
    /\ o \in arrived
    /\ arrived' = arrived \ {o} /\ saved' = saved \cup {o}
    /\ UNCHANGED <<twsVars, told, due, status, lot, closed, settled, recVars>>

\* A Filled event; a terminal row is left alone, an exit starts a settlement.
WriteFilled(o) ==
    /\ o \in told
    /\ told' = told \ {o}
    /\ IF status[o] = "Submitted"
       THEN /\ status' = [status EXCEPT ![o] = "Filled"]
            /\ due' = IF o[1] = "SL" THEN due \cup {o[2]} ELSE due
       ELSE UNCHANGED <<status, due>>
    /\ UNCHANGED <<twsVars, arrived, saved, lot, closed, settled, recVars>>

\* settle_trade_group looks for executions of both sides, not at their quantities.
HasBothSides(b) ==
    /\ b \in Symbol \/ <<"ENTRY", b>> \in saved
    /\ closed[b] > 0 \/ <<"SL", b>> \in saved

Settle(g) ==
    /\ g \in due
    /\ due' = due \ {g}
    /\ settled' = IF HasBothSides(g) THEN settled \cup {g} ELSE settled
    /\ UNCHANGED <<twsVars, arrived, told, status, saved, lot, closed, recVars>>

----------------------------------------------------------------------------
(* A recovery run.                                                         *)

\* The orders' part of run_recovery, in one step: pending rows whose order is
\* done at TWS become Filled, with their executions, and are settled.
RecoverOrders ==
    LET missed == {o \in Order : status[o] = "Submitted" /\ order[o] = "filled"} IN
    /\ rpc = "off"
    /\ rpc' = "start"
    /\ status' = [o \in Order |-> IF o \in missed THEN "Filled" ELSE status[o]]
    /\ saved' = saved \cup missed
    /\ due' = due \cup {o[2] : o \in missed}
    /\ UNCHANGED <<twsVars, arrived, told, lot, closed, settled, rSeen, rBook, rLeft,
                   rSymbol, rOrders, rUnsent, rBooks, rNeed, rSettle>>

\* The run is over, or an exception ends it; order_status_sync_loop goes on.
Return ==
    /\ rpc' = "off" /\ rSeen' = Nothing /\ rBook' = Nothing
    /\ rLeft' = {} /\ rSymbol' = None /\ rOrders' = {} /\ rUnsent' = {} /\ rBooks' = {}
    /\ rNeed' = 0 /\ rSettle' = None

\* ib.positions(): no position at all ends the run.
ReadPositions ==
    /\ rpc = "start"
    /\ IF seen = Nothing
       THEN Return
       ELSE /\ rSeen' = seen /\ rpc' = "query"
            /\ UNCHANGED <<rBook, rLeft, rSymbol, rOrders, rUnsent, rBooks, rNeed, rSettle>>
    /\ UNCHANGED <<twsVars, taskVars, dbVars>>

\* The executions of a book: bought less sold.
Amount ==
    [b \in Book |->
        IF b \in Symbol THEN lot[b] - closed[b]
        ELSE (IF <<"ENTRY", b>> \in saved THEN Size[b] ELSE 0)
             - (IF <<"SL", b>> \in saved THEN Size[b] ELSE 0) - closed[b]]

Net(s) == SumFunctionOnSet(Amount, BookOf(s) \ settled)

ReadExecutions ==
    /\ rpc = "query"
    /\ rBook' = [s \in Symbol |-> Net(s)]
    /\ rLeft' = {s \in Symbol : rSeen[s] # 0}
    /\ rpc' = "surplus"
    /\ UNCHANGED <<twsVars, taskVars, dbVars, rSeen, rSymbol, rOrders, rUnsent, rBooks, rNeed,
                   rSettle>>

\* A position above a net quantity that is not negative.
Surplus(s) == rSeen[s] > 0 /\ rBook[s] >= 0 /\ rSeen[s] > rBook[s]

\* Mutants: the sign of the difference, or a symbol TWS does not list, is forgotten.
DeficitAny(s)    == rBook[s] # rSeen[s]
DeficitListed(s) == rSeen[s] # 0 /\ rBook[s] > 0 /\ rBook[s] > rSeen[s]

Deficit(s) == rBook[s] > 0 /\ rBook[s] > rSeen[s]

\* Mutant: a symbol unknown to the table is passed over.
BookSurplusOfKnown(s) ==
    /\ rpc = "surplus" /\ s \in rLeft
    /\ rLeft' = rLeft \ {s}
    /\ lot' = IF Surplus(s) /\ rBook[s] > 0
              THEN [lot EXCEPT ![s] = rSeen[s] - rBook[s]] ELSE lot
    /\ UNCHANGED <<twsVars, taskVars, status, saved, closed, settled, rpc, rSeen, rBook,
                   rSymbol, rOrders, rUnsent, rBooks, rNeed, rSettle>>

\* The rows of a group are unique by role and order type: a symbol gets one
\* synthetic entry, a second one raises and ends the run.
BookSurplus(s) ==
    /\ rpc = "surplus" /\ s \in rLeft
    /\ IF Surplus(s) /\ lot[s] > 0
       THEN Return /\ UNCHANGED lot
       ELSE /\ rLeft' = rLeft \ {s}
            /\ lot' = IF Surplus(s) THEN [lot EXCEPT ![s] = rSeen[s] - rBook[s]] ELSE lot
            /\ UNCHANGED <<rpc, rSeen, rBook, rSymbol, rOrders, rUnsent, rBooks, rNeed, rSettle>>
    /\ UNCHANGED <<twsVars, taskVars, status, saved, closed, settled>>

SurplusDone ==
    /\ rpc = "surplus" /\ rLeft = {}
    /\ rLeft' = {s \in Symbol : Deficit(s)}
    /\ rpc' = "deficit"
    /\ UNCHANGED <<twsVars, taskVars, dbVars, rSeen, rBook, rSymbol, rOrders, rUnsent, rBooks,
                   rNeed, rSettle>>

ExitsOf(s) == {o \in Order : o[1] = "SL" /\ SymbolOf[o[2]] = s}

\* The pending exits of the symbol, of all its groups, are read.
ReadExits(s) ==
    /\ rpc = "deficit" /\ s \in rLeft
    /\ rSymbol' = s /\ rLeft' = rLeft \ {s}
    /\ rNeed' = rBook[s] - rSeen[s]
    /\ rOrders' = {o \in ExitsOf(s) : status[o] = "Submitted"}
    /\ rUnsent' = {o \in ExitsOf(s) : status[o] = "Created"}
    /\ rpc' = "cancel"
    /\ UNCHANGED <<twsVars, taskVars, dbVars, rSeen, rBook, rBooks, rSettle>>

DeficitDone ==
    /\ rpc = "deficit" /\ rLeft = {}
    /\ Return
    /\ UNCHANGED <<twsVars, taskVars, dbVars>>

\* Mutant: only the row is cancelled.
CancelRow(o) ==
    /\ rpc = "cancel" /\ o \in rOrders
    /\ rOrders' = rOrders \ {o}
    /\ status' = [status EXCEPT ![o] = "Cancelled"]
    /\ UNCHANGED <<twsVars, taskVars, saved, lot, closed, settled, rpc, rSeen, rBook,
                   rLeft, rSymbol, rUnsent, rBooks, rNeed, rSettle>>

\* cancelOrder at TWS, then the row, whatever it says by now and even if the
\* request has raised, which is only logged.
CancelExit(o) ==
    /\ rpc = "cancel" /\ o \in rOrders
    /\ rOrders' = rOrders \ {o}
    /\ \/ recalled' = recalled \cup {o} /\ UNCHANGED forgotten
       \/ "raise" \in Faults /\ forgotten' = forgotten \cup {o} /\ UNCHANGED recalled
    /\ status' = [status EXCEPT ![o] = "Cancelled"]
    /\ UNCHANGED <<held, seen, order, sells, taskVars, saved, lot, closed, settled, rpc,
                   rSeen, rBook, rLeft, rSymbol, rUnsent, rBooks, rNeed, rSettle>>

\* An exit read as Created is not at TWS: only its row is cancelled, unless the
\* worker has sent it since, under a new id.
CancelUnsent(o) ==
    /\ rpc = "cancel" /\ o \in rUnsent
    /\ rUnsent' = rUnsent \ {o}
    /\ status' = IF status[o] = "Created" THEN [status EXCEPT ![o] = "Cancelled"] ELSE status
    /\ UNCHANGED <<twsVars, taskVars, saved, lot, closed, settled, rpc, rSeen, rBook,
                   rLeft, rSymbol, rOrders, rBooks, rNeed, rSettle>>

\* The symbol's filled entries that are not settled; a lot's row is born Filled.
ReadEntries ==
    /\ rpc = "cancel" /\ rOrders = {} /\ rUnsent = {}
    /\ rBooks' = {b \in BookOf(rSymbol) \ settled :
                     IF b \in Symbol THEN lot[b] > 0 ELSE status[<<"ENTRY", b>>] = "Filled"}
    /\ rpc' = "close"
    /\ UNCHANGED <<twsVars, taskVars, dbVars, rSeen, rBook, rLeft, rSymbol, rOrders,
                   rUnsent, rNeed, rSettle>>

Quantity(b) == IF b \in Symbol THEN lot[b] ELSE Size[b]
Least(m, n) == IF m < n THEN m ELSE n

\* Entries are closed by rising order_id; the lot's id is negative.  A second
\* synthetic exit of a group violates the same uniqueness and ends the run.
Close(b) ==
    /\ rpc = "close" /\ rNeed > 0 /\ b \in rBooks
    /\ b \in Group => rBooks \cap Symbol = {}
    /\ IF closed[b] > 0
       THEN Return /\ UNCHANGED closed
       ELSE /\ closed' = [closed EXCEPT ![b] = Least(rNeed, Quantity(b))]
            /\ rNeed' = rNeed - Least(rNeed, Quantity(b))
            /\ rBooks' = rBooks \ {b} /\ rSettle' = b
            /\ rpc' = "settle"
            /\ UNCHANGED <<rSeen, rBook, rLeft, rSymbol, rOrders, rUnsent>>
    /\ UNCHANGED <<twsVars, taskVars, status, saved, lot, settled>>

\* The run awaits the settlement of the book it has closed.
SettleClosed ==
    /\ rpc = "settle"
    /\ settled' = IF HasBothSides(rSettle) THEN settled \cup {rSettle} ELSE settled
    /\ rSettle' = None
    /\ rpc' = "close"
    /\ UNCHANGED <<twsVars, taskVars, status, saved, lot, closed, rSeen, rBook, rLeft,
                   rSymbol, rOrders, rUnsent, rBooks, rNeed>>

SymbolDone ==
    /\ rpc = "close" /\ (rNeed = 0 \/ rBooks = {})
    /\ rBooks' = {} /\ rNeed' = 0 /\ rSymbol' = None
    /\ rpc' = "deficit"
    /\ UNCHANGED <<twsVars, taskVars, dbVars, rSeen, rBook, rLeft, rOrders, rUnsent,
                   rSettle>>

----------------------------------------------------------------------------
Broker ==
    \/ \E s \in Symbol : Report(s) \/ Sell(s)
    \/ \E o \in Order : Execute(o) \/ TwsCancels(o)

Callbacks ==
    \/ \E o \in Order : SaveExecution(o) \/ WriteFilled(o)
    \/ \E g \in Group : Send(g) \/ Settle(g)

Run ==
    \/ RecoverOrders \/ ReadPositions \/ ReadExecutions
    \/ \E s \in Symbol : BookSurplus(s) \/ ReadExits(s)
    \/ SurplusDone \/ DeficitDone
    \/ \E o \in Order : CancelExit(o) \/ CancelUnsent(o)
    \/ ReadEntries
    \/ \E b \in Book : Close(b)
    \/ SettleClosed \/ SymbolDone

Next == Broker \/ Callbacks \/ Run

\* The event loop serves every task, order_status_sync_loop starts run after run,
\* and TWS reports positions and answers requests to cancel.
Fairness ==
    /\ WF_vars(Run)
    /\ \A o \in Order : WF_vars(SaveExecution(o)) /\ WF_vars(WriteFilled(o))
                        /\ WF_vars(TwsCancels(o))
    /\ \A g \in Group : WF_vars(Settle(g))
    /\ \A s \in Symbol : WF_vars(Report(s))

Spec     == Init /\ [][Next]_vars
FairSpec == Spec /\ Fairness

----------------------------------------------------------------------------
\* Exits that work on a position that is gone.
Orphans(s) == {o \in ExitsOf(s) : held[s] <= 0 /\ order[o] = "working"}

\* What the docstring of reconcile_broker_positions promises: orphaned exits are
\* cancelled ("Short-Schutz"), lest they open a short position.
AllOrphansEnd == \A s \in Symbol : Orphans(s) # {} ~> Orphans(s) = {}

\* The same of the exits that TWS could be asked to cancel: an exit is not left
\* working on a position that is gone.
OrphanedExitsEnd ==
    \A s \in Symbol : Orphans(s) \ forgotten # {} ~> Orphans(s) \ forgotten = {}

\* Once nothing moves any more, the unsettled trades add up to what TWS holds,
\* unless that is a short position, which the reconciliation leaves alone.
BooksAgree == <>[](\A s \in Symbol : held[s] >= 0 => Net(s) = held[s])

\* A row that the reconciliation cancels belongs to an order that is over, was never
\* sent or that TWS has been asked to cancel, or could not be asked: no other exit is
\* forgotten at TWS, whatever is sent and filled while the run cancels.
CancelledIsRecalled ==
    \A o \in Order : status[o] = "Cancelled"
                         => o \in recalled \cup forgotten
                            \/ order[o] \in {"unsent", "filled", "cancelled"}

\* What references/architecture.md promises: exits are cancelled only for a
\* deficit caused outside, so without a manual sale a filled entry keeps its exit.
OwnExitsKept ==
    sells = 0 => \A g \in Group : order[<<"ENTRY", g>>] = "filled"
                                      => <<"SL", g>> \notin recalled
                                         /\ order[<<"SL", g>>] # "cancelled"
==============================================================================
