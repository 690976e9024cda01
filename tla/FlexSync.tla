------------------------------- MODULE FlexSync -------------------------------
(***************************************************************************)
(* The Flex synchronisation (services/flex_query): a statement of trades   *)
(* and cash is compared with the trade groups the database knows; cash is  *)
(* booked into cash_ledger, a sale the program has missed is booked as the *)
(* exit of its group, and the group is settled.  The daily loop, Telegram  *)
(* and the command line may run it at once, without a lock, while groups   *)
(* are sent, entered and closed.                                           *)
(*                                                                         *)
(* All groups are of one account and one symbol (others never match) and   *)
(* are closed by one trade of their size.                                  *)
(***************************************************************************)
EXTENDS Integers, FiniteSets, Sequences

CONSTANTS
    Group,      \* trade groups, numbers in the order in which GROUP BY lists them
    None,       \* no group
    Long,       \* the groups whose entry is a BUY
    Qty,        \* their quantities
    CutShort,   \* groups whose entry row is Cancelled after its execution
    Position,   \* broker_positions of the symbol, by the set of groups held
    IdKind,     \* trade_id of a statement: "exec", that of TWS, or "trade", its own
    Run,        \* synchronisations that may go on at once
    MaxDay,     \* the last day, on which nothing is traded any more
    MaxSent,    \* bound on the groups that are sent
    ExDay, PayDay, \* days on which the stock goes ex dividend and pays it
    Delay,      \* days by which statements lag behind
    MaxAborts,  \* bound on synchronisations that end early
    Faults      \* what the environment may do

AllFaults ==
    {"missed",   \* a position is closed without the program: by hand, by a
                 \* liquidation, or while it is down
     "blind",    \* a synchronisation sees no positions: the command line has no
                 \* session, or TWS is not connected
     "abort",    \* a synchronisation ends between two awaits: an exception, a crash
     "halfway"}  \* the same between the booking of an exit and its settlement

\* What an execution is booked on: the entry of a group, the exit that was sent with
\* it, or a synthetic one.
Booking == [group : Group, role : {"ENTRY", "SL", "EXIT"}]

ASSUME FlexAssumption ==
    /\ Group \subseteq Nat /\ IsFiniteSet(Group) /\ None \notin Group \cup Booking
    /\ Long \subseteq Group /\ CutShort \subseteq Group
    /\ Qty \in [Group -> Nat \ {0}]
    /\ Position \in [SUBSET Group -> Int]
    /\ \A S \in SUBSET Long : S # {} => Position[S] > 0
    /\ IdKind \in {"exec", "trade"} /\ MaxDay \in Nat \ {0}
    /\ MaxSent \in Nat /\ MaxAborts \in Nat /\ Delay \in Nat
    /\ ExDay \in Nat \ {0} /\ PayDay \in Nat /\ ExDay < PayDay
    /\ Faults \subseteq AllFaults

Trade == [group : Group, leg : {"ENTRY", "EXIT"}]
Id    == {"exec", IdKind} \X Trade
\* the charges of a trade; OpenDividendAccrual and CashTransaction of a dividend
Item  == {"fee"} \X Trade \cup {"accrual", "payment"} \X {None}

VARIABLES
    \* the broker: the day; the days on which groups were sent, entered and closed
    \* (0: not yet)
    day, sent, entered, closed,
    \* the tables: status of a group's exit that was sent with it; the day of its
    \* synthetic EXIT row (0: none); executions; trades_settlement (settled_at, 0: no
    \* row); cash_ledger: the groups an item is booked on, None for the account
    child, exitRow, executions, settledAt, ledger,
    \* settlement tasks of fills the program has seen
    settling,
    \* a synchronisation: place, statement, historical_trades, broker_positions > 0,
    \* actions still to apply, group to settle
    rpc, trades, items, contexts, holding, actions, current,
    aborts,     \* synchronisations that have ended early
    early       \* groups that some synchronisation has read before they were entered
                \* (a history variable)

brokerVars == <<day, sent, entered, closed>>
dbVars     == <<child, exitRow, executions, settledAt, ledger>>
runVars    == <<rpc, trades, items, contexts, holding, actions, current>>
vars == <<brokerVars, dbVars, settling, runVars, aborts, early>>

\* entry_date is the first of the dates; entry_status is Cancelled if cut is set
Context == [group : Group, action : {"BUY", "SELL"}, qty : Nat, dates : SUBSET Nat,
            until : Nat, settled : BOOLEAN, cut : BOOLEAN, ids : SUBSET Id]

Day == 0..MaxDay

\* The tables and the locals of the synchronisations keep their types; none starts
\* with what an earlier one has left.
TypeOK ==
    /\ day \in 1..MaxDay
    /\ sent \in [Group -> Day] /\ entered \in [Group -> Day] /\ closed \in [Group -> Day]
    /\ child \in [Group -> {"none", "open", "Filled", "Cancelled"}]
    /\ exitRow \in [Group -> Day]
    /\ executions \in [Id -> Booking \cup {None}]
    /\ settledAt \in [Group -> Day]
    /\ ledger \in [Item -> Seq(Group \cup {None})]
    /\ settling \subseteq Group /\ early \subseteq Group
    /\ rpc \in [Run -> {"idle", "fetch", "ledger", "positions", "match", "book", "settle"}]
    /\ trades \in [Run -> SUBSET Trade] /\ items \in [Run -> SUBSET Item]
    /\ contexts \in [Run -> SUBSET Context] /\ holding \in [Run -> BOOLEAN]
    /\ actions \in [Run -> SUBSET (Trade \X Group)]
    /\ current \in [Run -> Group \cup {None}] /\ aborts \in Nat
    /\ \A r \in Run :
        /\ actions[r] # {} => rpc[r] \in {"book", "settle"}
        /\ current[r] # None <=> rpc[r] = "settle"

Init ==
    /\ day = 1 /\ aborts = 0 /\ early = {}
    /\ sent = [g \in Group |-> 0]
    /\ entered = [g \in Group |-> 0] /\ closed = [g \in Group |-> 0]
    /\ child = [g \in Group |-> "none"] /\ exitRow = [g \in Group |-> 0]
    /\ executions = [i \in Id |-> None]
    /\ settledAt = [g \in Group |-> 0]
    /\ ledger = [i \in Item |-> <<>>]
    /\ settling = {}
    /\ rpc = [r \in Run |-> "idle"]
    /\ trades = [r \in Run |-> {}] /\ items = [r \in Run |-> {}]
    /\ contexts = [r \in Run |-> {}] /\ holding = [r \in Run |-> FALSE]
    /\ actions = [r \in Run |-> {}] /\ current = [r \in Run |-> None]

----------------------------------------------------------------------------
(* The broker, and the program while it is connected.                      *)

Held(g) == entered[g] > 0 /\ closed[g] = 0
HeldGroups == {g \in Group : Held(g)}
Settled(g) == settledAt[g] > 0
TradingDay == day < MaxDay

\* The day of a trade, and whether it has happened.
DayOf(t) == IF t.leg = "ENTRY" THEN entered[t.group] ELSE closed[t.group]
Happened(t) == DayOf(t) > 0

Opposite(a) == IF a = "BUY" THEN "SELL" ELSE "BUY"
EntryAction(g) == IF g \in Long THEN "BUY" ELSE "SELL"
Action(t) == IF t.leg = "ENTRY" THEN EntryAction(t.group)
             ELSE Opposite(EntryAction(t.group))

LegTrade(g, l) == [group |-> g, leg |-> l]
Booked(g, role) == [group |-> g, role |-> role]

\* The worker sends the bracket of a group (transmitted_at).
Send(g) ==
    /\ TradingDay /\ sent[g] = 0
    /\ Cardinality({h \in Group : sent[h] > 0}) < MaxSent
    /\ sent' = [sent EXCEPT ![g] = day]
    /\ child' = [child EXCEPT ![g] = "open"]
    /\ UNCHANGED <<day, entered, closed, exitRow, executions, settledAt, ledger, settling,
                   runVars, aborts, early>>

\* Its entry is filled and the execution saved.
Enter(g) ==
    /\ TradingDay /\ sent[g] > 0 /\ entered[g] = 0
    /\ entered' = [entered EXCEPT ![g] = day]
    /\ executions' = [executions EXCEPT ![<<"exec", LegTrade(g, "ENTRY")>>] = Booked(g, "ENTRY")]
    /\ UNCHANGED <<day, sent, closed, child, exitRow, settledAt, ledger, settling, runVars,
                   aborts, early>>

\* The exit is filled, its execution saved and a settlement started, unless its row
\* is Cancelled, a final state.
Exit(g) ==
    /\ TradingDay /\ Held(g) /\ g \notin CutShort
    /\ closed' = [closed EXCEPT ![g] = day]
    /\ executions' = [executions EXCEPT ![<<"exec", LegTrade(g, "EXIT")>>] = Booked(g, "SL")]
    /\ IF child[g] = "open"
       THEN child' = [child EXCEPT ![g] = "Filled"] /\ settling' = settling \cup {g}
       ELSE UNCHANGED <<child, settling>>
    /\ UNCHANGED <<day, sent, entered, exitRow, settledAt, ledger, runVars, aborts, early>>

\* The position is closed, and the program does not learn of it.
MissedExit(g) ==
    /\ TradingDay /\ Held(g) /\ "missed" \in Faults
    /\ closed' = [closed EXCEPT ![g] = day]
    /\ UNCHANGED <<day, sent, entered, dbVars, settling, runVars, aborts, early>>

\* A recovery run of the same day finds the execution of the missed exit.
Recover(g) ==
    LET id == <<"exec", LegTrade(g, "EXIT")>> IN
    /\ closed[g] = day /\ g \notin CutShort /\ child[g] = "open"
    /\ child' = [child EXCEPT ![g] = "Filled"]
    /\ executions' = [executions EXCEPT ![id] = IF @ = None THEN Booked(g, "SL") ELSE @]
    /\ settling' = settling \cup {g}
    /\ UNCHANGED <<brokerVars, exitRow, settledAt, ledger, runVars, aborts, early>>

\* The ids of the executions booked on a leg of a group.
Ids(g, roles) == {i \in Id : \E role \in roles : executions[i] = Booked(g, role)}
ExitRoles == {"SL", "EXIT"}
HasExit(g) == Ids(g, ExitRoles) # {}

\* settle_trade_group: nothing happens without executions of both sides or a second
\* time.
Settlement(g) ==
    settledAt' = IF Ids(g, {"ENTRY"}) # {} /\ HasExit(g) /\ ~Settled(g)
                 THEN [settledAt EXCEPT ![g] = day] ELSE settledAt

SettleFill(g) ==
    /\ g \in settling /\ settling' = settling \ {g}
    /\ Settlement(g)
    /\ UNCHANGED <<brokerVars, child, exitRow, executions, ledger, runVars, aborts, early>>

NextDay ==
    /\ TradingDay /\ day' = day + 1
    /\ UNCHANGED <<sent, entered, closed, dbVars, settling, runVars, aborts, early>>

----------------------------------------------------------------------------
(* Matching: pure functions of matcher.py.                                 *)

\* The order in which the contexts are listed.
Before(c, d) ==
    \/ c.group < d.group
    \/ c.group = d.group /\ c.action = "BUY" /\ d.action = "SELL"

\* The first context of a set, none if it is empty.
First(C) == {c \in C : \A d \in C : c = d \/ Before(c, d)}

\* A context whose entry_date is not after day d.
Since(c, d) == \E x \in c.dates : x <= d

\* Mutant: a round trip of one day is not matched.
FittingLater(t, C) == {c \in C : c.qty = Qty[t.group] /\ Since(c, DayOf(t) - 1)}

\* Mutant: the quantity of the trade is not compared.
FittingAnySize(t, C) == {c \in C : Since(c, DayOf(t))}

\* The contexts a trade may belong to.
Fitting(t, C) == {c \in C : c.qty = Qty[t.group] /\ Since(c, DayOf(t))}

\* match_flex_trades: the context a trade is for, unsettled ones first.
Matched(t, C) ==
    LET fit  == Fitting(t, C)
        open == {c \in fit : ~c.settled} IN
    First(IF open # {} THEN open ELSE fit)

\* The groups (none or one) for which a trade is a missing exit.
MissingExit(t, C) ==
    IF executions[<<IdKind, t>>] # None THEN {}
    ELSE {c.group : c \in {d \in Matched(t, C) : /\ d.action # Action(t) /\ ~d.settled /\ ~d.cut}}

\* _find_matching_trade
Holder(d, action, C) ==
    First({c \in C : c.action = action /\ Since(c, d) /\ (c.until = 0 \/ d <= c.until)})

\* match_flex_statement: the group an item is booked on, or None.  (order_ids and
\* perm_ids of a context are never filled, so a reference to an order matches none.)
Allocation(i, C) ==
    LET known == First({c \in C : i[1] = "fee" /\ <<IdKind, i[2]>> \in c.ids})
        held  == IF i[1] = "fee" THEN Holder(DayOf(i[2]), Action(i[2]), C)
                 ELSE IF i[1] = "accrual" THEN Holder(ExDay, "BUY", C)
                 ELSE Holder(PayDay, "BUY", C)
        found == IF known # {} THEN known ELSE held IN
    IF found = {} THEN None ELSE (CHOOSE c \in found : TRUE).group

----------------------------------------------------------------------------
(* A synchronisation.                                                      *)

Goto(r, p) == rpc' = [rpc EXCEPT ![r] = p]
KeepOutside == UNCHANGED <<brokerVars, settling, aborts, early>>

\* The statement has been fetched.  An accrual is open until the dividend is paid.
Start(r) ==
    LET last == day - Delay
        listed == {t \in Trade : Happened(t) /\ DayOf(t) <= last} IN
    /\ rpc[r] = "idle"
    /\ trades' = [trades EXCEPT ![r] = listed]
    /\ items' = [items EXCEPT ![r] =
         {"fee"} \X listed
         \cup {i \in {<<"accrual", None>>} : ExDay <= last /\ last < PayDay}
         \cup {i \in {<<"payment", None>>} : PayDay <= last}]
    /\ Goto(r, "fetch")
    /\ KeepOutside /\ UNCHANGED <<dbVars, contexts, holding, actions, current>>

\* The context of a group's entry, pending or filled: it counts from the day of its
\* execution, or from the day it was transmitted.
EntryContext(g) ==
    [group |-> g, action |-> EntryAction(g), qty |-> Qty[g],
     dates |-> {IF entered[g] > 0 THEN entered[g] ELSE sent[g]},
     until |-> settledAt[g], settled |-> Settled(g),
     cut |-> g \in CutShort /\ entered[g] > 0, ids |-> Ids(g, {"ENTRY"})]

\* The context of its exits, which have an execution or are settled: the rows of a
\* settled group that have none count from the day they were transmitted.  Without an
\* ENTRY row it counts as not cut.
ExitContext(g) ==
    [group |-> g, action |-> Opposite(EntryAction(g)), qty |-> Qty[g],
     dates |-> {DayOf(i[2]) : i \in Ids(g, ExitRoles)}
               \cup (IF Settled(g) /\ Ids(g, {"SL"}) = {} THEN {sent[g]} ELSE {})
               \cup (IF Settled(g) /\ exitRow[g] > 0 /\ Ids(g, {"EXIT"}) = {}
                     THEN {exitRow[g]} ELSE {}),
     until |-> settledAt[g], settled |-> Settled(g), cut |-> FALSE,
     ids |-> Ids(g, ExitRoles)]

\* fetch_historical_trades: entries that are pending are listed too.
Fetch(r) ==
    /\ rpc[r] = "fetch"
    /\ contexts' = [contexts EXCEPT ![r] =
         {EntryContext(g) : g \in {h \in Group : sent[h] > 0}}
         \cup {ExitContext(g) : g \in {h \in Group : HasExit(h)}}]
    /\ early' = early \cup {g \in Group : sent[g] > 0 /\ entered[g] = 0}
    /\ Goto(r, "ledger")
    /\ UNCHANGED <<brokerVars, settling, aborts, dbVars, trades, items, holding, actions,
                   current>>

\* One transaction: INSERT ... ON CONFLICT DO NOTHING.
BookLedger(r) ==
    /\ rpc[r] = "ledger"
    /\ ledger' = [i \in Item |->
         IF i \in items[r] /\ ledger[i] = <<>> THEN <<Allocation(i, contexts[r])>> ELSE ledger[i]]
    /\ items' = [items EXCEPT ![r] = {}]
    /\ Goto(r, IF trades[r] = {} THEN "book" ELSE "positions")
    /\ KeepOutside
    /\ UNCHANGED <<child, exitRow, executions, settledAt, trades, contexts, holding, actions, current>>

\* reconcile_trades asks for the positions (broker-holding guard) ...
Positions(r) ==
    /\ rpc[r] = "positions"
    /\ \E seen \in {HeldGroups} \cup {S \in {{}} : "blind" \in Faults} :
         holding' = [holding EXCEPT ![r] = Position[seen] > 0]
    /\ Goto(r, "match")
    /\ KeepOutside /\ UNCHANGED <<dbVars, trades, items, contexts, actions, current>>

\* Mutant: the positions are not looked at.
MatchUnguarded(r) ==
    /\ rpc[r] = "match"
    /\ actions' = [actions EXCEPT ![r] =
         {a \in trades[r] \X Group : a[2] \in MissingExit(a[1], contexts[r])}]
    /\ trades' = [trades EXCEPT ![r] = {}]
    /\ contexts' = [contexts EXCEPT ![r] = {}]
    /\ holding' = [holding EXCEPT ![r] = FALSE]
    /\ Goto(r, "book")
    /\ KeepOutside /\ UNCHANGED <<dbVars, items, current>>

\* ... reads the execution ids and matches all trades before it books any.
Match(r) ==
    /\ rpc[r] = "match"
    /\ actions' = [actions EXCEPT ![r] =
         IF holding[r] THEN {}
         ELSE {a \in trades[r] \X Group : a[2] \in MissingExit(a[1], contexts[r])}]
    /\ trades' = [trades EXCEPT ![r] = {}]
    /\ contexts' = [contexts EXCEPT ![r] = {}]
    /\ holding' = [holding EXCEPT ![r] = FALSE]
    /\ Goto(r, "book")
    /\ KeepOutside /\ UNCHANGED <<dbVars, items, current>>

\* A missing exit: one transaction cancels the open exits, finds or inserts the
\* EXIT row and inserts the execution, if its id is new ...
Book(r) ==
    /\ rpc[r] = "book"
    /\ \E a \in actions[r] :
        LET id == <<IdKind, a[1]>>
            g  == a[2] IN
        /\ actions' = [actions EXCEPT ![r] = @ \ {a}]
        /\ child' = [child EXCEPT ![g] = IF @ = "open" THEN "Cancelled" ELSE @]
        /\ exitRow' = [exitRow EXCEPT ![g] = IF @ = 0 THEN day ELSE @]
        /\ executions' = [executions EXCEPT ![id] = IF @ = None THEN Booked(g, "EXIT") ELSE @]
        /\ current' = [current EXCEPT ![r] = g]
    /\ Goto(r, "settle")
    /\ KeepOutside /\ UNCHANGED <<settledAt, ledger, trades, items, contexts, holding>>

\* ... and the group is settled.
SettleBooked(r) ==
    /\ rpc[r] = "settle"
    /\ Settlement(current[r])
    /\ current' = [current EXCEPT ![r] = None]
    /\ Goto(r, "book")
    /\ KeepOutside
    /\ UNCHANGED <<child, exitRow, executions, ledger, trades, items, contexts, holding, actions>>

\* Mutant: the actions outlive their synchronisation.
ResetKeeping(r) ==
    /\ Goto(r, "idle")
    /\ trades' = [trades EXCEPT ![r] = {}] /\ items' = [items EXCEPT ![r] = {}]
    /\ contexts' = [contexts EXCEPT ![r] = {}] /\ holding' = [holding EXCEPT ![r] = FALSE]
    /\ current' = [current EXCEPT ![r] = None] /\ UNCHANGED actions

\* The locals of a synchronisation are gone.
Reset(r) ==
    /\ Goto(r, "idle")
    /\ trades' = [trades EXCEPT ![r] = {}] /\ items' = [items EXCEPT ![r] = {}]
    /\ contexts' = [contexts EXCEPT ![r] = {}] /\ holding' = [holding EXCEPT ![r] = FALSE]
    /\ actions' = [actions EXCEPT ![r] = {}] /\ current' = [current EXCEPT ![r] = None]

Finish(r) ==
    /\ rpc[r] = "book" /\ actions[r] = {}
    /\ Reset(r)
    /\ KeepOutside /\ UNCHANGED dbVars

\* A synchronisation ends early: an exception, or the process dies.
Abort(r) ==
    /\ rpc[r] # "idle" /\ aborts < MaxAborts /\ aborts' = aborts + 1
    /\ IF rpc[r] = "settle" THEN "halfway" \in Faults ELSE "abort" \in Faults
    /\ Reset(r)
    /\ UNCHANGED <<brokerVars, settling, dbVars, early>>

Sync(r) == Start(r) \/ Fetch(r) \/ BookLedger(r) \/ Positions(r) \/ Match(r)
           \/ Book(r) \/ SettleBooked(r) \/ Finish(r)

Next ==
    \/ NextDay
    \/ \E g \in Group : Send(g) \/ Enter(g) \/ Exit(g) \/ MissedExit(g) \/ Recover(g) \/ SettleFill(g)
    \/ \E r \in Run : Sync(r) \/ Abort(r)

Spec == Init /\ [][Next]_vars

\* Time passes, synchronisations and settlements are scheduled fairly, and one that
\* starts late enough gets a statement of all trades; the broker is not fair.
FairSpec ==
    /\ Spec /\ WF_vars(NextDay)
    /\ \A r \in Run : WF_vars(Sync(r))
    /\ \A g \in Group : WF_vars(SettleFill(g))

----------------------------------------------------------------------------
(* Properties.                                                             *)

\* A group of the same size was sent too.
Alike(g) == \E h \in Group \ {g} : Qty[h] = Qty[g] /\ sent[h] > 0

Untouched(g) == child[g] = "open" /\ exitRow[g] = 0 /\ ~HasExit(g) /\ ~Settled(g)

\* matcher.py: an automatic exit is forbidden while the position is held.
HeldUntouched == \A g \in Group : Held(g) => Untouched(g)

\* No group that the broker still holds is given an exit, has its exits cancelled or
\* is settled, whatever is entered and closed between the reads of a synchronisation.
\* The exception is a group that shares its size and was read while its entry was
\* pending, when the guard could see nothing: see FindPending.
HeldNotClosed ==
    \A g \in Group : Held(g) /\ ~(g \in early /\ Alike(g)) => Untouched(g)

\* Only an exit trade is booked as an exit, and only that of another group of its size
\* on a group that it did not close (match_flex_trades, "Mengenkonsistenz"), whatever
\* was sent, closed, recovered and settled since the synchronisation read its contexts.
LegOf(role) == IF role = "ENTRY" THEN "ENTRY" ELSE "EXIT"
ExitsFit ==
    \A i \in Id : executions[i] # None =>
        /\ i[2].leg = LegOf(executions[i].role)
        /\ executions[i].group = i[2].group \/ Alike(executions[i].group)

\* A position that was closed without the program is settled, unless another one of
\* the symbol keeps the guard shut.  The trade of a group that shares its size with
\* another may be booked on that one: see FindTwins.
MissedExitSettled ==
    \A g \in Group \ CutShort :
        entered[g] > 0 /\ ~Held(g) ~> Settled(g) \/ HeldGroups # {} \/ Alike(g)

\* An exit is booked on the group that it closed (matcher.py: a trade must not be
\* assigned blindly to another position).
ExitsAreOwn ==
    \A i \in Id : executions[i] # None => executions[i].group = i[2].group

\* A dividend is counted once in the all-in result of a group.
DividendOnce ==
    \A g \in Group : ~(ledger[<<"accrual", None>>] = <<g>> /\ ledger[<<"payment", None>>] = <<g>>)

\* The charges of a settled group's trades are booked on it.
ChargesReachGroup ==
    \A t \in Trade : Settled(t.group) /\ ledger[<<"fee", t>>] # <<>>
        => ledger[<<"fee", t>>] = <<t.group>>
=============================================================================
