---------------------------- MODULE FlexSyncProof ----------------------------
(* What holds of the Flex synchronisation for any groups, any number of       *)
(* synchronisations at once, statements of either kind and any faults.        *)
EXTENDS FlexSync, TLAPS

----------------------------------------------------------------------------
(* The inductive invariant.                                                   *)

Started(g) == entered[g] > 0
Over(g)    == entered[g] > 0 /\ closed[g] > 0

\* What the broker does is in order, and the entry of a group is known by TWS's id.
OrderInv ==
    \A g \in Group :
        /\ closed[g] > 0 => Started(g)
        /\ Started(g) => /\ sent[g] > 0
                         /\ executions[<<"exec", LegTrade(g, "ENTRY")>>] # None

\* The groups that share their size with one that was sent.
Twins == {g \in Group : Alike(g)}

\* An execution with id i may be booked on row e: it is of the same group or one of S,
\* and if the statement's ids are those of TWS, it is of the same leg.
Fits(i, e, S) ==
    /\ IdKind = "exec" => i[2].leg = LegOf(e.role)
    /\ e.group = i[2].group \/ e.group \in S

BookedInv == \A i \in Id : executions[i] # None => Fits(i, executions[i], Twins)

\* A synchronisation knows only trades that have happened and contexts of the size of
\* their groups, and books only what fits.
FitRun(r) ==
    /\ \A t \in trades[r] : Started(t.group)
    /\ \A c \in contexts[r] : c.group \in Group /\ c.qty = Qty[c.group]
    /\ \A a \in actions[r] :
         /\ IdKind = "exec" => a[1].leg = "EXIT"
         /\ a[2] = a[1].group \/ a[2] \in Twins

FitInv == TypeOK /\ OrderInv /\ BookedInv /\ \A r \in Run : FitRun(r)

\* A group may be closed in the books once it is over, and also if it shares its size
\* and its entry was read while it was pending.
Free(g) == Over(g) \/ (g \in early /\ Alike(g))

\* A group that is not free is untouched.
GroupsInv ==
    \A g \in Group : ~Free(g) =>
        /\ child[g] = (IF sent[g] > 0 THEN "open" ELSE "none")
        /\ exitRow[g] = 0 /\ ~HasExit(g) /\ ~Settled(g) /\ g \notin settling

\* Group g was pending when a synchronisation read its context: the statement, which
\* is older, has no trade of it.
Pending(r, g) == g \in early /\ \A t \in trades[r] : t.group # g

\* Contexts are of groups that are entered or were pending; once the guard has found no
\* position, of groups that are over or were pending; actions are for free groups.
HeldRun(r) ==
    /\ rpc[r] = "idle" => contexts[r] = {}
    /\ \A c \in contexts[r] : Started(c.group) \/ Pending(r, c.group)
    /\ rpc[r] = "match" /\ ~holding[r] =>
         \A c \in contexts[r] : Over(c.group) \/ Pending(r, c.group)
    /\ \A a \in actions[r] : Free(a[2])
    /\ current[r] # None => Free(current[r])

Inv == FitInv /\ GroupsInv /\ \A r \in Run : HeldRun(r)

\* A trade closes no group but that of a context of its size, and only if its id is new.
LEMMA ExitOfContext ==
    ASSUME NEW t, NEW C, NEW g \in MissingExit(t, C)
    PROVE  executions[<<IdKind, t>>] = None /\ \E c \in C : g = c.group /\ c.qty = Qty[t.group]
BY DEF MissingExit, Matched, First, Fitting

LEMMA AllocationType ==
    ASSUME NEW i, NEW C, \A c \in C : c.group \in Group
    PROVE  Allocation(i, C) \in Group \cup {None}
<1> DEFINE known == First({c \in C : i[1] = "fee" /\ <<IdKind, i[2]>> \in c.ids})
           held  == IF i[1] = "fee" THEN Holder(DayOf(i[2]), Action(i[2]), C)
                    ELSE IF i[1] = "accrual" THEN Holder(ExDay, "BUY", C)
                    ELSE Holder(PayDay, "BUY", C)
           found == IF known # {} THEN known ELSE held
<1>1. \A S \in SUBSET C : First(S) \subseteq C
  BY DEF First
<1>2. \A d, a : Holder(d, a, C) \subseteq C
  BY <1>1 DEF Holder
<1>3. found \subseteq C
  BY <1>1, <1>2
<1>4. Allocation(i, C) = IF found = {} THEN None ELSE (CHOOSE c \in found : TRUE).group
  BY DEF Allocation
<1> HIDE DEF found
<1>5. CASE found = {}
  BY <1>4, <1>5
<1>6. CASE found # {}
  <2>1. PICK c \in found : TRUE
    BY <1>6
  <2>2. (CHOOSE x \in found : TRUE) \in found
    BY <2>1
  <2> QED  BY <1>3, <1>4, <1>6, <2>2
<1> QED  BY <1>5, <1>6

----------------------------------------------------------------------------
(* Types.                                                                     *)

LEMMA InitTypes == Init => TypeOK
BY FlexAssumption DEF Init, TypeOK, Day

\* An execution of a leg has an id and is booked on a row of its group.
LEMMA LegTypes ==
    ASSUME NEW g \in Group, NEW l \in {"ENTRY", "EXIT"}, NEW role \in {"ENTRY", "SL", "EXIT"}
    PROVE  <<"exec", LegTrade(g, l)>> \in Id /\ Booked(g, role) \in Booking
BY DEF LegTrade, Booked, Id, Trade, Booking

\* The steps that are not of a synchronisation.
Outside(g) == Send(g) \/ Enter(g) \/ Exit(g) \/ MissedExit(g) \/ Recover(g) \/ SettleFill(g)

\* The outside steps leave the synchronisations alone.
LEMMA OutsideTypes ==
    ASSUME TypeOK, NextDay \/ \E g \in Group : Outside(g)
    PROVE  TypeOK'
<1> DEFINE Days  == [Group -> Day]
           Kinds == [Group -> {"none", "open", "Filled", "Cancelled"}]
           Execs == [Id -> Booking \cup {None}]
<1>1. /\ day \in 1..MaxDay /\ sent \in Days /\ entered \in Days /\ closed \in Days
      /\ child \in Kinds /\ executions \in Execs /\ settledAt \in Days /\ settling \subseteq Group
  BY DEF TypeOK
<1>2. TradingDay => day + 1 \in 1..MaxDay
  BY <1>1, FlexAssumption DEF TradingDay
<1>3. day \in Day
  BY <1>1 DEF Day
<1>4. UNCHANGED <<exitRow, ledger, runVars, aborts, early>>
  BY DEF NextDay, Outside, Send, Enter, Exit, MissedExit, Recover, SettleFill, dbVars
<1>5. SUFFICES /\ day' \in 1..MaxDay /\ sent' \in Days /\ entered' \in Days /\ closed' \in Days
               /\ child' \in Kinds /\ executions' \in Execs /\ settledAt' \in Days
               /\ settling' \subseteq Group
  BY <1>4 DEF TypeOK, runVars, Day
<1>6. CASE NextDay
  BY <1>1, <1>2, <1>6 DEF NextDay, dbVars
<1>7. ASSUME NEW g \in Group, Send(g)  PROVE sent' \in Days /\ child' \in Kinds
  BY <1>1, <1>3, <1>7 DEF Send
<1>8. ASSUME NEW g \in Group, Enter(g)  PROVE entered' \in Days
  BY <1>1, <1>3, <1>8 DEF Enter
<1>9. ASSUME NEW g \in Group, Exit(g) \/ MissedExit(g)  PROVE closed' \in Days
  BY <1>1, <1>3, <1>9 DEF Exit, MissedExit
<1>10. ASSUME NEW g \in Group, Exit(g) \/ Recover(g)
       PROVE  child' \in Kinds /\ settling' \subseteq Group
  BY <1>1, <1>10 DEF Exit, Recover
<1>11. ASSUME NEW i \in Id, NEW e \in Booking
       PROVE  /\ [executions EXCEPT ![i] = e] \in Execs
              /\ [executions EXCEPT ![i] = IF @ = None THEN e ELSE @] \in Execs
  BY <1>1
<1>12. ASSUME NEW g \in Group, Enter(g) \/ Exit(g) \/ Recover(g)
       PROVE  executions' \in Execs
  <2>1. PICK l \in {"ENTRY", "EXIT"}, role \in {"ENTRY", "SL", "EXIT"} :
          \/ executions' = [executions EXCEPT ![<<"exec", LegTrade(g, l)>>] = Booked(g, role)]
          \/ executions' = [executions EXCEPT ![<<"exec", LegTrade(g, l)>>] =
                              IF @ = None THEN Booked(g, role) ELSE @]
    BY <1>12, Zenon DEF Enter, Exit, Recover
  <2> DEFINE id == <<"exec", LegTrade(g, l)>>
             e  == Booked(g, role)
  <2>2. id \in Id /\ e \in Booking
    BY <1>12, LegTypes
  <2>3. \/ executions' = [executions EXCEPT ![id] = e]
        \/ executions' = [executions EXCEPT ![id] = IF @ = None THEN e ELSE @]
    BY <2>1
  <2> HIDE DEF id, e, Execs
  <2> QED  BY <1>11, <2>2, <2>3
<1>13. ASSUME NEW g \in Group, SettleFill(g)
       PROVE  settledAt' \in Days /\ settling' \subseteq Group
  BY <1>1, <1>3, <1>13 DEF SettleFill, Settlement
<1> HIDE DEF Days, Kinds, Execs
<1>14. ASSUME NEW g \in Group, Outside(g)
       PROVE  /\ day' = day /\ (Send(g) \/ UNCHANGED sent) /\ (Enter(g) \/ UNCHANGED entered)
              /\ (Exit(g) \/ MissedExit(g) \/ UNCHANGED closed)
              /\ (Send(g) \/ Exit(g) \/ Recover(g) \/ UNCHANGED child)
              /\ (Enter(g) \/ Exit(g) \/ Recover(g) \/ UNCHANGED executions)
              /\ (Exit(g) \/ Recover(g) \/ SettleFill(g) \/ UNCHANGED settling)
              /\ (SettleFill(g) \/ UNCHANGED settledAt)
  BY <1>14 DEF Outside, Send, Enter, Exit, MissedExit, Recover, SettleFill, brokerVars, dbVars
<1> QED  BY <1>1, <1>6, <1>7, <1>8, <1>9, <1>10, <1>12, <1>13, <1>14

LEMMA StartTypes ==
    ASSUME TypeOK, NEW r \in Run, Start(r)  PROVE TypeOK'
<1> DEFINE last == day - Delay
           listed == {t \in Trade : Happened(t) /\ DayOf(t) <= last}
           cash   == {"fee"} \X listed
                     \cup {i \in {<<"accrual", None>>} : ExDay <= last /\ last < PayDay}
                     \cup {i \in {<<"payment", None>>} : PayDay <= last}
<1>1. listed \subseteq Trade /\ cash \subseteq Item
  BY DEF Item
<1>2. /\ rpc[r] = "idle" /\ rpc' = [rpc EXCEPT ![r] = "fetch"]
      /\ trades' = [trades EXCEPT ![r] = listed] /\ items' = [items EXCEPT ![r] = cash]
      /\ UNCHANGED <<brokerVars, settling, aborts, early, dbVars, contexts, holding, actions,
                     current>>
  BY DEF Start, Goto, KeepOutside
<1> HIDE DEF listed, cash
<1> QED  BY <1>1, <1>2 DEF TypeOK, brokerVars, dbVars

LEMMA FetchTypes ==
    ASSUME TypeOK, NEW r \in Run, Fetch(r)  PROVE TypeOK'
<1>1. ASSUME NEW g \in Group
      PROVE  EntryContext(g) \in Context /\ ExitContext(g) \in Context
  <2>1. EntryAction(g) \in {"BUY", "SELL"} /\ Opposite(EntryAction(g)) \in {"BUY", "SELL"}
    BY DEF EntryAction, Opposite
  <2>2. /\ sent[g] \in Nat /\ entered[g] \in Nat /\ exitRow[g] \in Nat /\ settledAt[g] \in Nat
        /\ Qty[g] \in Nat /\ Settled(g) \in BOOLEAN
    BY FlexAssumption DEF TypeOK, Day, Settled
  <2>3. \A roles : Ids(g, roles) \subseteq Id
    BY DEF Ids
  <2>4. \A t \in Trade : DayOf(t) \in Nat
    <3>1. \A h \in Group : entered[h] \in Nat /\ closed[h] \in Nat
      BY FlexAssumption DEF TypeOK, Day
    <3> QED  BY <3>1 DEF DayOf, Trade
  <2>5. \A i \in Id : DayOf(i[2]) \in Nat
    BY <2>4 DEF Id
  <2>6. EntryContext(g) \in Context
    BY <2>1, <2>2, <2>3 DEF EntryContext, Context
  <2>7. ExitContext(g) \in Context
    <3> DEFINE ids   == Ids(g, ExitRoles)
               dates == {DayOf(i[2]) : i \in ids}
                        \cup (IF Settled(g) /\ Ids(g, {"SL"}) = {} THEN {sent[g]} ELSE {})
                        \cup (IF Settled(g) /\ exitRow[g] > 0 /\ Ids(g, {"EXIT"}) = {}
                              THEN {exitRow[g]} ELSE {})
    <3>1. ids \subseteq Id
      BY <2>3
    <3>2. dates \subseteq Nat
      BY <2>2, <2>5, <3>1
    <3>3. ExitContext(g) = [group |-> g, action |-> Opposite(EntryAction(g)), qty |-> Qty[g],
             dates |-> dates, until |-> settledAt[g], settled |-> Settled(g), cut |-> FALSE,
             ids |-> ids]
      BY DEF ExitContext
    <3> HIDE DEF dates, ids
    <3> QED  BY <2>1, <2>2, <3>1, <3>2, <3>3 DEF Context
  <2> QED  BY <2>6, <2>7
<1> DEFINE all == {EntryContext(g) : g \in {h \in Group : sent[h] > 0}}
                  \cup {ExitContext(g) : g \in {h \in Group : HasExit(h)}}
           new == early \cup {g \in Group : sent[g] > 0 /\ entered[g] = 0}
<1>2. all \subseteq Context
  BY <1>1
<1>3. new \subseteq Group
  BY DEF TypeOK
<1>4. /\ rpc[r] = "fetch" /\ rpc' = [rpc EXCEPT ![r] = "ledger"]
      /\ contexts' = [contexts EXCEPT ![r] = all] /\ early' = new
      /\ UNCHANGED <<brokerVars, settling, aborts, dbVars, trades, items, holding, actions, current>>
  BY DEF Fetch, Goto
<1> HIDE DEF all, new
<1> QED  BY <1>2, <1>3, <1>4 DEF TypeOK, brokerVars, dbVars

LEMMA BookLedgerTypes ==
    ASSUME TypeOK, NEW r \in Run, BookLedger(r)  PROVE TypeOK'
<1>1. \A c \in contexts[r] : c.group \in Group
  BY DEF TypeOK, Context
<1>2. \A i \in Item : Allocation(i, contexts[r]) \in Group \cup {None}
  BY <1>1, AllocationType
<1>3. ledger' \in [Item -> Seq(Group \cup {None})]
  <2>1. \A i \in Item : <<Allocation(i, contexts[r])>> \in Seq(Group \cup {None})
    BY <1>2
  <2> QED  BY <2>1 DEF BookLedger, TypeOK
<1>4. rpc[r] = "ledger" /\ \E p \in {"book", "positions"} : rpc' = [rpc EXCEPT ![r] = p]
  BY DEF BookLedger, Goto
<1>5. /\ items' = [items EXCEPT ![r] = {}]
      /\ UNCHANGED <<brokerVars, settling, aborts, early, child, exitRow, executions, settledAt,
                     trades, contexts, holding, actions, current>>
  BY DEF BookLedger, KeepOutside
<1> QED  BY <1>3, <1>4, <1>5 DEF TypeOK, brokerVars

LEMMA ReadTypes ==
    ASSUME TypeOK, NEW r \in Run, Positions(r) \/ Match(r)  PROVE TypeOK'
<1>1. CASE Positions(r)
  <2>1. PICK seen : holding' = [holding EXCEPT ![r] = Position[seen] > 0]
    BY <1>1 DEF Positions
  <2> QED  BY <1>1, <2>1 DEF Positions, Goto, KeepOutside, TypeOK, brokerVars, dbVars
<1>2. CASE Match(r)
  <2>1. PICK S \in SUBSET (Trade \X Group) : actions' = [actions EXCEPT ![r] = S]
    <3>1. trades[r] \X Group \subseteq Trade \X Group
      BY DEF TypeOK
    <3>2. {a \in trades[r] \X Group : a[2] \in MissingExit(a[1], contexts[r])}
            \in SUBSET (Trade \X Group)
      BY <3>1
    <3> QED  BY <1>2, <3>2 DEF Match
  <2> QED  BY <1>2, <2>1 DEF Match, Goto, KeepOutside, TypeOK, brokerVars, dbVars
<1> QED  BY <1>1, <1>2

\* The step that books trade t as the exit of group g.
BookFor(r, t, g) ==
    /\ <<t, g>> \in actions[r]
    /\ actions' = [actions EXCEPT ![r] = @ \ {<<t, g>>}]
    /\ child' = [child EXCEPT ![g] = IF @ = "open" THEN "Cancelled" ELSE @]
    /\ exitRow' = [exitRow EXCEPT ![g] = IF @ = 0 THEN day ELSE @]
    /\ executions' = [executions EXCEPT ![<<IdKind, t>>] =
                        IF @ = None THEN Booked(g, "EXIT") ELSE @]
    /\ current' = [current EXCEPT ![r] = g]
    /\ rpc[r] = "book" /\ rpc' = [rpc EXCEPT ![r] = "settle"]
    /\ UNCHANGED <<brokerVars, settling, aborts, early, settledAt, ledger, trades, items,
                   contexts, holding>>

LEMMA BookStep ==
    ASSUME TypeOK, NEW r \in Run, Book(r)
    PROVE  \E t \in Trade, g \in Group : BookFor(r, t, g)
<1>1. PICK a \in actions[r] :
        /\ actions' = [actions EXCEPT ![r] = @ \ {a}]
        /\ child' = [child EXCEPT ![a[2]] = IF @ = "open" THEN "Cancelled" ELSE @]
        /\ exitRow' = [exitRow EXCEPT ![a[2]] = IF @ = 0 THEN day ELSE @]
        /\ executions' = [executions EXCEPT ![<<IdKind, a[1]>>] =
                            IF @ = None THEN Booked(a[2], "EXIT") ELSE @]
        /\ current' = [current EXCEPT ![r] = a[2]]
  BY DEF Book
<1>2. a \in Trade \X Group
  BY DEF TypeOK
<1>3. PICK t \in Trade, g \in Group : a = <<t, g>>
  BY <1>2
<1>4. a[1] = t /\ a[2] = g
  BY <1>3
<1>5. BookFor(r, t, g)
  BY <1>1, <1>3, <1>4 DEF Book, BookFor, Goto, KeepOutside
<1> QED  BY <1>5

LEMMA BookTypes ==
    ASSUME TypeOK, NEW r \in Run, Book(r)  PROVE TypeOK'
<1>1. PICK t \in Trade, g \in Group : BookFor(r, t, g)
  BY BookStep
<1>2. Booked(g, "EXIT") \in Booking /\ <<IdKind, t>> \in Id /\ g # None /\ day \in Day
  BY FlexAssumption DEF Booked, Booking, Id, TypeOK, Day
<1> QED  BY <1>1, <1>2 DEF BookFor, TypeOK, brokerVars

LEMMA EndTypes ==
    ASSUME TypeOK, NEW r \in Run, SettleBooked(r) \/ Finish(r) \/ Abort(r)  PROVE TypeOK'
<1>1. CASE SettleBooked(r)
  <2>1. settledAt' \in [Group -> Day]
    BY <1>1 DEF SettleBooked, Settlement, TypeOK, Day
  <2> QED  BY <1>1, <2>1 DEF SettleBooked, Goto, KeepOutside, TypeOK, brokerVars
<1>2. CASE Finish(r)
  BY <1>2 DEF Finish, Reset, Goto, KeepOutside, TypeOK, brokerVars, dbVars
<1>3. CASE Abort(r)
  BY <1>3, FlexAssumption DEF Abort, Reset, Goto, TypeOK, brokerVars, dbVars
<1> QED  BY <1>1, <1>2, <1>3

LEMMA NextTypes == TypeOK /\ [Next]_vars => TypeOK'
<1> SUFFICES ASSUME TypeOK, [Next]_vars  PROVE TypeOK'
  OBVIOUS
<1>1. CASE UNCHANGED vars
  BY <1>1 DEF TypeOK, vars, brokerVars, dbVars, runVars
<1>2. CASE NextDay \/ \E g \in Group : Outside(g)
  BY <1>2, OutsideTypes
<1>3. ASSUME NEW r \in Run, Sync(r) \/ Abort(r)  PROVE TypeOK'
  BY <1>3, StartTypes, FetchTypes, BookLedgerTypes, ReadTypes, BookTypes, EndTypes DEF Sync
<1> QED  BY <1>1, <1>2, <1>3 DEF Next, Outside

\* The tables and all synchronisations keep their types under any faults.
THEOREM FlexTypes == Spec => []TypeOK
<1>1. TypeOK /\ [Next]_vars => TypeOK'
  BY NextTypes
<1> QED  BY InitTypes, <1>1, PTL DEF Spec

----------------------------------------------------------------------------
(* Only what fits is booked as an exit.                                       *)

\* A row of executions is booked on a row of group g, anew or if its id is new.
Put(i, g, role) ==
    \/ executions' = [executions EXCEPT ![i] = Booked(g, role)]
    \/ executions' = [executions EXCEPT ![i] = IF @ = None THEN Booked(g, role) ELSE @]

LEMMA PutOne ==
    ASSUME TypeOK, NEW i \in Id, NEW g \in Group, NEW role \in {"ENTRY", "SL", "EXIT"},
           Put(i, g, role)
    PROVE  /\ Booked(g, role) # None /\ executions'[i] # None
           /\ \A j \in Id : executions'[j] # executions[j] =>
                j = i /\ executions'[j] = Booked(g, role)
<1>1. Booked(g, role) \in Booking
  BY DEF Booked, Booking
<1>2. Booked(g, role) # None
  BY <1>1, FlexAssumption
<1>3. executions \in [Id -> Booking \cup {None}]
  BY DEF TypeOK
<1>4. ASSUME NEW e, e # None,
             \/ executions' = [executions EXCEPT ![i] = e]
             \/ executions' = [executions EXCEPT ![i] = IF @ = None THEN e ELSE @]
      PROVE  /\ executions'[i] # None
             /\ \A j \in Id : executions'[j] # executions[j] => j = i /\ executions'[j] = e
  BY <1>3, <1>4
<1> QED  BY <1>2, <1>4, Zenon DEF Put

\* Outside steps book only on the row the execution is of.
LEMMA OutsidePuts ==
    ASSUME NEW g \in Group, Outside(g)
    PROVE  \/ executions' = executions
           \/ \E l \in {"ENTRY", "EXIT"}, role \in {"ENTRY", "SL", "EXIT"} :
                Put(<<"exec", LegTrade(g, l)>>, g, role) /\ l = LegOf(role)
<1>1. CASE Send(g) \/ MissedExit(g) \/ SettleFill(g)
  BY <1>1 DEF Send, MissedExit, SettleFill, dbVars
<1>2. CASE Enter(g)
  <2>1. Put(<<"exec", LegTrade(g, "ENTRY")>>, g, "ENTRY") /\ "ENTRY" = LegOf("ENTRY")
    BY <1>2, Zenon DEF Enter, Put, LegOf
  <2> QED  BY <2>1
<1>3. CASE Exit(g) \/ Recover(g)
  <2>1. Put(<<"exec", LegTrade(g, "EXIT")>>, g, "SL")
    BY <1>3, Zenon DEF Exit, Recover, Put
  <2>2. "EXIT" = LegOf("SL")
    BY DEF LegOf
  <2> QED  BY <2>1, <2>2
<1> QED  BY <1>1, <1>2, <1>3 DEF Outside

LEMMA SyncPuts ==
    ASSUME TypeOK, NEW r \in Run, Sync(r) \/ Abort(r)
    PROVE  \/ executions' = executions /\ ~Book(r)
           \/ \E t \in Trade, g \in Group :
                BookFor(r, t, g) /\ <<IdKind, t>> \in Id /\ Put(<<IdKind, t>>, g, "EXIT")
<1>1. CASE Book(r)
  <2>1. PICK t \in Trade, g \in Group : BookFor(r, t, g)
    BY <1>1, BookStep
  <2>2. <<IdKind, t>> \in Id
    BY DEF Id
  <2>3. Put(<<IdKind, t>>, g, "EXIT")
    BY <2>1, Zenon DEF BookFor, Put
  <2> QED  BY <2>1, <2>2, <2>3
<1>2. CASE ~Book(r)
  BY <1>2 DEF Sync, Abort, Start, Fetch, BookLedger, Positions, Match, SettleBooked,
              Finish, dbVars
<1> QED  BY <1>1, <1>2

\* No execution is lost.
LEMMA ExecutionsKept ==
    ASSUME TypeOK, [Next]_vars
    PROVE  \A i \in Id : executions[i] # None => executions'[i] # None
<1> DEFINE Keep == \A i \in Id : executions[i] # None => executions'[i] # None
<1>1. ASSUME NEW i \in Id, NEW h \in Group, NEW role \in {"ENTRY", "SL", "EXIT"}, Put(i, h, role)
      PROVE  Keep
  <2>1. /\ executions'[i] # None
        /\ \A j \in Id : executions'[j] # executions[j] => j = i
    BY <1>1, PutOne
  <2> QED  BY <2>1, Zenon
<1>2. ASSUME NEW h \in Group, Outside(h)  PROVE Keep
  <2>1. CASE executions' = executions
    BY <2>1
  <2>2. CASE executions' # executions
    <3>1. PICK l \in {"ENTRY", "EXIT"}, role \in {"ENTRY", "SL", "EXIT"} :
            Put(<<"exec", LegTrade(h, l)>>, h, role)
      BY <1>2, <2>2, OutsidePuts, Zenon
    <3>2. <<"exec", LegTrade(h, l)>> \in Id
      BY LegTypes
    <3> QED  BY <1>1, <3>1, <3>2, Zenon
  <2> QED  BY <2>1, <2>2
<1>3. ASSUME NEW r \in Run, Sync(r) \/ Abort(r)  PROVE Keep
  <2>1. CASE executions' = executions
    BY <2>1
  <2>2. CASE executions' # executions
    <3>1. PICK t \in Trade, g \in Group : <<IdKind, t>> \in Id /\ Put(<<IdKind, t>>, g, "EXIT")
      BY <1>3, <2>2, SyncPuts, Zenon
    <3> QED  BY <1>1, <3>1
  <2> QED  BY <2>1, <2>2
<1>4. CASE NextDay \/ UNCHANGED vars
  <2>1. executions' = executions
    BY <1>4 DEF NextDay, vars, dbVars
  <2> QED  BY <2>1
<1> QED  BY <1>2, <1>3, <1>4 DEF Next, Outside

\* What has been sent, entered or closed stays so, and so do executions and the groups
\* that were read early.
LEMMA Growing ==
    ASSUME TypeOK, [Next]_vars
    PROVE  /\ \A g \in Group : sent[g] > 0 => sent'[g] > 0
           /\ \A g \in Group : Started(g) => Started(g)' /\ entered'[g] = entered[g]
           /\ \A g \in Group : closed[g] > 0 => closed'[g] > 0
           /\ \A i \in Id : executions[i] # None => executions'[i] # None
           /\ early \subseteq early'
<1> DEFINE Grow == /\ \A g \in Group : sent[g] > 0 => sent'[g] > 0
                   /\ \A g \in Group : Started(g) => Started(g)' /\ entered'[g] = entered[g]
                   /\ \A g \in Group : closed[g] > 0 => closed'[g] > 0
<1> USE DEF Started
<1>1. /\ sent \in [Group -> Nat] /\ entered \in [Group -> Nat] /\ closed \in [Group -> Nat]
      /\ day > 0
  BY FlexAssumption DEF TypeOK, Day
<1>2. ASSUME NextDay \/ UNCHANGED vars  PROVE Grow /\ early' = early
  BY <1>2 DEF NextDay, vars, brokerVars
<1>3. ASSUME NEW h \in Group, Outside(h)  PROVE Grow /\ early' = early
  <2>1. CASE Send(h)
    BY <1>1, <2>1 DEF Send
  <2>2. CASE Enter(h)
    BY <1>1, <2>2 DEF Enter
  <2>3. CASE Exit(h) \/ MissedExit(h)
    <3>1. /\ closed' = [closed EXCEPT ![h] = day] /\ closed[h] = 0
          /\ UNCHANGED <<sent, entered, early>>
      BY <2>3 DEF Exit, MissedExit, Held
    <3> QED  BY <1>1, <3>1
  <2>4. CASE Recover(h) \/ SettleFill(h)
    BY <2>4 DEF Recover, SettleFill, brokerVars
  <2> QED  BY <1>3, <2>1, <2>2, <2>3, <2>4 DEF Outside
<1>4. ASSUME NEW r \in Run, Sync(r) \/ Abort(r)  PROVE Grow /\ early \subseteq early'
  BY <1>4 DEF Sync, Abort, Start, Fetch, BookLedger, Positions, Match, Book, SettleBooked,
              Finish, KeepOutside, brokerVars
<1> QED  BY <1>2, <1>3, <1>4, ExecutionsKept DEF Next, Outside

LEMMA TwinsGrow ==
    ASSUME TypeOK, [Next]_vars  PROVE Twins \subseteq Twins'
BY Growing DEF Twins, Alike

LEMMA InitFit == Init => FitInv
BY InitTypes, FlexAssumption DEF Init, FitInv, OrderInv, BookedInv, FitRun, Started

LEMMA NextOrder ==
    ASSUME TypeOK, OrderInv, [Next]_vars
    PROVE  OrderInv'
<1> USE DEF OrderInv, Started
<1>1. ASSUME NEW g \in Group
      PROVE  /\ entered'[g] > 0 /\ ~(entered[g] > 0) => Enter(g)
             /\ closed'[g] > 0 /\ ~(closed[g] > 0) => Exit(g) \/ MissedExit(g)
  <2>1. CASE NextDay \/ UNCHANGED vars
    BY <2>1 DEF NextDay, vars, brokerVars
  <2>2. ASSUME NEW h \in Group, Outside(h)
        PROVE  /\ entered' # entered => Enter(h) /\ entered' = [entered EXCEPT ![h] = day]
               /\ closed' # closed => /\ Exit(h) \/ MissedExit(h)
                                      /\ closed' = [closed EXCEPT ![h] = day]
    BY <2>2 DEF Outside, Send, Enter, Exit, MissedExit, Recover, SettleFill, brokerVars
  <2>3. ASSUME NEW h \in Group, Outside(h)
        PROVE  /\ entered'[g] = entered[g] \/ Enter(g)
               /\ closed'[g] = closed[g] \/ Exit(g) \/ MissedExit(g)
    BY <2>2, <2>3 DEF TypeOK
  <2>4. ASSUME NEW r \in Run, Sync(r) \/ Abort(r)  PROVE UNCHANGED brokerVars
    BY <2>4 DEF Sync, Abort, Start, Fetch, BookLedger, Positions, Match, Book, SettleBooked,
                Finish, KeepOutside
  <2> QED  BY <2>1, <2>3, <2>4 DEF Next, Outside, brokerVars
<1>2. ASSUME NEW g \in Group, closed'[g] > 0  PROVE entered'[g] > 0
  <2>1. closed[g] > 0 \/ Exit(g) \/ MissedExit(g)
    BY <1>1, <1>2
  <2>2. entered[g] > 0
    BY <2>1 DEF Exit, MissedExit, Held
  <2> QED  BY <2>2, Growing
<1>3. ASSUME NEW g \in Group, entered'[g] > 0
      PROVE  sent'[g] > 0 /\ executions'[<<"exec", LegTrade(g, "ENTRY")>>] # None
  <2> DEFINE id == <<"exec", LegTrade(g, "ENTRY")>>
  <2>1. id \in Id
    BY LegTypes
  <2>2. CASE entered[g] > 0
    <3>1. sent[g] > 0 /\ executions[id] # None
      BY <2>2
    <3> HIDE DEF id
    <3>2. sent'[g] > 0 /\ executions'[id] # None
      BY <2>1, <3>1, Growing
    <3> QED  BY <3>2 DEF id
  <2>3. CASE Enter(g)
    <3>1. sent[g] > 0 /\ Put(id, g, "ENTRY")
      BY <2>3, Zenon DEF Enter, Put
    <3>2. executions'[id] # None
      BY <2>1, <3>1, PutOne
    <3> QED  BY <3>1, <3>2, Growing
  <2> QED  BY <1>1, <1>3, <2>2, <2>3
<1> QED  BY <1>2, <1>3

LEMMA NextBooked ==
    ASSUME FitInv, [Next]_vars
    PROVE  BookedInv'
<1> DEFINE Good == \A i \in Id : executions'[i] # None => Fits(i, executions'[i], Twins')
<1>1. Twins \subseteq Twins'
  BY TwinsGrow DEF FitInv
<1>2. \A i \in Id : executions[i] # None => Fits(i, executions[i], Twins')
  BY <1>1 DEF FitInv, BookedInv, Fits
<1>3. ASSUME NEW j \in Id, NEW g \in Group, NEW role \in {"ENTRY", "SL", "EXIT"}, Put(j, g, role),
             Fits(j, Booked(g, role), Twins')
      PROVE  Good
  <2>1. \A i \in Id : executions'[i] # executions[i] => i = j /\ executions'[i] = Booked(g, role)
    BY <1>3, PutOne DEF FitInv
  <2>2. ASSUME NEW i \in Id, executions'[i] # None  PROVE Fits(i, executions'[i], Twins')
    <3>1. CASE executions'[i] = executions[i]
      BY <1>2, <2>2, <3>1
    <3>2. CASE executions'[i] # executions[i]
      BY <1>3, <2>1, <3>2
    <3> QED  BY <3>1, <3>2
  <2> QED  BY <2>2
<1>4. ASSUME executions' = executions  PROVE Good
  BY <1>2, <1>4
<1>5. ASSUME NEW g \in Group, Outside(g)  PROVE Good
  <2>1. CASE executions' # executions
    <3>1. PICK l \in {"ENTRY", "EXIT"}, role \in {"ENTRY", "SL", "EXIT"} :
            Put(<<"exec", LegTrade(g, l)>>, g, role) /\ l = LegOf(role)
      BY <1>5, <2>1, OutsidePuts, Zenon
    <3>2. <<"exec", LegTrade(g, l)>> \in Id
      BY LegTypes
    <3>3. Fits(<<"exec", LegTrade(g, l)>>, Booked(g, role), Twins')
      BY <3>1 DEF LegTrade, Booked, Fits
    <3> QED  BY <1>3, <3>1, <3>2, <3>3
  <2> QED  BY <1>4, <2>1
<1>6. ASSUME NEW r \in Run, Sync(r) \/ Abort(r)  PROVE Good
  <2>1. CASE executions' # executions
    <3>1. PICK t \in Trade, g \in Group :
            BookFor(r, t, g) /\ <<IdKind, t>> \in Id /\ Put(<<IdKind, t>>, g, "EXIT")
      BY <1>6, <2>1, SyncPuts, Zenon DEF FitInv
    <3>2. <<t, g>> \in actions[r] /\ <<t, g>>[1] = t /\ <<t, g>>[2] = g
      BY <3>1 DEF BookFor
    <3>3. /\ IdKind = "exec" => t.leg = "EXIT"
          /\ g = t.group \/ g \in Twins
      BY <3>2 DEF FitInv, FitRun
    <3>4. Fits(<<IdKind, t>>, Booked(g, "EXIT"), Twins')
      BY <1>1, <3>3 DEF Fits, Booked, LegOf
    <3> QED  BY <1>3, <3>1, <3>4
  <2> QED  BY <1>4, <2>1
<1>7. CASE NextDay \/ UNCHANGED vars
  <2>1. executions' = executions
    BY <1>7 DEF NextDay, vars, dbVars
  <2> QED  BY <1>4, <2>1 DEF BookedInv
<1> QED  BY <1>5, <1>6, <1>7 DEF Next, Outside, BookedInv

\* A synchronisation changes no locals but its own.
LEMMA OtherRun ==
    ASSUME TypeOK, NEW r \in Run, NEW q \in Run \ {r}, Sync(q) \/ Abort(q)
    PROVE  /\ rpc'[r] = rpc[r] /\ trades'[r] = trades[r] /\ contexts'[r] = contexts[r]
           /\ holding'[r] = holding[r] /\ actions'[r] = actions[r] /\ current'[r] = current[r]
<1>1. CASE Start(q) \/ Fetch(q) \/ BookLedger(q) \/ Positions(q)
  BY <1>1 DEF Start, Fetch, BookLedger, Positions, Goto, TypeOK
<1>2. CASE Match(q) \/ SettleBooked(q)
  BY <1>2 DEF Match, SettleBooked, Goto, TypeOK
<1>3. CASE Book(q)
  BY <1>3 DEF Book, Goto, TypeOK
<1>4. CASE Finish(q) \/ Abort(q)
  BY <1>4 DEF Finish, Abort, Reset, Goto, TypeOK
<1> QED  BY <1>1, <1>2, <1>3, <1>4 DEF Sync

\* A synchronisation that learns nothing stays fit.
LEMMA FitKept ==
    ASSUME TypeOK, [Next]_vars, NEW r \in Run, FitRun(r), trades'[r] \subseteq trades[r],
           contexts'[r] \subseteq contexts[r], actions'[r] \subseteq actions[r]
    PROVE  FitRun(r)'
<1>1. \A t \in trades[r] : t \in Trade /\ t.group \in Group
  BY DEF TypeOK, Trade
<1>2. \A t \in trades'[r] : Started(t.group)'
  BY <1>1, Growing DEF FitRun
<1>3. \A a \in actions'[r] : (a[2] = a[1].group) \/ (a[2] \in Twins')
  BY TwinsGrow DEF FitRun
<1> QED  BY <1>2, <1>3 DEF FitRun

\* The statement lists what has happened.
LEMMA FitStart ==
    ASSUME TypeOK, OrderInv, [Next]_vars, NEW r \in Run, FitRun(r), Start(r)
    PROVE  FitRun(r)'
<1>1. contexts'[r] = contexts[r] /\ actions'[r] = actions[r] /\ UNCHANGED <<entered, Twins>>
  BY DEF Start, KeepOutside, brokerVars, Twins, Alike
<1>2. ASSUME NEW t \in trades'[r]  PROVE Started(t.group)
  <2>1. t \in Trade /\ DayOf(t) > 0
    BY <1>2 DEF Start, TypeOK, Happened
  <2> QED  BY <2>1 DEF DayOf, OrderInv, Started, Trade
<1> QED  BY <1>1, <1>2 DEF FitRun, Started

LEMMA FitFetch ==
    ASSUME TypeOK, [Next]_vars, NEW r \in Run, FitRun(r), Fetch(r)
    PROVE  FitRun(r)'
<1>1. ASSUME NEW c \in contexts'[r]  PROVE c.group \in Group /\ c.qty = Qty[c.group]
  <2>1. PICK g \in Group : c = EntryContext(g) \/ c = ExitContext(g)
    BY <1>1 DEF Fetch, TypeOK
  <2>2. c.group = g /\ c.qty = Qty[g]
    BY <2>1 DEF EntryContext, ExitContext
  <2> QED  BY <2>2
<1>2. trades'[r] = trades[r] /\ actions'[r] = actions[r] /\ UNCHANGED <<entered, Twins>>
  BY DEF Fetch, brokerVars, Twins, Alike
<1> QED  BY <1>1, <1>2 DEF FitRun, Started

\* A missing exit fits: an entry is known by its id, and the sizes agree.
LEMMA FitMatch ==
    ASSUME TypeOK, OrderInv, [Next]_vars, NEW r \in Run, FitRun(r), Match(r)
    PROVE  FitRun(r)'
<1>1. trades'[r] = {} /\ contexts'[r] = {} /\ UNCHANGED Twins
  BY DEF Match, TypeOK, KeepOutside, brokerVars, Twins, Alike
<1>2. ASSUME NEW a \in actions'[r]
      PROVE  /\ IdKind = "exec" => a[1].leg = "EXIT"
             /\ a[2] = a[1].group \/ a[2] \in Twins
  <2>1. /\ a \in trades[r] \X Group
        /\ a[2] \in MissingExit(a[1], contexts[r])
    BY <1>2 DEF Match, TypeOK
  <2> DEFINE t == a[1]
             g == a[2]
  <2>2. t \in trades[r] /\ g \in Group /\ t \in Trade /\ t.group \in Group
    BY <2>1 DEF TypeOK, Trade
  <2>3. executions[<<IdKind, t>>] = None /\ \E c \in contexts[r] : g = c.group /\ c.qty = Qty[t.group]
    BY <2>1, ExitOfContext
  <2>4. Started(t.group)
    BY <2>2 DEF FitRun
  <2>5. IdKind = "exec" => t.leg = "EXIT"
    <3>1. executions[<<"exec", LegTrade(t.group, "ENTRY")>>] # None
      BY <2>2, <2>4 DEF OrderInv
    <3>2. t.leg = "ENTRY" => t = LegTrade(t.group, "ENTRY")
      BY <2>2 DEF LegTrade, Trade
    <3>3. t.leg \in {"ENTRY", "EXIT"}
      BY <2>2 DEF Trade
    <3> HIDE DEF t
    <3> QED  BY <2>3, <3>1, <3>2, <3>3
  <2>6. g = t.group \/ g \in Twins
    <3>1. Qty[g] = Qty[t.group]
      BY <2>3 DEF FitRun
    <3>2. sent[t.group] > 0
      BY <2>2, <2>4 DEF OrderInv
    <3> QED  BY <2>2, <3>1, <3>2 DEF Twins, Alike
  <2> QED  BY <2>5, <2>6
<1> QED  BY <1>1, <1>2 DEF FitRun

LEMMA NextFit ==
    ASSUME FitInv, [Next]_vars
    PROVE  FitInv'
<1>1. TypeOK /\ OrderInv /\ \A r \in Run : FitRun(r)
  BY DEF FitInv
<1>2. ASSUME NEW r \in Run  PROVE FitRun(r)'
  <2>1. CASE UNCHANGED runVars
    BY <1>1, <2>1, FitKept DEF runVars
  <2>2. ASSUME NEW q \in Run \ {r}, Sync(q) \/ Abort(q)  PROVE FitRun(r)'
    BY <1>1, <2>2, OtherRun, FitKept
  <2>3. CASE Start(r) \/ Fetch(r) \/ Match(r)
    BY <1>1, <2>3, FitStart, FitFetch, FitMatch
  <2>4. CASE BookLedger(r) \/ Positions(r) \/ Book(r) \/ SettleBooked(r) \/ Finish(r) \/ Abort(r)
    <3>1. trades'[r] \subseteq trades[r] /\ contexts'[r] \subseteq contexts[r]
          /\ actions'[r] \subseteq actions[r]
      <4>1. CASE Book(r)
        BY <1>1, <4>1 DEF Book, TypeOK
      <4>2. CASE BookLedger(r) \/ Positions(r) \/ SettleBooked(r)
        BY <1>1, <4>2 DEF BookLedger, Positions, SettleBooked
      <4>3. CASE Finish(r) \/ Abort(r)
        BY <1>1, <4>3 DEF Finish, Abort, Reset, TypeOK
      <4> QED  BY <2>4, <4>1, <4>2, <4>3
    <3> QED  BY <1>1, <3>1, FitKept
  <2> QED
    BY <2>1, <2>2, <2>3, <2>4 DEF Next, NextDay, Send, Enter, Exit, MissedExit, Recover,
       SettleFill, Sync, vars
<1>3. OrderInv' /\ TypeOK'
  BY <1>1, NextOrder, NextTypes
<1> QED  BY <1>2, <1>3, NextBooked DEF FitInv

THEOREM FitInvariant == Spec => []FitInv
<1>1. FitInv /\ [Next]_vars => FitInv'
  BY NextFit
<1> QED  BY InitFit, <1>1, PTL DEF Spec

\* If the statements use TWS's ids, no execution of an entry is ever booked as an exit,
\* and an exit only on its own group or one of the same size, whatever any number of
\* synchronisations, recoveries and settlements do at once, and under all faults.
THEOREM ExitsKeptApart == IdKind = "exec" /\ Spec => []ExitsFit
<1> SUFFICES ASSUME IdKind = "exec"  PROVE Spec => []ExitsFit
  OBVIOUS
<1>1. FitInv => ExitsFit
  BY DEF FitInv, BookedInv, Fits, ExitsFit, Twins
<1> QED  BY <1>1, FitInvariant, PTL

----------------------------------------------------------------------------
(* A group that is held is left alone.                                        *)

\* All groups are long, and the positions are seen.
Guarded == Long = Group /\ "blind" \notin Faults

LEMMA InitHeld == Init => GroupsInv /\ \A r \in Run : HeldRun(r)
<1> SUFFICES ASSUME Init  PROVE GroupsInv /\ \A r \in Run : HeldRun(r)
  OBVIOUS
<1>1. \A g \in Group : ~HasExit(g)
  <2>1. \A g \in Group, role \in ExitRoles : Booked(g, role) # None
    BY FlexAssumption DEF Booking, Booked, ExitRoles
  <2> QED  BY <2>1 DEF Init, HasExit, Ids
<1>2. GroupsInv
  BY <1>1 DEF Init, GroupsInv, Settled
<1>3. \A r \in Run : HeldRun(r)
  BY DEF Init, HeldRun
<1> QED  BY <1>2, <1>3

LEMMA FreeGrows ==
    ASSUME TypeOK, [Next]_vars, NEW g \in Group, Free(g)  PROVE Free(g)'
<1>1. Over(g) => Over(g)'
  BY Growing DEF Over, Started
<1>2. g \in early /\ Alike(g) => g \in early' /\ Alike(g)'
  BY Growing, TwinsGrow DEF Twins
<1> QED  BY <1>1, <1>2 DEF Free

\* A group gets an exit only by an execution that is booked on it.
LEMMA NewExit ==
    ASSUME TypeOK, NEW i \in Id, NEW g \in Group, NEW role \in {"ENTRY", "SL", "EXIT"},
           Put(i, g, role), NEW h \in Group, HasExit(h)'
    PROVE  HasExit(h) \/ (h = g /\ role # "ENTRY")
<1>1. PICK j \in Id, x \in ExitRoles : executions'[j] = Booked(h, x)
  BY DEF HasExit, Ids
<1>2. CASE executions'[j] = executions[j]
  BY <1>1, <1>2 DEF HasExit, Ids
<1>3. CASE executions'[j] # executions[j]
  <2>1. Booked(h, x) = Booked(g, role)
    BY <1>1, <1>3, PutOne
  <2> QED  BY <2>1 DEF Booked, ExitRoles
<1> QED  BY <1>2, <1>3

LEMMA SameExits ==
    ASSUME executions' = executions, NEW h \in Group
    PROVE  HasExit(h)' <=> HasExit(h)
BY DEF HasExit, Ids, Booked, ExitRoles

LEMMA GroupsOutside ==
    ASSUME FitInv, GroupsInv, [Next]_vars, NEW g \in Group, Outside(g)
    PROVE  GroupsInv'
<1>1. TypeOK /\ OrderInv
  BY DEF FitInv
<1> SUFFICES ASSUME NEW h \in Group, ~Free(h)'
             PROVE  /\ child'[h] = (IF sent'[h] > 0 THEN "open" ELSE "none")
                    /\ exitRow'[h] = 0 /\ ~HasExit(h)' /\ ~Settled(h)' /\ h \notin settling'
  BY DEF GroupsInv
<1>2. ~Free(h)
  BY <1>1, FreeGrows
<1>3. /\ child[h] = (IF sent[h] > 0 THEN "open" ELSE "none")
      /\ exitRow[h] = 0 /\ ~HasExit(h) /\ ~Settled(h) /\ h \notin settling
  BY <1>2 DEF GroupsInv
<1>4. /\ sent \in [Group -> Day] /\ entered \in [Group -> Day] /\ closed \in [Group -> Day]
      /\ day \in 1..MaxDay /\ settledAt \in [Group -> Day]
      /\ child \in [Group -> {"none", "open", "Filled", "Cancelled"}]
  BY <1>1 DEF TypeOK
<1>5. ~Over(h) /\ ~Over(h)'
  BY <1>2 DEF Free
<1>6. CASE Send(g)
  <2>1. ~HasExit(h)'
    BY <1>3, <1>6, SameExits DEF Send
  <2>2. child'[h] = (IF sent'[h] > 0 THEN "open" ELSE "none")
    BY <1>3, <1>4, <1>6 DEF Send
  <2> QED  BY <1>3, <1>6, <2>1, <2>2 DEF Send, Settled
<1>7. CASE Enter(g)
  <2>1. Put(<<"exec", LegTrade(g, "ENTRY")>>, g, "ENTRY")
    BY <1>7, Zenon DEF Enter, Put
  <2>2. ~HasExit(h)'
    BY <1>1, <1>3, <2>1, LegTypes, NewExit
  <2> QED  BY <1>3, <1>7, <2>2 DEF Enter, Settled
<1>8. CASE Exit(g) \/ Recover(g)
  <2>1. closed'[g] > 0
    BY <1>4, <1>8, FlexAssumption DEF Exit, Recover, brokerVars, Day
  <2>2. entered'[g] > 0
    BY <1>1, <2>1, NextOrder DEF OrderInv, Started
  <2>3. g # h
    BY <1>5, <2>1, <2>2 DEF Over
  <2>4. Put(<<"exec", LegTrade(g, "EXIT")>>, g, "SL")
    BY <1>8, Zenon DEF Exit, Recover, Put
  <2>5. ~HasExit(h)'
    BY <1>1, <1>3, <2>3, <2>4, LegTypes, NewExit
  <2>6. child'[h] = child[h] /\ sent' = sent /\ exitRow' = exitRow /\ settledAt' = settledAt
        /\ settling' \subseteq settling \cup {g}
    BY <1>4, <1>8, <2>3 DEF Exit, Recover, brokerVars
  <2> QED  BY <1>3, <2>3, <2>5, <2>6 DEF Settled
<1>9. CASE MissedExit(g)
  <2>1. ~HasExit(h)'
    BY <1>3, <1>9, SameExits DEF MissedExit, dbVars
  <2> QED  BY <1>3, <1>9, <2>1 DEF MissedExit, dbVars, Settled
<1>10. CASE SettleFill(g)
  <2>1. ~HasExit(h)'
    BY <1>3, <1>10, SameExits DEF SettleFill
  <2>2. g # h
    BY <1>3, <1>10 DEF SettleFill
  <2>3. settledAt'[h] = settledAt[h]
    BY <1>4, <1>10, <2>2 DEF SettleFill, Settlement
  <2> QED  BY <1>3, <1>10, <2>1, <2>3 DEF SettleFill, brokerVars, Settled
<1> QED  BY <1>6, <1>7, <1>8, <1>9, <1>10 DEF Outside

LEMMA GroupsSync ==
    ASSUME FitInv, GroupsInv, [Next]_vars, NEW r \in Run, HeldRun(r), Sync(r) \/ Abort(r)
    PROVE  GroupsInv'
<1>1. TypeOK
  BY DEF FitInv
<1> SUFFICES ASSUME NEW h \in Group, ~Free(h)'
             PROVE  /\ child'[h] = (IF sent'[h] > 0 THEN "open" ELSE "none")
                    /\ exitRow'[h] = 0 /\ ~HasExit(h)' /\ ~Settled(h)' /\ h \notin settling'
  BY DEF GroupsInv
<1>2. ~Free(h)
  BY <1>1, FreeGrows
<1>3. /\ child[h] = (IF sent[h] > 0 THEN "open" ELSE "none")
      /\ exitRow[h] = 0 /\ ~HasExit(h) /\ ~Settled(h) /\ h \notin settling
  BY <1>2 DEF GroupsInv
<1>4. UNCHANGED <<sent, settling>>
  BY DEF Sync, Start, Fetch, BookLedger, Positions, Match, Book, SettleBooked, Finish, Abort,
         KeepOutside, brokerVars
<1>5. CASE Book(r)
  <2>1. PICK t \in Trade, g \in Group : BookFor(r, t, g)
    BY <1>1, <1>5, BookStep
  <2>2. g # h
    <3>1. <<t, g>> \in actions[r] /\ <<t, g>>[2] = g
      BY <2>1 DEF BookFor
    <3> QED  BY <1>2, <3>1 DEF HeldRun
  <2>3. <<IdKind, t>> \in Id /\ Put(<<IdKind, t>>, g, "EXIT")
    BY <2>1, Zenon DEF BookFor, Put, Id
  <2>4. ~HasExit(h)'
    BY <1>1, <1>3, <2>2, <2>3, NewExit
  <2>5. child'[h] = child[h] /\ exitRow'[h] = exitRow[h] /\ settledAt' = settledAt
    BY <1>1, <2>1, <2>2 DEF BookFor, TypeOK
  <2> QED  BY <1>3, <1>4, <2>4, <2>5 DEF Settled
<1>6. CASE SettleBooked(r)
  <2>1. ~HasExit(h)'
    BY <1>3, <1>6, SameExits DEF SettleBooked
  <2>2. current[r] # h
    BY <1>1, <1>2, <1>6, FlexAssumption DEF HeldRun, SettleBooked, TypeOK
  <2>3. settledAt'[h] = settledAt[h]
    BY <1>1, <1>6, <2>2 DEF SettleBooked, Settlement, TypeOK
  <2> QED  BY <1>3, <1>4, <1>6, <2>1, <2>3 DEF SettleBooked, Settled
<1>7. CASE ~Book(r) /\ ~SettleBooked(r)
  <2>1. UNCHANGED <<child, exitRow, executions, settledAt>>
    BY <1>7 DEF Sync, Start, Fetch, BookLedger, Positions, Match, Finish, Abort, dbVars
  <2> QED  BY <1>3, <1>4, <2>1, SameExits DEF Settled
<1> QED  BY <1>5, <1>6, <1>7

\* A synchronisation that learns nothing and settles nothing new keeps its part.
LEMMA HeldKeptBy ==
    ASSUME FitInv, [Next]_vars, NEW r \in Run, HeldRun(r), trades'[r] \subseteq trades[r],
           contexts'[r] \subseteq contexts[r], actions'[r] \subseteq actions[r],
           current'[r] \in {None, current[r]},
           rpc'[r] = "match" => rpc[r] = "match" /\ holding'[r] = holding[r],
           rpc'[r] = "idle" => contexts'[r] = {}
    PROVE  HeldRun(r)'
<1>1. TypeOK /\ FitRun(r)
  BY DEF FitInv
<1>2. \A g \in Group : (Started(g) => Started(g)') /\ (Over(g) => Over(g)') /\ (Free(g) => Free(g)')
  BY <1>1, Growing, FreeGrows DEF Over, Started
<1>3. \A g \in Group : Pending(r, g) => Pending(r, g)'
  BY <1>1, Growing DEF Pending
<1>4. \A c \in contexts[r] : c.group \in Group
  BY <1>1 DEF FitRun
<1>5. \A a \in actions[r] : a[2] \in Group
  BY <1>1 DEF TypeOK
<1>6. current[r] # None => current[r] \in Group
  BY <1>1 DEF TypeOK
<1> QED  BY <1>2, <1>3, <1>4, <1>5, <1>6 DEF HeldRun

\* A context is of a group that is entered, or pending and then not in the statement.
LEMMA HeldFetch ==
    ASSUME FitInv, GroupsInv, [Next]_vars, NEW r \in Run, HeldRun(r), Fetch(r)
    PROVE  HeldRun(r)'
<1>1. TypeOK /\ FitRun(r)
  BY DEF FitInv
<1>2. /\ trades'[r] = trades[r] /\ actions'[r] = actions[r] /\ current'[r] = current[r]
      /\ rpc'[r] = "ledger" /\ UNCHANGED brokerVars
      /\ early' = early \cup {g \in Group : sent[g] > 0 /\ entered[g] = 0}
  BY <1>1 DEF Fetch, Goto, TypeOK
<1>3. ASSUME NEW c \in contexts'[r]  PROVE (Started(c.group) \/ Pending(r, c.group))'
  <2>1. PICK g \in Group : \/ sent[g] > 0 /\ c = EntryContext(g)
                           \/ HasExit(g) /\ c = ExitContext(g)
    BY <1>1, <1>3 DEF Fetch, TypeOK
  <2>2. c.group = g
    BY <2>1 DEF EntryContext, ExitContext
  <2>3. entered[g] = 0 => g \in early'
    <3>1. HasExit(g) => Free(g)
      BY DEF GroupsInv
    <3>2. entered[g] = 0 /\ Free(g) => g \in early
      BY DEF Free, Over
    <3> QED  BY <1>2, <2>1, <3>1, <3>2
  <2>4. entered[g] = 0 => \A t \in trades[r] : t.group # g
    BY <1>1 DEF FitRun, Started
  <2>5. entered[g] = 0 \/ entered[g] > 0
    BY <1>1, FlexAssumption DEF TypeOK, Day
  <2> QED  BY <1>2, <2>2, <2>3, <2>4, <2>5 DEF Started, Pending, brokerVars
<1>4. \A g \in Group : Free(g) => Free(g)'
  BY <1>1, FreeGrows
<1>5. (\A a \in actions[r] : a[2] \in Group) /\ (current[r] # None => current[r] \in Group)
  BY <1>1 DEF TypeOK
<1> QED  BY <1>2, <1>3, <1>4, <1>5 DEF HeldRun

\* The guard finds no position of the groups whose contexts were read before.
LEMMA HeldPositions ==
    ASSUME FitInv, Guarded, [Next]_vars, NEW r \in Run, HeldRun(r), Positions(r)
    PROVE  HeldRun(r)'
<1>1. TypeOK /\ FitRun(r)
  BY DEF FitInv
<1>2. holding'[r] = (Position[HeldGroups] > 0)
  BY <1>1 DEF Positions, Guarded, TypeOK
<1>3. /\ trades' = trades /\ contexts' = contexts /\ actions' = actions /\ current' = current
      /\ rpc'[r] = "match"
      /\ UNCHANGED <<brokerVars, early, Twins>>
  BY <1>1 DEF Positions, Goto, TypeOK, KeepOutside, Twins, Alike, brokerVars
<1>4. ~holding'[r] => \A c \in contexts[r] : Started(c.group) => Over(c.group)
  <2>1. HeldGroups \in SUBSET Long
    BY DEF HeldGroups, Guarded
  <2>2. ~holding'[r] => HeldGroups = {}
    BY <1>2, <2>1, FlexAssumption
  <2>3. \A g \in Group : Started(g) /\ ~Held(g) => Over(g)
    BY <1>1, FlexAssumption DEF Started, Held, Over, TypeOK, Day
  <2>4. \A c \in contexts[r] : c.group \in Group
    BY <1>1 DEF FitRun
  <2> QED  BY <2>2, <2>3, <2>4 DEF HeldGroups
<1>5. \A g \in Group : Free(g) => Free(g)'
  BY <1>1, FreeGrows
<1>6. (\A a \in actions[r] : a[2] \in Group) /\ (current[r] # None => current[r] \in Group)
  BY <1>1 DEF TypeOK
<1> QED  BY <1>3, <1>4, <1>5, <1>6 DEF HeldRun, Started, Over, Pending, brokerVars

\* A group that was pending is given only an exit of another group of its size.
LEMMA HeldMatch ==
    ASSUME FitInv, [Next]_vars, NEW r \in Run, HeldRun(r), Match(r)
    PROVE  HeldRun(r)'
<1>1. TypeOK /\ FitRun(r) /\ OrderInv
  BY DEF FitInv
<1>2. ASSUME NEW a \in actions'[r]  PROVE Free(a[2])
  <2>1. ~holding[r] /\ a \in trades[r] \X Group /\ a[2] \in MissingExit(a[1], contexts[r])
    BY <1>1, <1>2 DEF Match, TypeOK
  <2>2. PICK c \in contexts[r] : a[2] = c.group
    <3>1. ASSUME NEW t, NEW g \in MissingExit(t, contexts[r])
          PROVE  \E c \in contexts[r] : g = c.group
      BY <3>1 DEF MissingExit, Matched, First, Fitting
    <3> QED  BY <2>1, <3>1
  <2>3. Over(a[2]) \/ Pending(r, a[2])
    BY <2>1, <2>2 DEF Match, HeldRun
  <2>4. Pending(r, a[2]) => a[2] \in early /\ a[2] # a[1].group
    BY <2>1 DEF Pending
  <2>5. a[2] = a[1].group \/ a[2] \in Twins
    <3>1. FitRun(r)'
      BY <1>1, FitMatch
    <3>2. UNCHANGED Twins
      BY DEF Match, KeepOutside, Twins, Alike, brokerVars
    <3> QED  BY <1>2, <3>1, <3>2 DEF FitRun
  <2> QED  BY <2>3, <2>4, <2>5 DEF Free, Twins
<1>3. contexts'[r] = {} /\ rpc'[r] = "book" /\ current'[r] = current[r]
  BY <1>1 DEF Match, Goto, TypeOK
<1>4. \A g \in Group : Free(g) => Free(g)'
  BY <1>1, FreeGrows
<1>5. (\A a \in actions'[r] : a[2] \in Group) /\ (current[r] # None => current[r] \in Group)
  BY <1>1, NextTypes DEF TypeOK
<1> QED  BY <1>2, <1>3, <1>4, <1>5 DEF HeldRun

LEMMA HeldBook ==
    ASSUME FitInv, [Next]_vars, NEW r \in Run, HeldRun(r), Book(r)
    PROVE  HeldRun(r)'
<1>1. TypeOK /\ FitRun(r)
  BY DEF FitInv
<1>2. PICK t \in Trade, g \in Group : BookFor(r, t, g)
  BY <1>1, BookStep
<1>3. Free(g)
  <2>1. <<t, g>> \in actions[r] /\ <<t, g>>[2] = g
    BY <1>2 DEF BookFor
  <2> QED  BY <2>1 DEF HeldRun
<1>4. /\ trades'[r] = trades[r] /\ contexts'[r] = contexts[r] /\ actions'[r] \subseteq actions[r]
      /\ current'[r] = g /\ rpc'[r] = "settle"
  BY <1>1, <1>2 DEF BookFor, TypeOK
<1>5. \A h \in Group : (Started(h) => Started(h)') /\ (Free(h) => Free(h)')
  BY <1>1, Growing, FreeGrows
<1>6. \A h \in Group : Pending(r, h) => Pending(r, h)'
  BY <1>1, <1>4, Growing DEF Pending
<1>7. (\A c \in contexts[r] : c.group \in Group) /\ (\A a \in actions[r] : a[2] \in Group)
  BY <1>1 DEF FitRun, TypeOK
<1> QED  BY <1>3, <1>4, <1>5, <1>6, <1>7 DEF HeldRun

LEMMA NextHeld ==
    ASSUME Inv, Guarded, [Next]_vars, NEW r \in Run
    PROVE  HeldRun(r)'
<1>1. FitInv /\ GroupsInv /\ HeldRun(r) /\ TypeOK
  BY DEF Inv, FitInv
<1>2. CASE UNCHANGED runVars
  BY <1>1, <1>2, HeldKeptBy DEF runVars, HeldRun
<1>3. ASSUME NEW q \in Run \ {r}, Sync(q) \/ Abort(q)  PROVE HeldRun(r)'
  BY <1>1, <1>3, OtherRun, HeldKeptBy DEF HeldRun
<1>4. CASE Fetch(r) \/ Positions(r) \/ Match(r) \/ Book(r)
  BY <1>1, <1>4, HeldFetch, HeldPositions, HeldMatch, HeldBook
<1>5. CASE Start(r)
  <2>1. /\ contexts'[r] = contexts[r] /\ actions'[r] = actions[r] /\ current'[r] = current[r]
        /\ rpc'[r] = "fetch" /\ rpc[r] = "idle" /\ UNCHANGED <<brokerVars, early, Twins>>
    BY <1>1, <1>5 DEF Start, Goto, KeepOutside, TypeOK, Twins, Alike, brokerVars
  <2>2. contexts'[r] = {}
    BY <1>1, <2>1 DEF HeldRun
  <2>3. \A g \in Group : Free(g) => Free(g)'
    BY <1>1, FreeGrows
  <2>4. (\A a \in actions[r] : a[2] \in Group) /\ (current[r] # None => current[r] \in Group)
    BY <1>1 DEF TypeOK
  <2> QED  BY <1>1, <2>1, <2>2, <2>3, <2>4 DEF HeldRun
<1>6. CASE BookLedger(r) \/ SettleBooked(r) \/ Finish(r) \/ Abort(r)
  <2>1. /\ trades'[r] \subseteq trades[r] /\ contexts'[r] \subseteq contexts[r]
        /\ actions'[r] \subseteq actions[r] /\ current'[r] \in {None, current[r]}
        /\ rpc'[r] # "match" /\ (rpc'[r] = "idle" => contexts'[r] = {})
    BY <1>1, <1>6 DEF BookLedger, SettleBooked, Finish, Abort, Reset, Goto, TypeOK
  <2> QED  BY <1>1, <2>1, HeldKeptBy
<1> QED
  BY <1>2, <1>3, <1>4, <1>5, <1>6 DEF Next, NextDay, Send, Enter, Exit, MissedExit, Recover,
     SettleFill, Sync, vars

THEOREM Invariant == Guarded /\ Spec => []Inv
<1>1. Init => Inv
  BY InitFit, InitHeld DEF Inv
<1>2. Guarded /\ Inv /\ [Next]_vars => Inv'
  <2> SUFFICES ASSUME Guarded, Inv, [Next]_vars  PROVE Inv'
    OBVIOUS
  <2>1. FitInv' /\ \A r \in Run : HeldRun(r)'
    BY NextFit, NextHeld DEF Inv
  <2>2. GroupsInv'
    <3>1. CASE NextDay \/ UNCHANGED vars
      <4>1. /\ UNCHANGED <<sent, entered, closed, settling, early>>
            /\ UNCHANGED <<child, exitRow, executions, settledAt>>
        BY <3>1 DEF NextDay, vars, brokerVars, dbVars
      <4>2. \A g \in Group : HasExit(g)' <=> HasExit(g)
        BY <4>1, SameExits
      <4>3. \A g \in Group : Free(g)' <=> Free(g)
        BY <4>1 DEF Free, Over, Alike
      <4> QED  BY <4>1, <4>2, <4>3 DEF Inv, GroupsInv, Settled
    <3>2. ASSUME NEW r \in Run, Sync(r) \/ Abort(r)  PROVE GroupsInv'
      BY <3>2, GroupsSync DEF Inv
    <3>3. ASSUME NEW g \in Group, Outside(g)  PROVE GroupsInv'
      BY <3>3, GroupsOutside DEF Inv
    <3> QED  BY <3>1, <3>2, <3>3 DEF Next, Outside
  <2> QED  BY <2>1, <2>2 DEF Inv
<1>3. Guarded => Guarded'
  BY DEF Guarded
<1> QED  BY <1>1, <1>2, <1>3, PTL DEF Spec

\* However many synchronisations run, and whatever is sent, entered, closed, missed or
\* recovered meanwhile, no held group is given an exit, as long as all groups are long
\* and the positions are seen; but one that shares its size and was read pending.
THEOREM HeldKept == Guarded /\ Spec => []HeldNotClosed
<1>1. Inv => HeldNotClosed
  <2> SUFFICES ASSUME Inv, NEW g \in Group, Held(g), ~(g \in early /\ Alike(g))
               PROVE  Untouched(g)
    BY DEF HeldNotClosed
  <2>1. ~Free(g)
    BY FlexAssumption DEF Free, Over, Held
  <2>2. sent[g] > 0
    BY DEF Inv, FitInv, OrderInv, Started, Held
  <2> QED  BY <2>1, <2>2 DEF Inv, GroupsInv, Untouched
<1> QED  BY <1>1, Invariant, PTL
=============================================================================
