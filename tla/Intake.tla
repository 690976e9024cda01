-------------------------------- MODULE Intake --------------------------------
(***************************************************************************)
(* From a CSV file to the worker's queue (importer.py): files are read one *)
(* at a time, each group is validated, sized against the account and the   *)
(* budget of its batch, written to the orders table and queued; the file   *)
(* is archived once the queue is empty.  Beside it run the worker's loop   *)
(* (worker.py), the retry tasks, recovery runs, a crash, and the orders'   *)
(* life at TWS, the last three in the outline that OrderLifecycle fills in.*)
(*                                                                         *)
(* Money is counted in the smallest unit of a price, so that rounding a    *)
(* limit down changes no comparison with a cost.                           *)
(***************************************************************************)
EXTENDS Integers, Sequences, FiniteSets

CONSTANTS
    Group,         \* trade_group_id
    None,          \* no group
    Content,       \* the CSV files by date: a sequence of files, each the sequence
                   \* of its groups
    Funds,         \* what AvailableFunds or TotalCashValue may be read as, 0 if TWS
                   \* does not answer
    MaxFunds,      \* a bound on them
    Cash,          \* total cash left beside the margin of existing futures
    NetLiq,        \* NetLiquidation
    FactorNum, FactorDen, \* margin_multiplier_factor as a fraction
    LimitPct,      \* default_limit_pct
    SizingMode,    \* config.account.sizing_mode
    Margin,        \* get_margin_requirement of a futures contract
    QueueSize,     \* maxsize of the queue
    MaxFaults,     \* bound on lost sessions, crashes, exceptions and RETRIABLE refusals
    Faults         \* what the environment may do

Exit  == {"SL", "EXIT"}
Leg   == {"ENTRY"} \cup Exit

\* A group as it is read: its legs, without an ENTRY the DipBuyer filter removes;
\* whether validate_group refuses it, or strategy and symbol turn it into a
\* futures contract; the entry's target_price, 0 if it has none.
Kind  == {"equity", "future", "invalid"}
Item  == [group : Group, legs : SUBSET Leg, kind : Kind, qty : Nat \ {0}, price : Nat]
File  == DOMAIN Content
Row   == {"none", "Created", "Submitted", "Filled", "Cancelled", "Error"}

AllFaults ==
    {"cut",      \* the session with TWS is lost
     "crash",    \* the process dies and is started again
     "raise",    \* process_trade_group raises, or the file or the database does in
                 \* an import
     "refuse",   \* an entry is refused by the checks before it is sent
     "reject",   \* TWS refuses or cancels an order for good
     "bounce"}   \* TWS refuses an order with a RETRIABLE code

ASSUME IntakeAssumption ==
    /\ None \notin Group
    /\ Content \in Seq(Seq(Item))
    /\ \A f \in File : \A i, j \in DOMAIN Content[f] :   \* load_csv groups the rows
            Content[f][i].group = Content[f][j].group => i = j
    /\ Funds \subseteq Int /\ MaxFunds \in Nat /\ \A a \in Funds : a <= MaxFunds
    /\ Cash \subseteq Nat /\ NetLiq \in Int /\ Margin \in Nat
    /\ FactorNum \in Nat \ {0} /\ FactorDen \in Nat \ {0} /\ LimitPct \in Nat
    /\ SizingMode \in {"margin_adjusted_capital", "total_cash"}
    /\ QueueSize \in Nat \ {0} /\ MaxFaults \in Nat
    /\ Faults \subseteq AllFaults

VARIABLES
    \* the inbox and the archive
    files,
    \* orders by group and leg: status, quantity, date of transmitted_at (0: NULL),
    \* and trades_settlement; the newest date
    row, qty, transmitted, settled, today,
    \* the importer: place, file and group in hand, the quantity and the action on
    \* the ENTRY it decided, BatchCashBudget, groups queued
    ipc, file, item, want, allocated, futuresCash, imported,
    \* asyncio.Queue and its _unfinished_tasks; retry tasks asleep; groups a
    \* recovery run still has to queue
    queue, unfinished, backoff, requeue,
    \* the worker: place, group, the rows it loaded
    wpc, hand, snap,
    \* TWS: quantity of the group's live or executed order; session; faults so far
    sent, connected, faults,
    \* history: groups the importer queued and no round of the worker has been
    \* through since; is the present round for such a group?  Groups whose entry was
    \* sized again while it was under way, or beside an exit sized before
    due, serving, resized

dbVars     == <<row, qty, transmitted, settled, today>>
importVars == <<files, ipc, file, item, want, allocated, futuresCash, imported>>
queueVars  == <<queue, unfinished, backoff, requeue>>
workerVars == <<wpc, hand, snap>>
envVars    == <<sent, connected, faults>>
histVars   == <<due, serving, resized>>
vars == <<dbVars, importVars, queueVars, workerVars, envVars, histVars>>

Unsent == {"Created", "Error", "Cancelled"}
NoRows == [l \in Leg |-> [status |-> "none", qty |-> 0]]
Rows(g) == [l \in Leg |-> [status |-> row[g][l], qty |-> qty[g][l]]]

DbTypes ==
    /\ row \in [Group -> [Leg -> Row]] /\ qty \in [Group -> [Leg -> Nat]]
    /\ transmitted \in [Group -> [Leg -> Nat]] /\ settled \subseteq Group
    /\ today \in Nat

ImportTypes ==
    /\ files \in [File -> {"inbox", "bak", "err"}]
    /\ ipc \in {"scan", "size", "upsert", "put", "join", "archive"}
    /\ file \in Nat /\ item \in Nat /\ want \in Nat
    /\ allocated \in Nat /\ futuresCash \in Nat /\ imported \subseteq Group

QueueTypes ==
    /\ queue \in Seq(Group) /\ unfinished \in Nat
    /\ backoff \in [Group -> Nat] /\ requeue \subseteq Group

WorkerTypes ==
    /\ wpc \in {"idle", "load", "work", "done"} /\ hand \in Group \cup {None}
    /\ snap \in [Leg -> [status : Row, qty : Nat]]

EnvTypes ==
    /\ sent \in [Group -> [Leg -> Nat]] /\ connected \in BOOLEAN /\ faults \in Nat
    /\ due \subseteq Group /\ serving \in BOOLEAN /\ resized \subseteq Group

\* The tables, the queue with its counter, and the coroutines keep their types: no
\* round of the worker is reported twice (task_done
\* raises if it is called more often than put).
TypeOK == DbTypes /\ ImportTypes /\ QueueTypes /\ WorkerTypes /\ EnvTypes

Init ==
    /\ files = [f \in File |-> "inbox"]
    /\ row = [g \in Group |-> [l \in Leg |-> "none"]]
    /\ qty = [g \in Group |-> [l \in Leg |-> 0]]
    /\ transmitted = [g \in Group |-> [l \in Leg |-> 0]]
    /\ settled = {} /\ today = 0
    /\ ipc = "scan" /\ file = 0 /\ item = 0 /\ want = 0
    /\ allocated = 0 /\ futuresCash = 0 /\ imported = {}
    /\ queue = <<>> /\ unfinished = 0
    /\ backoff = [g \in Group |-> 0] /\ requeue = {}
    /\ wpc = "idle" /\ hand = None /\ snap = NoRows
    /\ sent = [g \in Group |-> [l \in Leg |-> 0]]
    /\ connected = FALSE /\ faults = 0
    /\ due = {} /\ serving = FALSE /\ resized = {}

----------------------------------------------------------------------------
(* Sizing: pure functions of importer.py.                                  *)

Lesser(a, b)  == IF a <= b THEN a ELSE b
Greater(a, b) == IF a <= b THEN b ELSE a

\* Mutant: the groups sized before are forgotten.
EffectiveFundsAll(a) == Greater(0, a)

\* What the groups sized before leave of a balance.
EffectiveFunds(a) == Greater(0, a - allocated)

\* determine_maximum_capital_allocation
MaximumAllocation(a) ==
    IF SizingMode = "total_cash" THEN EffectiveFunds(a)
    ELSE Lesser((NetLiq * FactorNum * LimitPct) \div (100 * FactorDen),
                (EffectiveFunds(a) * FactorNum) \div FactorDen)

\* calculate_downscaled_quantity; the code takes the Decimal quotient's integer part.
Downscaled(target, price, limit) ==
    IF price = 0 \/ target * price <= limit THEN target
    ELSE limit \div price

----------------------------------------------------------------------------
(* The importer.                                                           *)

\* One of the faults that the bound counts happens.
Disturb(f) == f \in Faults /\ faults < MaxFaults /\ faults' = faults + 1

Current == Content[file][item]
HasEntry == "ENTRY" \in Current.legs
Standalone == ~HasEntry /\ Current.kind # "invalid"

Skip == item' = item + 1 /\ ipc' = "size" /\ want' = 0

\* _scan_and_process_directory takes the oldest file while TWS is connected;
\* run_csv_import opens the batch budget (no cash is assumed if TWS fails).
Begin ==
    /\ ipc = "scan" /\ connected
    /\ \E f \in File :
        /\ files[f] = "inbox" /\ \A h \in File : files[h] = "inbox" => f <= h
        /\ file' = f /\ today' = Greater(today, f)
    /\ \E c \in Cash \cup {0} : futuresCash' = c
    /\ ipc' = "size" /\ item' = 1 /\ want' = 0 /\ allocated' = 0 /\ imported' = {}
    /\ UNCHANGED <<files, row, qty, transmitted, settled, queueVars, workerVars,
                   envVars, histVars>>

KeepDb == UNCHANGED <<dbVars, queueVars, workerVars, envVars, histVars>>

\* Mutant: the queue is asked whether it is empty.
LastItemWhenEmpty ==
    /\ ipc = "size" /\ item > Len(Content[file])
    /\ ipc' = IF queue = <<>> THEN "archive" ELSE "join"
    /\ UNCHANGED <<files, file, item, want, allocated, futuresCash, imported>>
    /\ KeepDb

\* The groups have been queued: queue.join() returns at once or waits to be woken.
LastItem ==
    /\ ipc = "size" /\ item > Len(Content[file])
    /\ ipc' = IF unfinished = 0 THEN "archive" ELSE "join"
    /\ UNCHANGED <<files, file, item, want, allocated, futuresCash, imported>>
    /\ KeepDb

\* validate_group refuses the group, or TWS resolves no futures contract for it.
SkipInvalid ==
    /\ ipc = "size" /\ item <= Len(Content[file])
    /\ Current.kind \in {"invalid", "future"}
    /\ Skip
    /\ UNCHANGED <<files, file, allocated, futuresCash, imported>> /\ KeepDb

\* An equity entry is sized by what the batch has left.
SizeEntry ==
    /\ ipc = "size" /\ item <= Len(Content[file]) /\ HasEntry /\ Current.kind = "equity"
    /\ \E a \in Funds :
        LET limit == MaximumAllocation(a)
            q     == Downscaled(Current.qty, Current.price, limit) IN
        IF limit <= 0 \/ q <= 0 THEN Skip /\ UNCHANGED allocated
        ELSE /\ want' = q /\ allocated' = allocated + q * Current.price
             /\ ipc' = "upsert" /\ UNCHANGED item
    /\ UNCHANGED <<files, file, futuresCash, imported>> /\ KeepDb

\* A futures entry is one contract whose margin must be covered by cash
\* (config.futures.bafin_cash_protection).
SizeFuture ==
    /\ ipc = "size" /\ item <= Len(Content[file]) /\ HasEntry /\ Current.kind = "future"
    /\ IF futuresCash < Margin THEN Skip /\ UNCHANGED futuresCash
       ELSE /\ want' = 1 /\ futuresCash' = futuresCash - Margin
            /\ ipc' = "upsert" /\ UNCHANGED item
    /\ UNCHANGED <<files, file, allocated, imported>> /\ KeepDb

\* Mutant: the quantity is taken from the file.
CheckExitUnaligned ==
    /\ ipc = "size" /\ item <= Len(Content[file]) /\ Standalone
    /\ IF \/ Current.group \in settled
          \/ row[Current.group]["ENTRY"] \in {"none", "Error", "Cancelled"}
       THEN Skip
       ELSE want' = Current.qty /\ ipc' = "upsert" /\ UNCHANGED item
    /\ UNCHANGED <<files, file, allocated, futuresCash, imported>> /\ KeepDb

\* A standalone exit needs an entry and gets its quantity.
CheckExit ==
    /\ ipc = "size" /\ item <= Len(Content[file]) /\ Standalone
    /\ IF \/ Current.group \in settled
          \/ row[Current.group]["ENTRY"] \in {"none", "Error", "Cancelled"}
       THEN Skip
       ELSE /\ want' = qty[Current.group]["ENTRY"]
            /\ ipc' = "upsert" /\ UNCHANGED item
    /\ UNCHANGED <<files, file, allocated, futuresCash, imported>> /\ KeepDb

\* The legs an UPSERT writes: those it names which are new or not under way.
Written(g, named) == {l \in named : row[g][l] \in {"none"} \cup Unsent}

\* _upsert_trade_group_legs, one transaction.  An exit without an active entry is
\* refused again and skipped.
Upsert ==
    LET g    == Current.group
        legs == Written(g, Current.legs) IN
    /\ ipc = "upsert"
    /\ IF ~HasEntry /\ row[g]["ENTRY"] \in {"none"} \cup Unsent
       THEN Skip /\ UNCHANGED <<row, qty, resized>>
       ELSE /\ row' = [row EXCEPT ![g] = [l \in Leg |->
                        IF l \in legs THEN "Created" ELSE @[l]]]
            /\ qty' = [qty EXCEPT ![g] = [l \in Leg |->
                        IF l \in legs THEN want ELSE @[l]]]
            /\ resized' = IF /\ HasEntry
                             /\ \/ row[g]["ENTRY"] \notin {"none"} \cup Unsent
                                \/ hand = g /\ wpc = "work"
                                \/ \E l \in Exit \ Current.legs : row[g][l] = "Created"
                          THEN resized \cup {g} ELSE resized
            /\ ipc' = "put" /\ UNCHANGED <<item, want>>
    /\ UNCHANGED <<transmitted, settled, today, files, file, allocated, futuresCash,
                   imported, queueVars, workerVars, envVars, due, serving>>

\* await queue.put(trade_group_id)
Put ==
    /\ ipc = "put" /\ Len(queue) < QueueSize
    /\ queue' = Append(queue, Current.group) /\ unfinished' = unfinished + 1
    /\ due' = due \cup {Current.group} /\ imported' = imported \cup {Current.group}
    /\ Skip
    /\ UNCHANGED <<dbVars, files, file, allocated, futuresCash, backoff, requeue,
                   workerVars, envVars, serving, resized>>

\* A row that makes its file an error file.
Failed(g, l) ==
    \/ row[g][l] = "Error" /\ (transmitted[g][l] = 0 \/ transmitted[g][l] >= file)
    \/ row[g][l] = "Cancelled" /\ transmitted[g][l] = 0 /\ l = "ENTRY"

\* The locals of the import are gone.
ImportOver ==
    /\ ipc' = "scan" /\ file' = 0 /\ item' = 0 /\ want' = 0
    /\ allocated' = 0 /\ futuresCash' = 0 /\ imported' = {}

\* The file moves to the archive.
Archive ==
    /\ ipc = "archive"
    /\ files' = [files EXCEPT ![file] =
                   IF \E g \in imported, l \in Leg : Failed(g, l) THEN "err" ELSE "bak"]
    /\ ImportOver
    /\ KeepDb

\* _process_daily_csv_file: an exception ends the import; the groups queued stay.
ImportRaises ==
    /\ Disturb("raise") /\ ipc \in {"size", "upsert", "archive"}
    /\ files' = [files EXCEPT ![file] = "err"]
    /\ ImportOver
    /\ UNCHANGED <<dbVars, queueVars, workerVars, sent, connected, histVars>>

Import == \/ Begin \/ LastItem \/ SkipInvalid \/ SizeEntry \/ SizeFuture \/ CheckExit
          \/ Upsert \/ Put \/ Archive \/ ImportRaises

----------------------------------------------------------------------------
(* The worker.                                                             *)

KeepImport == UNCHANGED importVars

\* queue.task_done() wakes the importer when it was the last one.
TaskDone ==
    /\ unfinished' = unfinished - 1
    /\ ipc' = IF ipc = "join" /\ unfinished = 1 THEN "archive" ELSE ipc
    /\ UNCHANGED <<files, file, item, want, allocated, futuresCash, imported>>

\* queue.get()
Get ==
    /\ wpc = "idle" /\ queue # <<>>
    /\ hand' = Head(queue) /\ queue' = Tail(queue) /\ wpc' = "load"
    /\ KeepImport
    /\ UNCHANGED <<dbVars, unfinished, backoff, requeue, snap, envVars, histVars>>

\* The legs of group g that are Created become s.
Aborted(g, s) == [l \in Leg |-> IF row[g][l] = "Created" THEN s ELSE row[g][l]]

\* Once TWS is connected process_trade_group loads the rows; a group whose entry
\* has failed, or that has none, is done with.
Load ==
    /\ wpc = "load" /\ connected
    /\ snap' = Rows(hand)
    /\ serving' = (hand \in due) /\ due' = due \ {hand}
    /\ LET s == row[hand]["ENTRY"] IN
       IF s \in {"Error", "Cancelled"}
       THEN wpc' = "done" /\ row' = [row EXCEPT ![hand] = Aborted(hand, s)]
       ELSE wpc' = (IF s = "none" THEN "done" ELSE "work") /\ UNCHANGED row
    /\ KeepImport
    /\ UNCHANGED <<qty, transmitted, settled, today, queueVars, hand, envVars, resized>>

\* A leg goes to TWS, or is refused there at once.
Transmit(l, s, q) ==
    /\ transmitted' = [transmitted EXCEPT ![hand][l] = today]
    /\ sent' = [sent EXCEPT ![hand][l] = IF s = "Submitted" THEN q ELSE 0]

\* _ensure_entry_order_submitted
SendEntry ==
    /\ wpc = "work" /\ snap["ENTRY"].status = "Created" /\ connected
    /\ row' = [row EXCEPT ![hand]["ENTRY"] = "Submitted"]
    /\ Transmit("ENTRY", "Submitted", snap["ENTRY"].qty)
    /\ snap' = [snap EXCEPT !["ENTRY"].status = "Submitted"]
    /\ KeepImport
    /\ UNCHANGED <<qty, settled, today, queueVars, wpc, hand, connected, faults,
                   histVars>>

\* The checks refuse the entry (they fail closed without a session), or TWS does:
\* the rest of the group is aborted.
RefuseEntry ==
    /\ wpc = "work" /\ snap["ENTRY"].status = "Created"
    /\ \/ ("refuse" \in Faults \/ ~connected) /\ UNCHANGED <<transmitted, sent>>
       \/ "reject" \in Faults /\ connected /\ Transmit("ENTRY", "Error", 0)
    /\ row' = [row EXCEPT ![hand] = [Aborted(hand, "Error") EXCEPT !["ENTRY"] = "Error"]]
    /\ wpc' = "done"
    /\ KeepImport
    /\ UNCHANGED <<qty, settled, today, queueVars, hand, snap, connected, faults,
                   histVars>>

\* The position behind an exit that is sent after its entry was filled.
Position(g) ==
    IF \E l \in Exit : row[g][l] = "Filled" THEN 0 ELSE sent[g]["ENTRY"]

Exits == {l \in Exit : snap[l].status = "Created"}

\* An exit of a group whose entry stands is sent with the quantity that was
\* loaded, after the fill with no more than the position; TWS refuses the child
\* of an order that is gone.
SendExit(l) ==
    LET post == snap["ENTRY"].status = "Filled"
        q    == IF post THEN Lesser(snap[l].qty, Position(hand)) ELSE snap[l].qty IN
    /\ wpc = "work" /\ snap["ENTRY"].status # "Created" /\ l \in Exits /\ connected
    /\ IF q = 0
       THEN /\ row' = [row EXCEPT ![hand][l] = "Cancelled"]
            /\ UNCHANGED <<qty, transmitted, sent>>
       ELSE /\ \E s \in {"Submitted", "Error"} :
                /\ s = "Submitted" => sent[hand]["ENTRY"] > 0
                /\ s = "Error" => sent[hand]["ENTRY"] = 0 \/ "reject" \in Faults
                /\ row' = [row EXCEPT ![hand][l] = s] /\ Transmit(l, s, q)
            /\ qty' = IF q < snap[l].qty THEN [qty EXCEPT ![hand][l] = q] ELSE qty
    /\ snap' = [snap EXCEPT ![l].status = "none"]
    /\ KeepImport
    /\ UNCHANGED <<settled, today, queueVars, wpc, hand, connected, faults,
                   histVars>>

RoundOver == wpc' = "idle" /\ hand' = None /\ snap' = NoRows /\ serving' = FALSE

\* The group has been dealt with.
Done ==
    /\ \/ wpc = "done"
       \/ wpc = "work" /\ snap["ENTRY"].status # "Created" /\ Exits = {}
    /\ RoundOver /\ TaskDone
    /\ UNCHANGED <<dbVars, queue, backoff, requeue, envVars, due, resized>>

\* Mutant: a round that fails is not reported to the queue.
RaiseUnreported ==
    /\ wpc = "work"
    /\ Disturb("raise") \/ (~connected /\ UNCHANGED faults)
    /\ RoundOver /\ KeepImport
    /\ UNCHANGED <<dbVars, queueVars, sent, connected, due, resized>>

\* Mutant: ... or reported by the handler and once more on the way out.
RaiseReportedTwice ==
    /\ wpc = "work"
    /\ Disturb("raise") \/ (~connected /\ UNCHANGED faults)
    /\ RoundOver /\ unfinished' = unfinished - 2 /\ KeepImport
    /\ UNCHANGED <<dbVars, queue, backoff, requeue, sent, connected, due, resized>>

\* An exception, or a session lost between two orders, ends the round.
Raise ==
    /\ wpc = "work"
    /\ Disturb("raise") \/ (~connected /\ UNCHANGED faults)
    /\ RoundOver /\ TaskDone
    /\ UNCHANGED <<dbVars, queue, backoff, requeue, sent, connected, due, resized>>

Worker == \/ Get \/ Load \/ SendEntry \/ RefuseEntry \/ Done \/ Raise
          \/ \E l \in Exit : SendExit(l)

----------------------------------------------------------------------------
(* Retries and recovery put groups back.                                   *)

PutBack(g) ==
    /\ Len(queue) < QueueSize
    /\ queue' = Append(queue, g) /\ unfinished' = unfinished + 1

\* The back-off of a retry is over.
Requeue(g) ==
    /\ backoff[g] > 0 /\ PutBack(g)
    /\ backoff' = [backoff EXCEPT ![g] = @ - 1]
    /\ KeepImport
    /\ UNCHANGED <<dbVars, requeue, workerVars, envVars, histVars>>

CreatedGroups == {g \in Group : \E l \in Leg : row[g][l] = "Created"}

\* Mutant: only groups whose entry has not been sent are found.
RecoveryLoadEntries ==
    LET groups == {g \in Group : row[g]["ENTRY"] = "Created"} IN
    /\ connected /\ requeue = {} /\ groups # {}
    /\ requeue' = groups
    /\ KeepImport
    /\ UNCHANGED <<dbVars, queue, unfinished, backoff, workerVars, envVars, histVars>>

\* run_recovery, now and then or after a reconnection, finds the Created rows...
RecoveryLoad ==
    /\ connected /\ requeue = {} /\ CreatedGroups # {}
    /\ requeue' = CreatedGroups
    /\ KeepImport
    /\ UNCHANGED <<dbVars, queue, unfinished, backoff, workerVars, envVars, histVars>>

\* ... and queues their groups.
RecoveryPut(g) ==
    /\ g \in requeue /\ PutBack(g)
    /\ requeue' = requeue \ {g}
    /\ KeepImport
    /\ UNCHANGED <<dbVars, backoff, workerVars, envVars, histVars>>

----------------------------------------------------------------------------
(* TWS and the session.                                                    *)

KeepProgram == UNCHANGED <<importVars, queue, unfinished, requeue, workerVars, histVars>>

\* An order is executed; the exits of a group are one OCA group, and the trade is
\* settled once one of them is filled.
Fill(g, l) ==
    /\ row[g][l] = "Submitted" /\ sent[g][l] > 0
    /\ l \in Exit => row[g]["ENTRY"] = "Filled"
    /\ LET over == IF l = "ENTRY" THEN {}
                   ELSE {m \in Exit \ {l} : row[g][m] = "Submitted"} IN
       /\ row' = [row EXCEPT ![g] = [m \in Leg |->
                    IF m = l THEN "Filled" ELSE IF m \in over THEN "Cancelled" ELSE @[m]]]
       /\ sent' = [sent EXCEPT ![g] = [m \in Leg |-> IF m \in over THEN 0 ELSE @[m]]]
    /\ settled' = IF l \in Exit THEN settled \cup {g} ELSE settled
    /\ UNCHANGED <<qty, transmitted, today, backoff, connected, faults>>
    /\ KeepProgram

\* An order is over without an execution; its attached children go with it.
Lose(g, l, s) ==
    LET over == IF l # "ENTRY" THEN {} ELSE {m \in Exit : row[g][m] = "Submitted"} IN
    /\ row[g][l] = "Submitted"
    /\ row' = [row EXCEPT ![g] = [m \in Leg |->
                 IF m = l THEN s ELSE IF m \in over THEN "Cancelled" ELSE @[m]]]
    /\ sent' = [sent EXCEPT ![g] = [m \in Leg |-> IF m \in over \cup {l} THEN 0 ELSE @[m]]]

\* TWS or somebody ends an order for good, or refuses it with a RETRIABLE code:
\* then the retry handler sets it back to Created and sleeps for the back-off.
OrderOver(g, l) ==
    /\ \/ "reject" \in Faults /\ (\E s \in {"Error", "Cancelled"} : Lose(g, l, s))
          /\ UNCHANGED <<backoff, faults>>
       \/ Disturb("bounce") /\ Lose(g, l, "Created")
          /\ backoff' = [backoff EXCEPT ![g] = @ + 1]
    /\ UNCHANGED <<qty, transmitted, settled, today, connected>>
    /\ KeepProgram

Connect ==
    /\ ~connected /\ connected' = TRUE
    /\ UNCHANGED <<dbVars, backoff, sent, faults>> /\ KeepProgram

Disconnect ==
    /\ connected /\ Disturb("cut") /\ connected' = FALSE
    /\ UNCHANGED <<dbVars, backoff, sent>> /\ KeepProgram

\* The process dies, or is shut down: graceful_shutdown cancels importer and
\* worker before it waits for the queue.  The tables, the files and TWS remain.
Crash ==
    /\ Disturb("crash") /\ connected' = FALSE
    /\ UNCHANGED files /\ ImportOver
    /\ queue' = <<>> /\ unfinished' = 0 /\ requeue' = {}
    /\ backoff' = [g \in Group |-> 0]
    /\ RoundOver /\ due' = {}
    /\ UNCHANGED <<dbVars, sent, resized>>

Next ==
    \/ Import \/ Worker \/ RecoveryLoad \/ Connect \/ Disconnect \/ Crash
    \/ \E g \in Group :
        \/ Requeue(g) \/ RecoveryPut(g)
        \/ \E l \in Leg : Fill(g, l) \/ OrderOver(g, l)

Spec == Init /\ [][Next]_vars

\* The program's coroutines are scheduled fairly, retries wake up, recovery runs
\* go on (every 300 s) and a session is set up again.  TWS and faults are not fair.
FairSpec ==
    /\ Spec
    /\ WF_vars(Import) /\ WF_vars(Worker) /\ WF_vars(Connect)
    /\ WF_vars(RecoveryLoad)
    /\ \A g \in Group : WF_vars(Requeue(g)) /\ WF_vars(RecoveryPut(g))

----------------------------------------------------------------------------
(* Properties.                                                             *)

\* The entries of one file together cost no more than the account can carry,
\* whatever their order, however AvailableFunds changes between two of them and
\* however limits are rounded (BatchCashBudget; entries without a price are not
\* counted by the code).
BudgetKept == allocated * FactorDen <= MaxFunds * Greater(FactorNum, FactorDen)

\* A file is archived only after the worker has been through every group that was
\* queued from it: queue.join() counts right although retries and recovery runs
\* put groups on the same queue and rounds end with an exception.
ArchivedIsProcessed ==
    [][Archive => imported \cap due = {} /\ ~serving]_vars

\* No exit is at TWS for more than its entry: standalone exits follow the quantity
\* the sizing gave the entry, not the one of the file.  A group that is imported a
\* second time while its entry is under way is sized again (see FindOversold), and
\* so is one whose second import leaves an unsent exit out.
ExitsCovered ==
    \A g \in Group \ resized : \A l \in Exit : sent[g][l] <= sent[g]["ENTRY"]

\* Every file leaves the inbox, through crashes, retries and rounds that fail.
FilesArchived == <>(\A f \in File : files[f] # "inbox")

\* A file counts as successful if all its groups were sent without an error
\* (doc/csv_interface.md:138).
BakMeansSent ==
    [][\A f \in File : files[f] = "inbox" /\ files'[f] = "bak" =>
          \A i \in DOMAIN Content[f] : \A l \in Content[f][i].legs :
              row[Content[f][i].group][l] \notin {"none", "Created", "Error"}]_vars

\* No exit is at TWS for more than its entry, brackets that are imported again
\* included.
NeverOversold ==
    \A g \in Group : \A l \in Exit : sent[g][l] <= sent[g]["ENTRY"]

\* Every imported leg is sent or given up, even if the process dies after the rows
\* were written and before the group was queued.
ImportedIsHandled ==
    \A g \in Group : g \in CreatedGroups ~> g \notin CreatedGroups
=============================================================================
