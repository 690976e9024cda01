------------------------------ MODULE Settlement ------------------------------
(***************************************************************************)
(* How a trade group is settled: executions and commission reports of TWS  *)
(* are written to the table `executions` (callbacks.py), the fill of an    *)
(* exit, a recovery run (recovery.py) and the daily Flex statement         *)
(* (flex_query/service.py) start a settlement (settlement.py), which reads *)
(* the executions and inserts one row into trades_settlement.              *)
(*                                                                         *)
(* The figures of a settlement are a function of the execution rows it has *)
(* read, so a settlement is represented by those rows.  The callback tasks *)
(* are coroutines: a step is the code between two awaits, a transaction is *)
(* atomic.  Orders at TWS are OrderLifecycle's subject: here an order is   *)
(* only filled, execution by execution.                                    *)
(***************************************************************************)
EXTENDS Naturals, FiniteSets

CONSTANTS
    EntryFill,       \* the executions of the ENTRY order at TWS
    ExitFill,        \* the executions of the exit order
    ExitRole,        \* the exit's bracket_role: "EXIT", or "SL" for SL and TP
    MaxTries,        \* attempts of _update_commission (5 in the code)
    MaxSettlements,  \* bound on the settlement tasks of one process life
    MaxRecoveries,   \* bound on the periodic recovery runs
    MaxOutages,      \* bound on crashes
    Faults           \* what the environment may do

AllFaults ==
    {"commission",   \* commission reports arrive
     "crash",        \* the process dies and is started again
     "oldFills",     \* after a restart TWS no longer lists the earlier fills
     "cancelled",    \* the ENTRY row is set to Cancelled (CancelledIsDead of
                     \* OrderLifecycle shows that the order may still be filled)
     "flex",         \* the Flex statement is fetched
     "tradeID"}      \* the statement names trades by tradeID, not by execution id

ASSUME SettlementAssumption ==
    /\ IsFiniteSet(EntryFill) /\ IsFiniteSet(ExitFill)
    /\ EntryFill # {} /\ ExitFill # {} /\ EntryFill \cap ExitFill = {}
    /\ ExitRole \in {"EXIT", "SL"}
    /\ MaxTries \in Nat /\ MaxSettlements \in Nat
    /\ MaxRecoveries \in Nat /\ MaxOutages \in Nat
    /\ Faults \subseteq AllFaults

Role == {"ENTRY", "EXIT"}
Fill == EntryFill \cup ExitFill
FillsOf(r) == IF r = "ENTRY" THEN EntryFill ELSE ExitFill

\* exec_id: the one of TWS, RECOVERED_<order_id>, or a tradeID of the statement.
Exec == ({"tws", "tradeID"} \X Fill) \cup ({"recovered"} \X Role)
ExecsOf(r) == ({"tws", "tradeID"} \X FillsOf(r)) \cup {<<"recovered", r>>}

\* An execution row: absent, with commission NULL or 0, or with its commission.
RowState == {"none", "free", "charged"}
Status   == {"Submitted", "Filled", "Cancelled"}

\* Settlements in progress.  0 is the one inside the Flex synchronisation, which
\* runs in its own coroutine and takes no lock; a lock is named by its creator.
Flex    == 0
Task    == 1..MaxSettlements
Settler == {Flex} \cup Task
NoLock  == 0

VARIABLES
    \* TWS: executions done, commissions reported
    done, fees,
    \* the tables: orders.status, executions, trades_settlement (a set: at most
    \* one row with the group's primary key)
    status, rows, settlement,
    \* callback tasks: _save_execution before and after its checks,
    \* _update_commission's remaining attempts, Filled events, orders whose
    \* fill is being notified
    arrived, checked, tries, told, notices,
    \* ib.fills() of the session
    known,
    \* settlement tasks: place, rows read, lock; SETTLEMENT_LOCKS[group];
    \* tasks started in this process life; messages sent
    pc, snap, lock, slot, started, reports,
    \* the recovery run: place, filled orders left, the one in hand, executions
    \* of it left to save
    rpc, rLeft, rCur, rFills, recoveries,
    \* the Flex synchronisation: place, and what it read of the group
    fpc, fSettled, fCancelled,
    up, outages

brokerVars == <<done, fees>>
dbVars     == <<status, rows, settlement>>
taskVars   == <<arrived, checked, tries, told, notices, known>>
settleVars == <<pc, snap, lock, slot, started, reports>>
recVars    == <<rpc, rLeft, rCur, rFills, recoveries>>
flexVars   == <<fpc, fSettled, fCancelled>>
sessVars   == <<up, outages>>
vars == <<brokerVars, dbVars, taskVars, settleVars, recVars, flexVars, sessVars>>

NoRows == [e \in Exec |-> "none"]

\* The places of a settlement that holds the group's lock.
Inside == {"check", "fetch", "save", "notify", "release"}

\* The types; the attempts of _update_commission run out at zero.
TypeOK ==
    /\ done \subseteq Fill /\ fees \subseteq done
    /\ status \in [Role -> Status]
    /\ rows \in [Exec -> RowState]
    /\ settlement \subseteq [Exec -> RowState]
    /\ arrived \subseteq Fill /\ checked \subseteq Fill /\ known \subseteq Fill
    /\ tries \in [Fill -> 0..MaxTries]
    /\ told \subseteq Role /\ notices \subseteq Role
    /\ pc \in [Settler -> {"idle", "get", "wait", "pop"} \cup Inside]
    /\ snap \in [Settler -> [Exec -> RowState]]
    /\ lock \in [Settler -> Settler] /\ slot \in Settler
    /\ started \in 0..MaxSettlements /\ reports \in Nat
    /\ rpc \in {"off", "work", "check", "save"}
    /\ rLeft \subseteq Role /\ rCur \in Role /\ rFills \subseteq Fill
    /\ recoveries \in 0..MaxRecoveries
    /\ fpc \in {"off", "match", "book"}
    /\ fSettled \in BOOLEAN /\ fCancelled \in BOOLEAN
    /\ up \in BOOLEAN /\ outages \in 0..MaxOutages

Complete(r) == FillsOf(r) \subseteq done

\* A group whose bracket has been sent.
Init ==
    /\ done = {} /\ fees = {}
    /\ status = [r \in Role |-> "Submitted"]
    /\ rows = NoRows /\ settlement = {}
    /\ arrived = {} /\ checked = {} /\ tries = [f \in Fill |-> 0]
    /\ told = {} /\ notices = {} /\ known = {}
    /\ pc = [s \in Settler |-> "idle"] /\ snap = [s \in Settler |-> NoRows]
    /\ lock = [s \in Settler |-> NoLock] /\ slot = NoLock
    /\ started = 0 /\ reports = 0
    /\ rpc = "off" /\ rLeft = {} /\ rCur = "ENTRY" /\ rFills = {} /\ recoveries = 0
    /\ fpc = "off" /\ fSettled = FALSE /\ fCancelled = FALSE
    /\ up = TRUE /\ outages = 0

----------------------------------------------------------------------------
(* TWS: events of a session that is down are lost.                         *)

\* An execution: execDetails, and with the order's last one the status Filled.
Execute(f) ==
    /\ f \in Fill \ done
    /\ f \in ExitFill => Complete("ENTRY")
    /\ done' = done \cup {f}
    /\ IF up
       THEN /\ arrived' = arrived \cup {f} /\ known' = known \cup {f}
            /\ told' = told \cup {r \in Role : f \in FillsOf(r)
                                      /\ FillsOf(r) \subseteq done \cup {f}}
       ELSE UNCHANGED <<arrived, known, told>>
    /\ UNCHANGED <<fees, dbVars, checked, tries, notices, settleVars, recVars,
                   flexVars, sessVars>>

\* commissionReport
Charge(f) ==
    /\ "commission" \in Faults /\ f \in done \ fees
    /\ fees' = fees \cup {f}
    /\ tries' = IF up THEN [tries EXCEPT ![f] = MaxTries] ELSE tries
    /\ UNCHANGED <<done, dbVars, arrived, checked, told, notices, known,
                   settleVars, recVars, flexVars, sessVars>>

----------------------------------------------------------------------------
(* The callbacks.                                                          *)

\* INSERT OR IGNORE INTO executions
Inserted(e, s) == IF rows[e] = "none" THEN [rows EXCEPT ![e] = s] ELSE rows

\* _save_execution up to its checks: no exit is booked on a cancelled entry.
CheckExecution(f) ==
    /\ f \in arrived
    /\ arrived' = arrived \ {f}
    /\ checked' = IF f \in ExitFill /\ status["ENTRY"] = "Cancelled"
                  THEN checked ELSE checked \cup {f}
    /\ UNCHANGED <<brokerVars, dbVars, tries, told, notices, known, settleVars,
                   recVars, flexVars, sessVars>>

SaveExecution(f) ==
    /\ f \in checked
    /\ checked' = checked \ {f}
    /\ rows' = Inserted(<<"tws", f>>, "free")
    /\ UNCHANGED <<brokerVars, status, settlement, arrived, tries, told, notices,
                   known, settleVars, recVars, flexVars, sessVars>>

\* Mutant: the attempts are not counted.
UpdateCommissionForever(f) ==
    /\ f \in fees
    /\ IF rows[<<"tws", f>>] = "none"
       THEN tries' = [tries EXCEPT ![f] = @ - 1] /\ UNCHANGED rows
       ELSE /\ tries' = [tries EXCEPT ![f] = 0]
            /\ rows' = [rows EXCEPT ![<<"tws", f>>] = "charged"]
    /\ UNCHANGED <<brokerVars, status, settlement, arrived, checked, told,
                   notices, known, settleVars, recVars, flexVars, sessVars>>

\* _try_update_commission_attempt
UpdateCommission(f) ==
    /\ tries[f] > 0
    /\ IF rows[<<"tws", f>>] = "none"
       THEN tries' = [tries EXCEPT ![f] = @ - 1] /\ UNCHANGED rows
       ELSE /\ tries' = [tries EXCEPT ![f] = 0]
            /\ rows' = [rows EXCEPT ![<<"tws", f>>] = "charged"]
    /\ UNCHANGED <<brokerVars, status, settlement, arrived, checked, told,
                   notices, known, settleVars, recVars, flexVars, sessVars>>

\* _process_status_change with a Filled event; terminal rows are not touched.
ProcessFilled(r) ==
    /\ r \in told
    /\ told' = told \ {r}
    /\ IF status[r] = "Submitted"
       THEN /\ status' = [status EXCEPT ![r] = "Filled"]
            /\ notices' = notices \cup {r}
       ELSE UNCHANGED <<status, notices>>
    /\ UNCHANGED <<brokerVars, rows, settlement, arrived, checked, tries, known,
                   settleVars, recVars, flexVars, sessVars>>

\* create_task(trigger_settlement(...))
Trigger ==
    /\ started < MaxSettlements
    /\ started' = started + 1
    /\ pc' = [pc EXCEPT ![started + 1] = "get"]
    /\ UNCHANGED <<snap, lock, slot, reports>>

\* _handle_filled_status: after the notification only an exit is settled.
HandleFilled(r) ==
    /\ r \in notices
    /\ notices' = notices \ {r}
    /\ IF r = "EXIT" THEN Trigger ELSE UNCHANGED settleVars
    /\ UNCHANGED <<brokerVars, dbVars, arrived, checked, tries, told, known,
                   recVars, flexVars, sessVars>>

\* The ENTRY row is cancelled by a status event, an error or a ghost verdict.
CancelEntry ==
    /\ "cancelled" \in Faults /\ up /\ status["ENTRY"] = "Submitted"
    /\ status' = [status EXCEPT !["ENTRY"] = "Cancelled"]
    /\ UNCHANGED <<brokerVars, rows, settlement, taskVars, settleVars, recVars,
                   flexVars, sessVars>>

----------------------------------------------------------------------------
(* settlement.py.  Tasks go through the lock, the Flex run enters at Check. *)

KeepAll == UNCHANGED <<brokerVars, status, rows, taskVars, started, recVars,
                       flexVars, sessVars>>

\* get_settlement_lock
GetLock(s) ==
    /\ pc[s] = "get"
    /\ slot' = IF slot = NoLock THEN s ELSE slot
    /\ lock' = [lock EXCEPT ![s] = slot']
    /\ pc' = [pc EXCEPT ![s] = "wait"]
    /\ UNCHANGED <<settlement, snap, reports>> /\ KeepAll

\* Mutant: the lock is looked up again and must still be the group's.
AcquireListed(s) ==
    /\ pc[s] = "wait" /\ slot = lock[s]
    /\ \A t \in Task : pc[t] \in Inside => lock[t] # lock[s]
    /\ pc' = [pc EXCEPT ![s] = "check"]
    /\ UNCHANGED <<settlement, snap, lock, slot, reports>> /\ KeepAll

Acquire(s) ==
    /\ pc[s] = "wait"
    /\ \A t \in Task : pc[t] \in Inside => lock[t] # lock[s]
    /\ pc' = [pc EXCEPT ![s] = "check"]
    /\ UNCHANGED <<settlement, snap, lock, slot, reports>> /\ KeepAll

\* _has_existing_settlement
Check(s) ==
    /\ pc[s] = "check"
    /\ pc' = [pc EXCEPT ![s] = IF settlement = {} THEN "fetch" ELSE "release"]
    /\ UNCHANGED <<settlement, snap, lock, slot, reports>> /\ KeepAll

\* Mutant: executions of the entry are enough.
FetchOneSide(s) ==
    /\ pc[s] = "fetch"
    /\ IF \E e \in ExecsOf("ENTRY") : rows[e] # "none"
       THEN /\ snap' = [snap EXCEPT ![s] = rows]
            /\ pc' = [pc EXCEPT ![s] = "save"]
       ELSE /\ pc' = [pc EXCEPT ![s] = "release"] /\ UNCHANGED snap
    /\ UNCHANGED <<settlement, lock, slot, reports>> /\ KeepAll

BothSides == \A r \in Role : \E e \in ExecsOf(r) : rows[e] # "none"

\* _fetch_settlement_data: None unless both sides have an execution.
Fetch(s) ==
    /\ pc[s] = "fetch"
    /\ IF BothSides
       THEN /\ snap' = [snap EXCEPT ![s] = rows]
            /\ pc' = [pc EXCEPT ![s] = "save"]
       ELSE /\ pc' = [pc EXCEPT ![s] = "release"] /\ UNCHANGED snap
    /\ UNCHANGED <<settlement, lock, slot, reports>> /\ KeepAll

\* Mutants: the row is replaced; a conflict is ignored.
SaveReplacing(s) ==
    /\ pc[s] = "save"
    /\ settlement' = {snap[s]}
    /\ pc' = [pc EXCEPT ![s] = "notify"]
    /\ UNCHANGED <<snap, lock, slot, reports>> /\ KeepAll
SaveOrIgnore(s) ==
    /\ pc[s] = "save"
    /\ settlement' = IF settlement = {} THEN {snap[s]} ELSE settlement
    /\ pc' = [pc EXCEPT ![s] = "notify"]
    /\ UNCHANGED <<snap, lock, slot, reports>> /\ KeepAll

\* calculate_settlement and _save_settlement: a second row violates the primary
\* key, the exception ends the settlement.
Save(s) ==
    /\ pc[s] = "save"
    /\ IF settlement = {}
       THEN /\ settlement' = {snap[s]}
            /\ pc' = [pc EXCEPT ![s] = "notify"]
       ELSE /\ pc' = [pc EXCEPT ![s] = "release"] /\ UNCHANGED settlement
    /\ UNCHANGED <<snap, lock, slot, reports>> /\ KeepAll

\* _send_settlement_notification
Notify(s) ==
    /\ pc[s] = "notify"
    /\ reports' = reports + 1
    /\ pc' = [pc EXCEPT ![s] = "release"]
    /\ UNCHANGED <<settlement, snap, lock, slot>> /\ KeepAll

Release(s) ==
    /\ pc[s] = "release"
    /\ pc' = [pc EXCEPT ![s] = IF s = Flex THEN "idle" ELSE "pop"]
    /\ snap' = [snap EXCEPT ![s] = NoRows]
    /\ UNCHANGED <<settlement, lock, slot, reports>> /\ KeepAll

\* cleanup_settlement_lock: whatever lock is there, and whoever waits for it.
PopLock(s) ==
    /\ pc[s] = "pop"
    /\ slot' = NoLock
    /\ pc' = [pc EXCEPT ![s] = "idle"]
    /\ UNCHANGED <<settlement, snap, lock, reports>> /\ KeepAll

Settle(s) == \/ GetLock(s) \/ Acquire(s) \/ Check(s) \/ Fetch(s) \/ Save(s)
             \/ Notify(s) \/ Release(s) \/ PopLock(s)

----------------------------------------------------------------------------
(* run_recovery, as far as it concerns filled orders.                      *)

\* The rows loaded as pending whose order TWS lists as completed and filled.
MissedFills == {r \in Role : status[r] = "Submitted" /\ Complete(r)}

RecoveryStart ==
    /\ up /\ rpc = "off" /\ recoveries < MaxRecoveries
    /\ recoveries' = recoveries + 1
    /\ rpc' = "work" /\ rLeft' = MissedFills
    /\ UNCHANGED <<brokerVars, dbVars, taskVars, settleVars, rCur, rFills,
                   flexVars, sessVars>>

\* _handle_filled_during_downtime
RecoverFilled(r) ==
    /\ rpc = "work" /\ r \in rLeft
    /\ status' = [status EXCEPT ![r] = "Filled"]
    /\ rLeft' = rLeft \ {r} /\ rCur' = r
    /\ rpc' = "check"
    /\ UNCHANGED <<brokerVars, rows, settlement, taskVars, settleVars, rFills,
                   recoveries, flexVars, sessVars>>

\* Mutant: the fallback execution is always written.
RecoverFillsTwice ==
    /\ rpc = "check"
    /\ rFills' = known \cap FillsOf(rCur)
    /\ rows' = Inserted(<<"recovered", rCur>>, "free")
    /\ rpc' = "save"
    /\ UNCHANGED <<brokerVars, status, settlement, taskVars, settleVars, rLeft,
                   rCur, recoveries, flexVars, sessVars>>

\* _save_missing_executions: the session's fills, or the fallback execution.
RecoverFills ==
    /\ rpc = "check"
    /\ LET orphan == rCur = "EXIT" /\ status["ENTRY"] = "Cancelled"
           found == known \cap FillsOf(rCur)
       IN /\ rFills' = IF orphan THEN {} ELSE found
          /\ rows' = IF orphan \/ found # {} THEN rows
                     ELSE Inserted(<<"recovered", rCur>>, "free")
    /\ rpc' = "save"
    /\ UNCHANGED <<brokerVars, status, settlement, taskVars, settleVars, rLeft,
                   rCur, recoveries, flexVars, sessVars>>

RecoverExecution(f) ==
    /\ rpc = "save" /\ f \in rFills
    /\ rows' = Inserted(<<"tws", f>>, IF f \in fees THEN "charged" ELSE "free")
    /\ rFills' = rFills \ {f}
    /\ UNCHANGED <<brokerVars, status, settlement, taskVars, settleVars, rpc,
                   rLeft, rCur, recoveries, flexVars, sessVars>>

\* The settlement task is created for entries too.
RecoverSettlement ==
    /\ rpc = "save" /\ rFills = {}
    /\ Trigger
    /\ rpc' = "work"
    /\ UNCHANGED <<brokerVars, dbVars, taskVars, rLeft, rCur, rFills, recoveries,
                   flexVars, sessVars>>

RecoveryDone ==
    /\ rpc = "work" /\ rLeft = {}
    /\ rpc' = "off" /\ rCur' = "ENTRY"
    /\ UNCHANGED <<brokerVars, dbVars, taskVars, settleVars, rLeft, rFills,
                   recoveries, flexVars, sessVars>>

RunRecovery ==
    \/ \E r \in Role : RecoverFilled(r)
    \/ RecoverFills \/ RecoverSettlement \/ RecoveryDone
    \/ \E f \in Fill : RecoverExecution(f)

----------------------------------------------------------------------------
(* FlexReconciliationService.reconcile_from_xml, for the trade that closed  *)
(* the group; its quantity fits the group's only if it is the exit's single *)
(* execution (match_flex_trades, "Invariante 2").                           *)

\* fetch_historical_trades
FlexRead ==
    /\ "flex" \in Faults /\ up /\ fpc = "off" /\ pc[Flex] = "idle"
    /\ Cardinality(ExitFill) = 1 /\ Complete("EXIT")
    /\ \/ status["ENTRY"] # "Cancelled" \/ settlement # {}
       \/ \E e \in ExecsOf("ENTRY") : rows[e] # "none"
    /\ fSettled' = (settlement # {})
    /\ fCancelled' = (status["ENTRY"] = "Cancelled")
    /\ fpc' = "match"
    /\ UNCHANGED <<brokerVars, dbVars, taskVars, settleVars, recVars, sessVars>>

\* The execution id the statement gives the trade: tradeID or ibExecutionID.
FlexExecs == {<<IF "tradeID" \in Faults THEN "tradeID" ELSE "tws", x>> : x \in ExitFill}

\* match_flex_trades: MISSING_EXIT or nothing to do.  The position is closed.
FlexMatch ==
    /\ fpc = "match"
    /\ fpc' = IF \/ \E e \in FlexExecs : rows[e] # "none"
                 \/ fSettled \/ fCancelled
              THEN "off" ELSE "book"
    /\ UNCHANGED <<brokerVars, dbVars, taskVars, settleVars, recVars, fSettled,
                   fCancelled, sessVars>>

\* The transaction of reconcile_trades; then settle_trade_group.  A SL or TP is
\* cancelled, an EXIT row becomes the filled order, else a synthetic one is added.
FlexBook ==
    /\ fpc = "book"
    /\ status' = [status EXCEPT !["EXIT"] = IF ExitRole = "EXIT" THEN "Filled"
                       ELSE IF @ = "Submitted" THEN "Cancelled" ELSE @]
    /\ rows' = [e \in Exec |-> IF e \in FlexExecs /\ rows[e] = "none" THEN "charged"
                               ELSE rows[e]]
    /\ fpc' = "off" /\ pc' = [pc EXCEPT ![Flex] = "check"]
    /\ UNCHANGED <<brokerVars, settlement, taskVars, snap, lock, slot, started,
                   reports, recVars, fSettled, fCancelled, sessVars>>

FlexSync == FlexRead \/ FlexMatch \/ FlexBook

----------------------------------------------------------------------------

\* The tables survive.
Crash ==
    /\ "crash" \in Faults /\ up /\ outages < MaxOutages
    /\ up' = FALSE /\ outages' = outages + 1
    /\ arrived' = {} /\ checked' = {} /\ tries' = [f \in Fill |-> 0]
    /\ told' = {} /\ notices' = {} /\ known' = {}
    /\ pc' = [s \in Settler |-> "idle"] /\ snap' = [s \in Settler |-> NoRows]
    /\ lock' = [s \in Settler |-> NoLock] /\ slot' = NoLock /\ started' = 0
    /\ rpc' = "off" /\ rLeft' = {} /\ rCur' = "ENTRY" /\ rFills' = {}
    /\ fpc' = "off" /\ fSettled' = FALSE /\ fCancelled' = FALSE
    /\ UNCHANGED <<brokerVars, dbVars, reports, recoveries>>

\* The session is set up and recovery starts; ib.fills() is asked for again.
Restart ==
    /\ ~up /\ up' = TRUE
    /\ known' \in {done} \cup (IF "oldFills" \in Faults THEN {{}} ELSE {})
    /\ rpc' = "work" /\ rLeft' = MissedFills
    /\ UNCHANGED <<brokerVars, dbVars, arrived, checked, tries, told, notices,
                   settleVars, rCur, rFills, recoveries, flexVars, outages>>

Callbacks(f) == CheckExecution(f) \/ SaveExecution(f) \/ UpdateCommission(f)
Statuses(r)  == ProcessFilled(r) \/ HandleFilled(r)

Next ==
    \/ \E f \in Fill : Execute(f) \/ Charge(f) \/ Callbacks(f)
    \/ \E r \in Role : Statuses(r)
    \/ CancelEntry \/ Crash \/ Restart
    \/ \E s \in Settler : Settle(s)
    \/ RecoveryStart \/ RunRecovery \/ FlexSync

Spec == Init /\ [][Next]_vars

\* The event loop runs every ready task and the Flex loop comes round every day;
\* nothing is assumed of TWS.
FairSpec ==
    /\ Spec
    /\ \A f \in Fill : WF_vars(Callbacks(f))
    /\ \A r \in Role : WF_vars(Statuses(r))
    /\ \A s \in Settler : WF_vars(Settle(s))
    /\ WF_vars(RunRecovery) /\ WF_vars(FlexSync) /\ WF_vars(Restart)

----------------------------------------------------------------------------
(* Properties.                                                             *)

\* A settlement, once recorded, is neither replaced nor joined by a second one,
\* though locks are dropped while tasks wait for them (cleanup_settlement_lock)
\* and the Flex synchronisation takes none.
SettledOnce == [][settlement # {} => settlement' = settlement]_vars

\* Telegram reports a group's settlement at most once, and only the recorded one
\* (_send_settlement_notification follows a successful insert).
ReportedOnce ==
    /\ reports <= 1
    /\ \A s \in Settler :
          pc[s] = "notify" => reports = 0 /\ settlement = {snap[s]}

\* A group is settled only when its position is closed: entry and exit have been
\* filled completely (settle_trade_group is started for entries as well).
SettledWhenClosed == settlement # {} => done = Fill

\* An execution is booked once: not again under a RECOVERED_ id
\* (_save_missing_executions) or under the id of the Flex statement.
BookedOnce ==
    \A r \in Role : \A f \in FillsOf(r) :
        Cardinality({e \in {<<"tws", f>>, <<"tradeID", f>>, <<"recovered", r>>} :
                        rows[e] # "none"}) <= 1

\* Nothing of the program is running or waiting.
Quiet ==
    /\ up /\ arrived = {} /\ checked = {} /\ told = {} /\ notices = {}
    /\ \A f \in Fill : tries[f] = 0
    /\ \A s \in Settler : pc[s] = "idle"
    /\ rpc = "off" /\ fpc = "off"

\* Once everything has been processed a settlement accounts for every execution
\* and every commission the tables hold.
SettlementIsComplete == Quiet /\ settlement # {} => settlement = {rows}

\* Every settlement task ends, whichever locks were dropped under it, and a Flex
\* run is not held up by one.
SettlersFinish == \A s \in Settler : pc[s] # "idle" ~> pc[s] = "idle"

\* A trade whose exit is completely filled is settled in the end.
ExitIsSettled == Complete("EXIT") ~> settlement # {}

----------------------------------------------------------------------------
(* The inductive invariants behind SettledWhenClosed, ReportedOnce and      *)
(* BookedOnce.                                                              *)

\* Events, fills and recovered orders are of executions that took place.
EventsAreReal ==
    /\ arrived \cup checked \cup known \cup rFills \subseteq done
    /\ \A r \in rLeft : Complete(r)
    /\ rpc = "check" => Complete(rCur)
    /\ fpc # "off" => Complete("EXIT")

\* What presupposes that the exit has been executed, at least in part.
ExitSold == ExitFill \cap done # {}
ExitIsReal ==
    /\ ExitSold => Complete("ENTRY")
    /\ (\E e \in ExecsOf("EXIT") : rows[e] # "none") => ExitSold
    /\ (\E s \in Settler : pc[s] = "save") => ExitSold
    /\ settlement # {} => ExitSold

\* The settlement about to be reported is the recorded one, and only one task
\* is about to report it.
ReportsFollow ==
    /\ ReportedOnce
    /\ settlement = {} => reports = 0
    /\ \A s, t \in Settler : pc[s] = "notify" /\ pc[t] = "notify" => s = t

\* The inductive invariant behind SettledWhenClosed and ReportedOnce.
SettleInv == TypeOK /\ EventsAreReal /\ ExitIsReal /\ ReportsFollow

\* While TWS lists all fills and ids are those of TWS, nothing else is booked.
KnownIsDone == (up => known = done) /\ (rpc # "off" => up)
OnlyTwsRows == \A e \in Exec : rows[e] # "none" => e[1] = "tws"
==============================================================================
