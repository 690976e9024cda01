---------------------------- MODULE SettlementProof ----------------------------
(***************************************************************************)
(* Theorems about Settlement for any executions, any number of settlement  *)
(* tasks and any combination of disturbances.                              *)
(***************************************************************************)
EXTENDS Settlement, FiniteSetTheorems, TLAPS

USE SettlementAssumption

\* The Flex run and the tasks are settlers, and a new task has a number.
LEMMA Settlers == /\ Flex \in Settler /\ NoLock \in Settler
                  /\ Task \subseteq Settler
                  /\ \A n \in 0..MaxSettlements : n < MaxSettlements => n + 1 \in Task
  BY DEF Flex, NoLock, Task, Settler

\* The execution rows by the order they belong to.
LEMMA Execs ==
  /\ \A f \in Fill : <<"tws", f>> \in Exec
  /\ \A r \in Role : <<"recovered", r>> \in Exec
  /\ \A r \in Role : FillsOf(r) \subseteq Fill
  /\ FlexExecs \subseteq Exec
  BY DEF Exec, FillsOf, Fill, FlexExecs

\* The types, without and with the Boolean variables.
TypeData ==
    /\ done \subseteq Fill /\ fees \subseteq done
    /\ status \in [Role -> Status]
    /\ rows \in [Exec -> RowState]
    /\ settlement \subseteq [Exec -> RowState]
    /\ arrived \subseteq Fill /\ checked \subseteq Fill /\ known \subseteq Fill
    /\ tries \in [Fill -> 0..MaxTries]
    /\ told \subseteq Role /\ notices \subseteq Role
    /\ pc \in [Settler -> {"idle", "get", "wait", "pop"} \cup Inside]
    /\ snap \in [Settler -> [Exec -> RowState]]
    /\ lock \in [Settler -> Settler] /\ slot \in Settler
    /\ started \in 0..MaxSettlements /\ reports \in Nat
    /\ rpc \in {"off", "work", "check", "save"}
    /\ rLeft \subseteq Role /\ rCur \in Role /\ rFills \subseteq Fill
    /\ recoveries \in 0..MaxRecoveries
    /\ fpc \in {"off", "match", "book"}
    /\ outages \in 0..MaxOutages
TypeFlags == fSettled \in BOOLEAN /\ fCancelled \in BOOLEAN /\ up \in BOOLEAN

\* The type invariant, split for the provers into data and Booleans.
LEMMA TypeParts == TypeOK <=> TypeData /\ TypeFlags
  BY Zenon DEF TypeOK, TypeData, TypeFlags

\* The data has its types in the initial state.
LEMMA InitData == Init => TypeData
  BY Settlers DEF Init, TypeData, NoRows, Status, RowState, Inside, Role

\* The Booleans have their types in the initial state.
LEMMA InitFlags == Init => TypeFlags
  BY Zenon DEF Init, TypeFlags

\* INSERT OR IGNORE leaves a table of executions.
LEMMA InsertedType ==
  ASSUME rows \in [Exec -> RowState], NEW e \in Exec, NEW s \in RowState
  PROVE  Inserted(e, s) \in [Exec -> RowState]
  BY DEF Inserted

\* Every step keeps the types of the Booleans.
LEMMA NextFlags == TypeFlags /\ [Next]_vars => TypeFlags'
  <1> SUFFICES ASSUME TypeFlags, [Next]_vars PROVE TypeFlags'
    OBVIOUS
  <1> USE DEF TypeFlags, vars, brokerVars, dbVars, taskVars, settleVars, recVars,
              flexVars, sessVars
  <1>1. CASE UNCHANGED vars
    BY <1>1, Zenon
  <1>2. ASSUME NEW f \in Fill, Execute(f) \/ Charge(f) \/ Callbacks(f)
        PROVE  TypeFlags'
    BY <1>2, Zenon DEF Execute, Charge, Callbacks, CheckExecution, SaveExecution,
                       UpdateCommission
  <1>3. ASSUME NEW r \in Role, Statuses(r) PROVE TypeFlags'
    BY <1>3, Zenon DEF Statuses, ProcessFilled, HandleFilled
  <1>4. CASE CancelEntry \/ Crash \/ Restart
    BY <1>4, Zenon DEF CancelEntry, Crash, Restart
  <1>5. ASSUME NEW s \in Settler, Settle(s) PROVE TypeFlags'
    BY <1>5, Zenon DEF Settle, GetLock, Acquire, Check, Fetch, Save, Notify,
                       Release, PopLock, KeepAll
  <1>6. CASE RecoveryStart \/ RunRecovery
    BY <1>6, Zenon DEF RecoveryStart, RunRecovery, RecoverFilled, RecoverFills,
                       RecoverSettlement, RecoveryDone, RecoverExecution
  <1>7. CASE FlexSync
    BY <1>7, Zenon DEF FlexSync, FlexRead, FlexMatch, FlexBook
  <1> QED
    BY <1>1, <1>2, <1>3, <1>4, <1>5, <1>6, <1>7, Zenon DEF Next

\* A new settlement task keeps the types.
LEMMA TriggerType ==
  ASSUME TypeData, Trigger
  PROVE  /\ started' \in 0..MaxSettlements
         /\ pc' \in [Settler -> {"idle", "get", "wait", "pop"} \cup Inside]
         /\ UNCHANGED <<snap, lock, slot, reports>>
  <1>1. started + 1 \in Task /\ started + 1 \in 0..MaxSettlements
    BY DEF Trigger, TypeData, Task
  <1> QED
    BY <1>1, Settlers DEF Trigger, TypeData

\* The settlement tasks keep the types.
LEMMA SettleData ==
  ASSUME TypeData, NEW s \in Settler, Settle(s)
  PROVE  TypeData'
  <1> USE Settlers DEF TypeData, Inside, KeepAll, brokerVars, taskVars, recVars,
                       flexVars, sessVars
  <1>1. CASE GetLock(s)
    BY <1>1 DEF GetLock
  <1>2. CASE Acquire(s)
    BY <1>2 DEF Acquire
  <1>3. CASE Check(s)
    BY <1>3 DEF Check
  <1>4. CASE Fetch(s)
    <2>1. UNCHANGED <<settlement, lock, slot, reports>> /\ KeepAll
      BY <1>4 DEF Fetch
    <2>2. CASE BothSides
      <3>1. pc' = [pc EXCEPT ![s] = "save"] /\ snap' = [snap EXCEPT ![s] = rows]
        BY <1>4, <2>2 DEF Fetch
      <3>2. snap' \in [Settler -> [Exec -> RowState]]
        BY <3>1
      <3> QED
        BY <2>1, <3>1, <3>2
    <2>3. CASE ~BothSides
      BY <1>4, <2>1, <2>3 DEF Fetch
    <2> QED
      BY <2>2, <2>3
  <1>5. CASE Save(s)
    BY <1>5 DEF Save
  <1>6. CASE Notify(s)
    BY <1>6 DEF Notify
  <1>7. CASE Release(s)
    BY <1>7 DEF Release, NoRows, RowState
  <1>8. CASE PopLock(s)
    BY <1>8 DEF PopLock
  <1> QED
    BY <1>1, <1>2, <1>3, <1>4, <1>5, <1>6, <1>7, <1>8 DEF Settle

\* The recovery run keeps the types.
LEMMA RecoveryData == TypeData /\ (RecoveryStart \/ RunRecovery) => TypeData'
  <1> SUFFICES ASSUME TypeData, RecoveryStart \/ RunRecovery PROVE TypeData'
    OBVIOUS
  <1> USE DEF TypeData, brokerVars, dbVars, taskVars, settleVars, recVars,
              flexVars, sessVars
  <1>1. CASE RecoveryStart
    BY <1>1 DEF RecoveryStart, MissedFills
  <1>2. ASSUME NEW r \in Role, RecoverFilled(r) PROVE TypeData'
    BY <1>2 DEF RecoverFilled, Status
  <1>3. CASE RecoverFills
    <2>1. rows' \in [Exec -> RowState]
      BY <1>3, InsertedType, Execs DEF RecoverFills, RowState
    <2> QED
      BY <1>3, <2>1, Execs DEF RecoverFills
  <1>4. CASE RecoverSettlement
    BY <1>4, TriggerType DEF RecoverSettlement
  <1>5. CASE RecoveryDone
    BY <1>5 DEF RecoveryDone, Role
  <1>6. ASSUME NEW f \in Fill, RecoverExecution(f) PROVE TypeData'
    <2>1. rows' \in [Exec -> RowState]
      BY <1>6, InsertedType, Execs DEF RecoverExecution, RowState
    <2> QED
      BY <1>6, <2>1 DEF RecoverExecution
  <1> QED
    BY <1>1, <1>2, <1>3, <1>4, <1>5, <1>6 DEF RunRecovery

\* The callbacks keep the types.
LEMMA TaskData ==
  ASSUME TypeData,
         \/ \E f \in Fill : Execute(f) \/ Charge(f) \/ Callbacks(f)
         \/ \E r \in Role : Statuses(r)
  PROVE  TypeData'
  <1> USE DEF TypeData, brokerVars, dbVars, taskVars, settleVars, recVars,
              flexVars, sessVars
  <1>1. ASSUME NEW f \in Fill, Execute(f) PROVE TypeData'
    BY <1>1 DEF Execute
  <1>2. ASSUME NEW f \in Fill, Charge(f) PROVE TypeData'
    BY <1>2 DEF Charge
  <1>3. ASSUME NEW f \in Fill, CheckExecution(f) PROVE TypeData'
    BY <1>3 DEF CheckExecution
  <1>4. ASSUME NEW f \in Fill, SaveExecution(f) PROVE TypeData'
    <2>1. rows' \in [Exec -> RowState]
      BY <1>4, InsertedType, Execs DEF SaveExecution, RowState
    <2> QED
      BY <1>4, <2>1 DEF SaveExecution
  <1>5. ASSUME NEW f \in Fill, UpdateCommission(f) PROVE TypeData'
    <2>1. tries' \in [Fill -> 0..MaxTries]
      BY <1>5 DEF UpdateCommission
    <2>2. rows' \in [Exec -> RowState]
      BY <1>5, Execs DEF UpdateCommission, RowState
    <2> QED
      BY <1>5, <2>1, <2>2 DEF UpdateCommission
  <1>6. ASSUME NEW r \in Role, ProcessFilled(r) PROVE TypeData'
    BY <1>6 DEF ProcessFilled, Status
  <1>7. ASSUME NEW r \in Role, HandleFilled(r) PROVE TypeData'
    BY <1>7, TriggerType DEF HandleFilled
  <1> QED
    BY <1>1, <1>2, <1>3, <1>4, <1>5, <1>6, <1>7 DEF Callbacks, Statuses

\* Every step keeps the types of the data.
LEMMA NextData == TypeData /\ [Next]_vars => TypeData'
  <1> SUFFICES ASSUME TypeData, [Next]_vars PROVE TypeData'
    OBVIOUS
  <1> USE DEF vars, brokerVars, dbVars, taskVars, settleVars, recVars, flexVars,
              sessVars
  <1>1. CASE UNCHANGED vars
    BY <1>1 DEF TypeData
  <1>2. CASE CancelEntry
    BY <1>2 DEF TypeData, CancelEntry, Status, Role
  <1>3. CASE Crash
    BY <1>3, Settlers DEF TypeData, Crash, NoRows, RowState, Role, Inside
  <1>4. CASE Restart
    BY <1>4 DEF TypeData, Restart, MissedFills
  <1>5. CASE FlexRead \/ FlexMatch
    BY <1>5 DEF TypeData, FlexRead, FlexMatch
  <1>6. CASE FlexBook
    BY <1>6, Settlers, Execs DEF TypeData, FlexBook, Status, Role, RowState, Inside
  <1> QED
    BY <1>1, <1>2, <1>3, <1>4, <1>5, <1>6, SettleData, RecoveryData, TaskData
       DEF Next, FlexSync

\* Types of the settlement: the tables, the callback tasks, the recovery run and
\* the settlement tasks keep theirs under every interleaving.
THEOREM SettlementTypes == Spec => []TypeOK
  <1>1. Init => TypeOK
    BY InitData, InitFlags, TypeParts, Zenon
  <1>2. TypeOK /\ [Next]_vars => TypeOK'
    <2> SUFFICES ASSUME TypeOK, [Next]_vars PROVE TypeOK'
      OBVIOUS
    <2>1. TypeData' /\ TypeFlags'
      BY TypeParts, NextData, NextFlags, Zenon
    <2> QED
      BY <2>1, Zenon DEF TypeOK, TypeData, TypeFlags
  <1> QED
    BY <1>1, <1>2, PTL DEF Spec

----------------------------------------------------------------------------
(* SettleInv is inductive.                                                 *)

\* The executions of the two orders of the group.
LEMMA Sides == /\ FillsOf("ENTRY") = EntryFill /\ FillsOf("EXIT") = ExitFill
               /\ \A r \in Role : FillsOf(r) # {}
               /\ "ENTRY" \in Role /\ "EXIT" \in Role
  BY DEF FillsOf, Role

\* The invariant holds before anything has been executed.
LEMMA InitSettleInv == Init => SettleInv
  <1> SUFFICES ASSUME Init PROVE SettleInv
    OBVIOUS
  <1>1. TypeOK
    BY InitData, InitFlags, TypeParts, Zenon
  <1>2. EventsAreReal
    BY DEF Init, EventsAreReal
  <1>3. ExitIsReal
    BY DEF Init, ExitIsReal, ExitSold, NoRows, ExecsOf, Exec, FillsOf, Fill, Role
  <1>4. ReportsFollow
    BY DEF Init, ReportsFollow, ReportedOnce
  <1> QED
    BY <1>1, <1>2, <1>3, <1>4, Zenon DEF SettleInv

\* Only Execute touches what has been executed, and it only adds.
LEMMA DoneStep ==
  ASSUME [Next]_vars
  PROVE  UNCHANGED done \/ \E f \in Fill : Execute(f)
  <1> USE DEF vars, brokerVars
  <1>1. CASE UNCHANGED vars
    BY <1>1
  <1>2. ASSUME NEW f \in Fill, Charge(f) \/ Callbacks(f) PROVE UNCHANGED done
    BY <1>2 DEF Charge, Callbacks, CheckExecution, SaveExecution, UpdateCommission
  <1>3. ASSUME NEW r \in Role, Statuses(r) PROVE UNCHANGED done
    BY <1>3 DEF Statuses, ProcessFilled, HandleFilled
  <1>4. ASSUME CancelEntry \/ Crash \/ Restart PROVE UNCHANGED done
    BY <1>4 DEF CancelEntry, Crash, Restart
  <1>5. ASSUME NEW s \in Settler, Settle(s) PROVE UNCHANGED done
    BY <1>5, Zenon DEF Settle, GetLock, Acquire, Check, Fetch, Save, Notify, Release,
                       PopLock, KeepAll
  <1>6. ASSUME RecoveryStart \/ RunRecovery PROVE UNCHANGED done
    BY <1>6 DEF RecoveryStart, RunRecovery, RecoverFilled, RecoverFills,
                RecoverSettlement, RecoveryDone, RecoverExecution
  <1>7. ASSUME FlexSync PROVE UNCHANGED done
    BY <1>7 DEF FlexSync, FlexRead, FlexMatch, FlexBook
  <1> QED
    BY <1>1, <1>2, <1>3, <1>4, <1>5, <1>6, <1>7 DEF Next

\* What has been executed stays executed.
LEMMA DoneGrows ==
  ASSUME [Next]_vars
  PROVE  done \subseteq done'
  BY DoneStep DEF Execute

\* Events, fills and recovered orders stay those of real executions.
LEMMA EventsStep ==
  ASSUME TypeData, EventsAreReal, [Next]_vars
  PROVE  EventsAreReal'
  <1> USE Sides DEF EventsAreReal, Complete, vars, brokerVars, dbVars, taskVars,
                    settleVars, recVars, flexVars, sessVars
  <1>1. CASE UNCHANGED vars
    BY <1>1
  <1>2. ASSUME NEW f \in Fill, Execute(f) PROVE EventsAreReal'
    BY <1>2 DEF Execute
  <1>3. ASSUME NEW f \in Fill, Charge(f) \/ Callbacks(f) PROVE EventsAreReal'
    BY <1>3 DEF Charge, Callbacks, CheckExecution, SaveExecution, UpdateCommission
  <1>4. ASSUME NEW r \in Role, Statuses(r) PROVE EventsAreReal'
    BY <1>4 DEF Statuses, ProcessFilled, HandleFilled
  <1>5. CASE CancelEntry \/ Crash \/ Restart
    BY <1>5 DEF CancelEntry, Crash, Restart, MissedFills, TypeData
  <1>6. ASSUME NEW s \in Settler, Settle(s) PROVE EventsAreReal'
    <2>1. UNCHANGED <<brokerVars, taskVars, recVars, flexVars>>
      BY <1>6, Zenon DEF Settle, GetLock, Acquire, Check, Fetch, Save, Notify, Release,
                         PopLock, KeepAll
    <2> QED
      BY <2>1
  <1>7. CASE RecoveryStart \/ RunRecovery
    BY <1>7 DEF RecoveryStart, RunRecovery, RecoverFilled, RecoverFills,
                RecoverSettlement, RecoveryDone, RecoverExecution, MissedFills
  <1>8. CASE FlexSync
    BY <1>8 DEF FlexSync, FlexRead, FlexMatch, FlexBook
  <1> QED
    BY <1>1, <1>2, <1>3, <1>4, <1>5, <1>6, <1>7, <1>8 DEF Next

\* An exit's execution row belongs to an exit that was executed.
ExitBooked == (\E e \in ExecsOf("EXIT") : rows[e] # "none") => ExitSold

\* A row of the exit is a row of one of its executions, or its fallback.
LEMMA ExitExecs ==
  /\ \A f \in Fill : <<"tws", f>> \in ExecsOf("EXIT") => f \in ExitFill
  /\ <<"recovered", "ENTRY">> \notin ExecsOf("EXIT")
  /\ ExecsOf("EXIT") \subseteq Exec
  BY DEF ExecsOf, FillsOf, Exec, Fill, Role

\* INSERT OR IGNORE touches no other row.
LEMMA InsertedElse ==
  ASSUME rows \in [Exec -> RowState], NEW e \in Exec, NEW s, NEW d \in Exec, d # e
  PROVE  Inserted(e, s)[d] = rows[d]
  BY DEF Inserted

\* The only steps that write execution rows.
Books == \/ RecoverFills \/ FlexBook
         \/ \E f \in Fill : SaveExecution(f) \/ UpdateCommission(f)
                             \/ RecoverExecution(f)

\* The steps that write execution rows.
LEMMA RowsStep == [Next]_vars => UNCHANGED rows \/ Books
  <1> SUFFICES ASSUME [Next]_vars, ~Books PROVE UNCHANGED rows
    OBVIOUS
  <1> USE DEF vars, brokerVars, dbVars, Books
  <1>1. ASSUME NEW f \in Fill, Execute(f) \/ Charge(f) \/ Callbacks(f)
        PROVE  UNCHANGED rows
    BY <1>1 DEF Execute, Charge, Callbacks, CheckExecution
  <1>2. ASSUME NEW r \in Role, Statuses(r) PROVE UNCHANGED rows
    BY <1>2 DEF Statuses, ProcessFilled, HandleFilled
  <1>3. ASSUME CancelEntry \/ Crash \/ Restart PROVE UNCHANGED rows
    BY <1>3 DEF CancelEntry, Crash, Restart
  <1>4. ASSUME NEW s \in Settler, Settle(s) PROVE UNCHANGED rows
    BY <1>4, Zenon DEF Settle, GetLock, Acquire, Check, Fetch, Save, Notify,
                       Release, PopLock, KeepAll
  <1>5. ASSUME RecoveryStart \/ RunRecovery PROVE UNCHANGED rows
    BY <1>5 DEF RecoveryStart, RunRecovery, RecoverFilled, RecoverSettlement,
                RecoveryDone
  <1>6. ASSUME FlexSync PROVE UNCHANGED rows
    BY <1>6 DEF FlexSync, FlexRead, FlexMatch
  <1>7. ASSUME UNCHANGED vars PROVE UNCHANGED rows
    BY <1>7
  <1> QED
    BY <1>1, <1>2, <1>3, <1>4, <1>5, <1>6, <1>7 DEF Next

\* A row of the exit is only ever written after an execution of the exit.
LEMMA BookedStep ==
  ASSUME TypeData, EventsAreReal, ExitBooked, [Next]_vars
  PROVE  ExitBooked'
  <1>1. ExitSold => ExitSold'
    BY DoneGrows DEF ExitSold
  <1>2. CASE UNCHANGED rows
    BY <1>1, <1>2 DEF ExitBooked
  <1>3. ASSUME NEW f \in Fill, SaveExecution(f) PROVE ExitBooked'
    BY <1>1, <1>3, ExitExecs, Execs, InsertedElse
       DEF SaveExecution, ExitBooked, ExitSold, EventsAreReal, TypeData, brokerVars
  <1>4. ASSUME NEW f \in Fill, UpdateCommission(f) PROVE ExitBooked'
    BY <1>1, <1>4, ExitExecs, Execs DEF UpdateCommission, ExitBooked, TypeData
  <1>5. CASE RecoverFills
    <2>1. Complete(rCur) /\ rCur \in Role /\ UNCHANGED done
      BY <1>5 DEF RecoverFills, EventsAreReal, TypeData, brokerVars
    <2>2. CASE rCur = "EXIT"
      BY <2>1, <2>2, Sides DEF Complete, ExitBooked, ExitSold
    <2>3. CASE rCur = "ENTRY"
      <3>1. \A e \in ExecsOf("EXIT") : rows'[e] = rows[e]
        BY <1>5, <2>3, ExitExecs, Execs, InsertedElse, Sides DEF RecoverFills, TypeData
      <3> QED
        BY <1>1, <3>1 DEF ExitBooked
    <2> QED
      BY <2>1, <2>2, <2>3 DEF Role
  <1>6. ASSUME NEW f \in Fill, RecoverExecution(f) PROVE ExitBooked'
    <2>1. f \in done /\ UNCHANGED done
      BY <1>6 DEF RecoverExecution, EventsAreReal, brokerVars
    <2>2. CASE f \in ExitFill
      BY <2>1, <2>2 DEF ExitBooked, ExitSold
    <2>3. CASE f \notin ExitFill
      <3>1. \A e \in ExecsOf("EXIT") : rows'[e] = rows[e]
        BY <1>6, <2>3, ExitExecs, Execs, InsertedElse DEF RecoverExecution, TypeData
      <3> QED
        BY <1>1, <3>1 DEF ExitBooked
    <2> QED
      BY <2>2, <2>3
  <1>7. CASE FlexBook
    <2>1. Complete("EXIT") /\ UNCHANGED done
      BY <1>7 DEF FlexBook, EventsAreReal, brokerVars
    <2> QED
      BY <2>1, Sides DEF Complete, ExitBooked, ExitSold
  <1> QED
    BY <1>2, <1>3, <1>4, <1>5, <1>6, <1>7, RowsStep DEF Books

\* The steps of a settlement and what the others do to its place.
LEMMA PlaceStep ==
  ASSUME TypeData, [Next]_vars, ~ \E s \in Settler : Settle(s)
  PROVE  /\ UNCHANGED settlement
         /\ UNCHANGED reports
         /\ \A s \in Settler : pc'[s] \in {"save", "notify"} => pc'[s] = pc[s] /\ snap'[s] = snap[s]
  <1> USE DEF vars, brokerVars, dbVars, taskVars, settleVars, recVars
  <1>1. CASE UNCHANGED vars
    BY <1>1
  <1>2. ASSUME NEW f \in Fill, Execute(f) \/ Charge(f) \/ Callbacks(f)
        PROVE  UNCHANGED <<settlement, reports, pc, snap>>
    BY <1>2 DEF Execute, Charge, Callbacks, CheckExecution, SaveExecution,
                UpdateCommission
  <1>3. ASSUME Trigger
        PROVE  /\ UNCHANGED reports
               /\ \A s \in Settler : pc'[s] \in {"save", "notify"}
                                     => pc'[s] = pc[s] /\ snap'[s] = snap[s]
    BY <1>3 DEF Trigger, TypeData
  <1>4. ASSUME NEW r \in Role, ProcessFilled(r) \/ (HandleFilled(r) /\ r # "EXIT")
        PROVE  UNCHANGED <<settlement, reports, pc, snap>>
    BY <1>4 DEF ProcessFilled, HandleFilled
  <1>5. ASSUME NEW r \in Role, HandleFilled(r) /\ r = "EXIT"
        PROVE  UNCHANGED settlement /\ Trigger
    BY <1>5 DEF HandleFilled
  <1>6. CASE CancelEntry \/ Restart
    BY <1>6 DEF CancelEntry, Restart
  <1>7. CASE Crash
    BY <1>7 DEF Crash
  <1>8. CASE RecoveryStart \/ (RunRecovery /\ ~RecoverSettlement)
    BY <1>8 DEF RecoveryStart, RunRecovery, RecoverFilled, RecoverFills,
                RecoveryDone, RecoverExecution
  <1>9. CASE RecoverSettlement
    BY <1>9, <1>3 DEF RecoverSettlement
  <1>10. CASE FlexRead \/ FlexMatch
    BY <1>10 DEF FlexRead, FlexMatch
  <1>11. CASE FlexBook
    BY <1>11 DEF FlexBook, TypeData
  <1> QED
    BY <1>1, <1>2, <1>3, <1>4, <1>5, <1>6, <1>7, <1>8, <1>9, <1>10, <1>11
       DEF Next, Statuses, FlexSync, RunRecovery

\* What presupposes an executed exit keeps doing so.
LEMMA ExitStep ==
  ASSUME TypeData, EventsAreReal, ExitIsReal, [Next]_vars
  PROVE  ExitIsReal'
  <1>1. ExitSold => ExitSold'
    BY DoneGrows DEF ExitSold
  <1>2. ExitSold' => Complete("ENTRY")'
    BY DoneStep DEF ExitIsReal, ExitSold, Complete, Execute
  <1>3. (\E e \in ExecsOf("EXIT") : rows'[e] # "none") => ExitSold'
    BY BookedStep DEF ExitBooked, ExitIsReal
  <1>4. CASE ~ \E s \in Settler : Settle(s)
    <2>1. \A s \in Settler : pc'[s] = "save" => pc[s] = "save"
      BY <1>4, PlaceStep
    <2>2. UNCHANGED settlement
      BY <1>4, PlaceStep
    <2> QED
      BY <1>1, <1>2, <1>3, <2>1, <2>2 DEF ExitIsReal
  <1>5. ASSUME NEW s \in Settler, Settle(s) PROVE ExitIsReal'
    <2>1. CASE Fetch(s)
      <3>1. pc'[s] = "save" => BothSides
        BY <2>1 DEF Fetch, TypeData
      <3>2. BothSides => ExitSold
        BY Sides DEF BothSides, ExitIsReal
      <3>3. UNCHANGED settlement /\ \A t \in Settler \ {s} : pc'[t] = pc[t]
        BY <2>1 DEF Fetch, TypeData
      <3> QED
        BY <1>1, <1>2, <1>3, <3>1, <3>2, <3>3 DEF ExitIsReal
    <2>2. CASE Save(s)
      <3>1. pc[s] = "save" /\ \A t \in Settler : pc'[t] = "save" => pc[t] = "save"
        BY <2>2 DEF Save, TypeData
      <3> QED
        BY <1>1, <1>2, <1>3, <3>1 DEF ExitIsReal
    <2>3. CASE Settle(s) /\ ~Fetch(s) /\ ~Save(s)
      <3>1. /\ UNCHANGED settlement
            /\ \A t \in Settler : pc'[t] = "save" => pc[t] = "save"
        BY <2>3 DEF Settle, GetLock, Acquire, Check, Notify, Release, PopLock, TypeData
      <3> QED
        BY <1>1, <1>2, <1>3, <3>1 DEF ExitIsReal
    <2> QED
      BY <1>5, <2>1, <2>2, <2>3
  <1> QED
    BY <1>4, <1>5

\* Reports keep following the recorded settlement.
LEMMA ReportsStep ==
  ASSUME TypeData, ReportsFollow, [Next]_vars
  PROVE  ReportsFollow'
  <1> USE DEF ReportsFollow, ReportedOnce
  <1>1. CASE ~ \E s \in Settler : Settle(s)
    BY <1>1, PlaceStep
  <1>2. ASSUME NEW s \in Settler, Settle(s) PROVE ReportsFollow'
    <2>1. CASE Save(s)
      <3>1. CASE settlement = {}
        <4>1. \A t \in Settler : pc[t] # "notify"
          BY <3>1
        <4>2. /\ pc' = [pc EXCEPT ![s] = "notify"] /\ settlement' = {snap[s]}
              /\ UNCHANGED <<snap, reports>> /\ reports = 0
          BY <2>1, <3>1 DEF Save
        <4> QED
          BY <4>1, <4>2 DEF TypeData
      <3>2. CASE settlement # {}
        <4>1. /\ pc' = [pc EXCEPT ![s] = "release"]
              /\ UNCHANGED <<settlement, snap, reports>>
          BY <2>1, <3>2 DEF Save
        <4> QED
          BY <4>1 DEF TypeData
      <3> QED
        BY <3>1, <3>2
    <2>2. CASE Notify(s)
      BY <2>2 DEF Notify, TypeData
    <2>3. CASE Settle(s) /\ ~Save(s) /\ ~Notify(s)
      <3>1. UNCHANGED <<settlement, reports>>
        BY <2>3 DEF Settle, GetLock, Acquire, Check, Fetch, Release, PopLock
      <3>2. CASE Fetch(s)
        <4>1. pc'[s] # "notify"
          BY <3>2 DEF Fetch, TypeData
        <4>2. \A t \in Settler \ {s} : pc'[t] = pc[t] /\ snap'[t] = snap[t]
          BY <3>2 DEF Fetch, TypeData
        <4> QED
          BY <3>1, <4>1, <4>2
      <3>3. CASE ~Fetch(s)
        <4>1. \A t \in Settler : pc'[t] = "notify" => pc[t] = "notify" /\ snap'[t] = snap[t]
          BY <2>3, <3>3 DEF Settle, GetLock, Acquire, Check, Release, PopLock, TypeData
        <4> QED
          BY <3>1, <4>1
      <3> QED
        BY <3>2, <3>3
    <2> QED
      BY <1>2, <2>1, <2>2, <2>3
  <1> QED
    BY <1>1, <1>2

\* Every step keeps the invariant.
LEMMA NextSettleInv == SettleInv /\ [Next]_vars => SettleInv'
  <1> SUFFICES ASSUME SettleInv, [Next]_vars PROVE SettleInv'
    OBVIOUS
  <1>1. TypeData /\ TypeFlags
    BY TypeParts, Zenon DEF SettleInv
  <1>2. TypeOK'
    <2>1. TypeData' /\ TypeFlags'
      BY <1>1, NextData, NextFlags, Zenon
    <2> QED
      BY <2>1, Zenon DEF TypeOK, TypeData, TypeFlags
  <1>3. EventsAreReal' /\ ExitIsReal' /\ ReportsFollow'
    BY <1>1, EventsStep, ExitStep, ReportsStep DEF SettleInv
  <1> QED
    BY <1>2, <1>3, Zenon DEF SettleInv

\* The invariant behind the next three theorems holds in every behaviour.
THEOREM SettleInductive == Spec => []SettleInv
  BY InitSettleInv, NextSettleInv, PTL DEF Spec

\* However many tasks, dropped locks and Flex runs there are, the settlement of a
\* group is reported once, and what is reported is what was recorded.
THEOREM ReportsOnce == Spec => []ReportedOnce
  <1>1. SettleInv => ReportedOnce
    BY DEF SettleInv, ReportsFollow
  <1> QED
    BY <1>1, SettleInductive, PTL

\* A recorded settlement is never replaced: the primary key decides.
THEOREM RecordedOnce == Spec => SettledOnce
  <1>1. TypeData /\ [Next]_vars => (settlement # {} => settlement' = settlement)
    <2> SUFFICES ASSUME TypeData, [Next]_vars, settlement # {}
                 PROVE  settlement' = settlement
      OBVIOUS
    <2>1. CASE ~ \E s \in Settler : Settle(s)
      BY <2>1, PlaceStep
    <2>2. ASSUME NEW s \in Settler, Settle(s) PROVE settlement' = settlement
      BY <2>2 DEF Settle, GetLock, Acquire, Check, Fetch, Save, Notify, Release, PopLock
    <2> QED
      BY <2>1, <2>2
  <1>2. TypeOK => TypeData
    BY TypeParts, Zenon
  <1>3. TypeOK /\ [Next]_vars => [settlement # {} => settlement' = settlement]_vars
    BY <1>1, <1>2
  <1> QED
    BY <1>3, SettlementTypes, PTL DEF Spec, SettledOnce

\* A group whose exit is a single execution is settled only when entry and exit
\* are filled, although recovery starts settlements for entries too.
THEOREM ClosedWhenSettled ==
  ASSUME Cardinality(ExitFill) = 1
  PROVE  Spec => []SettledWhenClosed
  <1>1. \E x : ExitFill = {x}
    BY FS_Singleton
  <1>2. SettleInv => SettledWhenClosed
    <2> SUFFICES ASSUME SettleInv, settlement # {} PROVE done = Fill
      BY DEF SettledWhenClosed
    <2>1. ExitSold /\ Complete("ENTRY")
      BY DEF SettleInv, ExitIsReal
    <2>2. done \subseteq Fill
      BY TypeParts DEF SettleInv, TypeData
    <2> QED
      BY <1>1, <2>1, <2>2, Sides DEF ExitSold, Complete, Fill
  <1> QED
    BY <1>2, SettleInductive, PTL

----------------------------------------------------------------------------
(* BookedOnce.                                                             *)

\* While TWS lists old fills, the session knows every execution.
LEMMA KnownStep ==
  ASSUME "oldFills" \notin Faults, KnownIsDone, [Next]_vars
  PROVE  KnownIsDone'
  <1> USE DEF KnownIsDone, vars, brokerVars, taskVars, recVars, sessVars
  <1>1. CASE UNCHANGED vars
    BY <1>1, Zenon
  <1>2. ASSUME NEW f \in Fill, Execute(f) PROVE KnownIsDone'
    <2>1. CASE up
      BY <1>2, <2>1 DEF Execute
    <2>2. CASE ~up
      BY <1>2, <2>2 DEF Execute
    <2> QED
      BY <2>1, <2>2
  <1>3. ASSUME NEW f \in Fill, Charge(f) \/ Callbacks(f) PROVE KnownIsDone'
    <2>1. /\ UNCHANGED <<known, done>>
          /\ UNCHANGED <<up, rpc>>
      BY <1>3 DEF Charge, Callbacks, CheckExecution, SaveExecution, UpdateCommission
    <2> QED
      BY <2>1, Zenon
  <1>4. ASSUME NEW r \in Role, Statuses(r) PROVE KnownIsDone'
    <2>1. /\ UNCHANGED <<known, done>>
          /\ UNCHANGED <<up, rpc>>
      BY <1>4 DEF Statuses, ProcessFilled, HandleFilled
    <2> QED
      BY <2>1, Zenon
  <1>5. CASE CancelEntry
    BY <1>5, Zenon DEF CancelEntry
  <1>6. CASE Crash
    BY <1>6 DEF Crash
  <1>7. CASE Restart
    BY <1>7 DEF Restart
  <1>8. ASSUME NEW s \in Settler, Settle(s) PROVE KnownIsDone'
    <2>1. /\ UNCHANGED <<known, done>>
          /\ UNCHANGED <<up, rpc>>
      BY <1>8, Zenon DEF Settle, GetLock, Acquire, Check, Fetch, Save, Notify,
                         Release, PopLock, KeepAll
    <2> QED
      BY <2>1, Zenon
  <1>9. CASE RecoveryStart \/ RunRecovery
    BY <1>9 DEF RecoveryStart, RunRecovery, RecoverFilled, RecoverFills,
                RecoverSettlement, RecoveryDone, RecoverExecution
  <1>10. CASE FlexSync
    <2>1. /\ UNCHANGED <<known, done>>
          /\ UNCHANGED <<up, rpc>>
      BY <1>10 DEF FlexSync, FlexRead, FlexMatch, FlexBook
    <2> QED
      BY <2>1, Zenon
  <1> QED
    BY <1>1, <1>2, <1>3, <1>4, <1>5, <1>6, <1>7, <1>8, <1>9, <1>10 DEF Next

\* Then only executions under their TWS id are booked.
LEMMA TwsStep ==
  ASSUME "tradeID" \notin Faults, SettleInv, KnownIsDone, OnlyTwsRows, [Next]_vars
  PROVE  OnlyTwsRows'
  <1>0. TypeData
    BY TypeParts, Zenon DEF SettleInv
  <1>1. CASE UNCHANGED rows
    BY <1>1 DEF OnlyTwsRows
  <1>2. ASSUME NEW f \in Fill, SaveExecution(f) \/ UpdateCommission(f) \/ RecoverExecution(f)
        PROVE  OnlyTwsRows'
    <2>1. \A e \in Exec : e # <<"tws", f>> => rows'[e] = rows[e]
      BY <1>0, <1>2, Execs, InsertedElse
         DEF SaveExecution, UpdateCommission, RecoverExecution, TypeData
    <2> QED
      BY <2>1 DEF OnlyTwsRows
  <1>3. CASE RecoverFills
    <2>1. known = done /\ FillsOf(rCur) \subseteq done /\ FillsOf(rCur) # {}
      BY <1>0, <1>3, Sides
         DEF RecoverFills, KnownIsDone, SettleInv, EventsAreReal, Complete, TypeData
    <2>2. known \cap FillsOf(rCur) # {}
      BY <2>1
    <2>3. UNCHANGED rows
      BY <1>3, <2>2 DEF RecoverFills
    <2> QED
      BY <1>1, <2>3
  <1>4. CASE FlexBook
    BY <1>4 DEF FlexBook, OnlyTwsRows, FlexExecs
  <1> QED
    BY <1>1, <1>2, <1>3, <1>4, RowsStep DEF Books

\* While TWS lists every fill after a restart and the Flex statement uses the ids
\* of TWS, no execution is booked twice, whatever crashes and runs interleave.
THEOREM NothingBookedTwice ==
  ASSUME "oldFills" \notin Faults, "tradeID" \notin Faults
  PROVE  Spec => []BookedOnce
  <1>1. Init => KnownIsDone /\ OnlyTwsRows
    BY DEF Init, KnownIsDone, OnlyTwsRows, NoRows
  <1>2. SettleInv /\ KnownIsDone /\ OnlyTwsRows /\ [Next]_vars
        => KnownIsDone' /\ OnlyTwsRows'
    BY KnownStep, TwsStep
  <1>3. OnlyTwsRows => BookedOnce
    <2> SUFFICES ASSUME OnlyTwsRows, NEW r \in Role, NEW f \in FillsOf(r)
                 PROVE  Cardinality({e \in {<<"tws", f>>, <<"tradeID", f>>, <<"recovered", r>>} :
                                        rows[e] # "none"}) <= 1
      BY DEF BookedOnce
    <2> DEFINE B == {e \in {<<"tws", f>>, <<"tradeID", f>>, <<"recovered", r>>} :
                        rows[e] # "none"}
    <2>1. <<"tradeID", f>> \in Exec /\ <<"recovered", r>> \in Exec
      BY DEF Exec, FillsOf, Fill
    <2>2. B = {} \/ B = {<<"tws", f>>}
      BY <2>1 DEF OnlyTwsRows
    <2> HIDE DEF B
    <2>3. Cardinality(B) = 0 \/ Cardinality(B) = 1
      BY <2>2, FS_EmptySet, FS_Singleton
    <2> QED
      BY <2>3 DEF B
  <1> QED
    BY <1>1, <1>2, <1>3, SettleInductive, PTL DEF Spec
==============================================================================
