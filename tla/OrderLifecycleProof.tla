------------------------- MODULE OrderLifecycleProof -------------------------
(***************************************************************************)
(* Theorems about OrderLifecycle for every set of exits, every id bound,   *)
(* every behaviour of getReqId and every combination of disturbances: the  *)
(* types, and that no live order is ever lost from the orders table.       *)
(***************************************************************************)
EXTENDS OrderLifecycle, TLAPS

USE LifecycleAssumption DEF Leg, Id

\* An imported group has the types.
LEMMA InitType == Init => TypeOK
  <1> SUFFICES ASSUME Init PROVE TypeOK
    OBVIOUS
  <1>1. /\ orderId \in [Leg -> Int] /\ status \in [Leg -> Status]
        /\ retryCount \in [Leg -> Nat]
    BY DEF Init, Status
  <1>2. /\ broker \in [Id -> BrokerState] /\ leg \in [Id -> Leg]
        /\ parent \in [Id -> Int]
    BY DEF Init, BrokerState
  <1>3. heard \in [Id -> SUBSET (TwsStatus \cup {"10148"})]
    BY DEF Init
  <1>6. statusQ \in [Id -> Seq(TwsStatus)]
    BY DEF Init
  <1>7. tasks \subseteq Task
    BY DEF Init
  <1>4. /\ queue \in Nat /\ backoff \in Nat
        /\ pc \in PCs /\ cur \in Leg /\ todo \subseteq Child
        /\ failAs \in Status
    BY DEF Init, PCs, Status
  <1>5. /\ notified \subseteq Id
        /\ rpc \in {"off", "load", "work"}
        /\ rActive \subseteq Id /\ rFilled \subseteq Id
        /\ rSnap \in [Leg -> Status] /\ rId \in [Leg -> Int] /\ rTodo \subseteq Leg
    BY DEF Init, Status
  <1>8. recoveries \in Nat /\ outages \in Nat
    BY DEF Init
  <1>9. postFill \in BOOLEAN /\ rQueue \in BOOLEAN /\ down \in BOOLEAN
    BY Zenon DEF Init
  <1> QED
    BY <1>1, <1>2, <1>3, <1>4, <1>5, <1>6, <1>7, <1>8, <1>9 DEF TypeOK

\* An UPDATE of the status column writes a status.
LEMMA WithStatusType ==
  ASSUME status \in [Leg -> Status], NEW i, NEW s \in Status
  PROVE  WithStatus(i, s) \in [Leg -> Status]
  BY DEF WithStatus

\* The execution worker keeps the types.
LEMMA WorkerType == TypeOK /\ Worker => TypeOK'
  <1> SUFFICES ASSUME TypeOK, Worker PROVE TypeOK'
    OBVIOUS
  <1> USE DEF TypeOK, Goto, KeepJob, KeepRest, dbVars, brokerVars, queueVars,
              workerVars, taskVars, recVars, sessVars
  <1>1. CASE Take
    <2>1. queue' \in Nat
      BY <1>1 DEF Take
    <2>2. pc' \in PCs
      BY <1>1 DEF Take, PCs
    <2>3. cur' \in Leg /\ todo' \subseteq Child
      BY <1>1 DEF Take
    <2>4. failAs' \in Status
      BY <1>1 DEF Take, Status
    <2>5. postFill' \in BOOLEAN
      BY <1>1, Zenon DEF Take
    <2> QED
      BY <1>1, <2>1, <2>2, <2>3, <2>4, <2>5 DEF Take
  <1>2. CASE CheckPasses
    BY <1>2 DEF CheckPasses, PCs
  <1>3. CASE CheckRefuses
    BY <1>3 DEF CheckRefuses, Status, PCs, GiveUp, WithStatus
  <1>4. CASE CheckNeedsToken
    BY <1>4 DEF CheckNeedsToken, PCs
  <1>5. CASE Authorized
    BY <1>5 DEF Authorized, PCs
  <1>6. CASE ReauthExpires
    BY <1>6 DEF ReauthExpires, Status, PCs, GiveUp
  <1>7. CASE Abort
    BY <1>7 DEF Abort, Status, PCs
  <1>8. CASE NextChild
    <2>1. cur' \in Leg /\ todo' \subseteq Child
      BY <1>8 DEF NextChild
    <2>2. pc' \in PCs
      BY <1>8 DEF NextChild, PCs
    <2> QED
      BY <1>8, <2>1, <2>2 DEF NextChild
  <1>9. CASE GroupDone
    BY <1>9 DEF GroupDone, PCs
  <1>10. CASE AdjustKeeps
    BY <1>10 DEF AdjustKeeps, PCs
  <1>11. CASE AdjustCancels
    BY <1>11 DEF AdjustCancels, Status, PCs, WithStatus
  <1>12. CASE Assign
    BY <1>12 DEF Assign, Status, PCs
  <1>13. CASE GuardPasses
    BY <1>13 DEF GuardPasses, PCs
  <1>14. CASE GuardSkips
    BY <1>14 DEF GuardSkips, Status, PCs, WithStatus
  <1>15. CASE Send
    <2>1. broker' \in [Id -> BrokerState]
      BY <1>15 DEF Send, BrokerState
    <2>2. ParentOf \in Int
      BY DEF ParentOf
    <2> QED
      BY <1>15, <2>1, <2>2 DEF Send, PCs
  <1>16. CASE SendRaises
    BY <1>16 DEF SendRaises, PCs
  <1>17. CASE Accepted
    BY <1>17 DEF Accepted, PCs
  <1>18. CASE RejectionSeen
    BY <1>18 DEF RejectionSeen, Status, PCs, GiveUp, WithStatus
  <1>19. CASE LockSeen
    BY <1>19 DEF LockSeen, PCs
  <1>20. CASE RelockExpires
    BY <1>20 DEF RelockExpires, Status, PCs, GiveUp
  <1>21. CASE RelockRefuses
    BY <1>21 DEF RelockRefuses, Status, PCs, GiveUp, WithStatus
  <1>22. CASE Replace
    BY <1>22 DEF Replace, PCs, BrokerState
  <1>23. CASE ReplaceRefused
    BY <1>23 DEF ReplaceRefused, Status, PCs, BrokerState, GiveUp
  <1> QED BY <1>1, <1>2, <1>3, <1>4, <1>5, <1>6, <1>7, <1>8, <1>9, <1>10, <1>11, <1>12, <1>13, <1>14, <1>15, <1>16, <1>17, <1>18, <1>19, <1>20, <1>21, <1>22, <1>23 DEF Worker

\* TWS keeps the types.
LEMMA BrokerType == TypeOK /\ Broker => TypeOK'
  <1> SUFFICES ASSUME TypeOK, NEW i \in Id,
                      Report(i) \/ Fill(i) \/ Cancel(i) \/ Refuse(i) \/ CancelRace(i)
               PROVE  TypeOK'
    BY DEF Broker
  <1> USE DEF TypeOK, KeepProgram, dbVars, queueVars, workerVars, recVars, sessVars
  <1>1. CASE Report(i)
    <2>1. statusQ' \in [Id -> Seq(TwsStatus)]
      BY <1>1 DEF Report, Announce, TwsStatus
    <2>2. heard' \in [Id -> SUBSET (TwsStatus \cup {"10148"})]
      BY <1>1 DEF Report, TwsStatus
    <2> QED
      BY <1>1, <2>1, <2>2 DEF Report
  <1>2. CASE Fill(i)
    <2>1. statusQ' \in [Id -> Seq(TwsStatus)]
      BY <1>2 DEF Fill, TwsStatus
    <2>2. broker' \in [Id -> BrokerState]
      BY <1>2 DEF Fill, BrokerState
    <2> QED
      BY <1>2, <2>1, <2>2 DEF Fill
  <1>3. CASE Cancel(i)
    <2>1. statusQ' \in [Id -> Seq(TwsStatus)]
      BY <1>3 DEF Cancel, Announce, TwsStatus
    <2>2. broker' \in [Id -> BrokerState]
      BY <1>3 DEF Cancel, BrokerState
    <2>3. tasks' \subseteq Task
      BY <1>3 DEF Cancel, RaiseError, MkTask, Task, TaskKind, Attached
    <2> QED
      BY <1>3, <2>1, <2>2, <2>3 DEF Cancel
  <1>4. CASE Refuse(i)
    <2>1. statusQ' \in [Id -> Seq(TwsStatus)]
      BY <1>4 DEF Refuse, TwsStatus
    <2>2. broker' \in [Id -> BrokerState]
      BY <1>4 DEF Refuse, BrokerState, Refused
    <2>3. tasks' \subseteq Task
      BY <1>4 DEF Refuse, RaiseError, MkTask, Task, TaskKind
    <2> QED
      BY <1>4, <2>1, <2>2, <2>3 DEF Refuse
  <1>5. CASE CancelRace(i)
    <2>1. tasks' \subseteq Task
      BY <1>5 DEF CancelRace, RaiseError, MkTask, Task, TaskKind
    <2>2. heard' \in [Id -> SUBSET (TwsStatus \cup {"10148"})]
      BY <1>5 DEF CancelRace
    <2> QED
      BY <1>5, <2>1, <2>2 DEF CancelRace
  <1> QED
    BY <1>1, <1>2, <1>3, <1>4, <1>5

\* A status event that may be applied asks for a status of the table.
LEMMA MappedStatus ==
  ASSUME NEW s \in TwsStatus, NEW c \in Status,
         ValidTransition(c, MapTwsStatus(s, FALSE), FALSE)
  PROVE  MapTwsStatus(s, FALSE) \in Status
  BY DEF MapTwsStatus, ValidTransition, Status, TwsStatus

\* The callback tasks and the retry handler keep the types.
LEMMA TasksType == TypeOK /\ Tasks => TypeOK'
  <1> SUFFICES ASSUME TypeOK, Tasks PROVE TypeOK'
    OBVIOUS
  <1> USE DEF TypeOK, KeepElse, brokerVars, queueVars, workerVars, taskVars,
              recVars, sessVars
  <1>1. ASSUME NEW i \in Id, ProcessStatus(i) PROVE TypeOK'
    <2>1. Head(statusQ[i]) \in TwsStatus /\ Tail(statusQ[i]) \in Seq(TwsStatus)
      BY <1>1 DEF ProcessStatus
    <2>2. status' \in [Leg -> Status]
      BY <1>1, <2>1, MappedStatus DEF ProcessStatus
    <2>3. notified' \subseteq Id
      BY <1>1 DEF ProcessStatus
    <2>4. statusQ' \in [Id -> Seq(TwsStatus)]
      BY <1>1, <2>1 DEF ProcessStatus
    <2> QED
      BY <1>1, <2>2, <2>3, <2>4 DEF ProcessStatus
  <1>2. ASSUME NEW t \in tasks, FailOrder(t) PROVE TypeOK'
    BY <1>2 DEF FailOrder, WithStatus, Status
  <1>3. ASSUME NEW t \in tasks, CancelOrder(t) PROVE TypeOK'
    <2>1. status' \in [Leg -> Status]
      BY <1>3 DEF CancelOrder, Status
    <2>3. t.id \in Id
      BY DEF Task
    <2>2. notified' \subseteq Id
      BY <1>3, <2>3 DEF CancelOrder
    <2> QED
      BY <1>3, <2>1, <2>2 DEF CancelOrder
  <1>4. ASSUME NEW t \in tasks, RetryRead(t) PROVE TypeOK'
    <2>1. tasks' \subseteq Task
      BY <1>4 DEF RetryRead, Task, TaskKind, Booked
    <2> QED
      BY <1>4, <2>1 DEF RetryRead
  <1>5. ASSUME NEW t \in tasks, RetryWrite(t) PROVE TypeOK'
    <2>1. t.n \in Nat
      BY DEF Task
    <2>2. status' \in [Leg -> Status]
      BY <1>5 DEF RetryWrite, WithStatus, Status
    <2>3. retryCount' \in [Leg -> Nat]
      <3>1. CASE t.n < MaxRetries
        <4>1. retryCount' = [l \in Leg |-> IF l \in Booked(t.id) THEN t.n + 1
                                          ELSE retryCount[l]]
          BY <1>5, <3>1 DEF RetryWrite
        <4> QED
          BY <2>1, <4>1
      <3>2. CASE ~(t.n < MaxRetries)
        BY <1>5, <3>2 DEF RetryWrite
      <3> QED
        BY <3>1, <3>2
    <2>4. backoff' \in Nat
      BY <1>5 DEF RetryWrite
    <2> QED
      BY <1>5, <2>2, <2>3, <2>4 DEF RetryWrite
  <1>6. CASE Requeue
    <2>1. queue' \in Nat /\ backoff' \in Nat
      BY <1>6 DEF Requeue
    <2> QED
      BY <1>6, <2>1 DEF Requeue
  <1> QED
    BY <1>1, <1>2, <1>3, <1>4, <1>5, <1>6 DEF Tasks

\* A verdict of the recovery run is a status of the table.
LEMMA VerdictStatus ==
  ASSUME NEW l, NEW s \in Verdicts(l)
  PROVE  s \in Status \ {"Created"}
  BY DEF Verdicts, ActiveAs, Status

\* The recovery run keeps the types.
LEMMA RecoveryType == TypeOK /\ Recovery => TypeOK'
  <1> SUFFICES ASSUME TypeOK, Recovery PROVE TypeOK'
    OBVIOUS
  <1> USE DEF TypeOK, KeepOthers, dbVars, brokerVars, workerVars, taskVars
  <1>1. CASE RecoveryStart
    <2>1. recoveries' \in Nat
      BY <1>1 DEF RecoveryStart
    <2>2. down' \in BOOLEAN
      BY <1>1, Zenon DEF RecoveryStart
    <2> QED
      BY <1>1, <2>1, <2>2 DEF RecoveryStart
  <1>2. CASE RecoveryLoad
    <2>1. rQueue' \in BOOLEAN
      BY <1>2, Zenon DEF RecoveryLoad
    <2> QED
      BY <1>2, <2>1 DEF RecoveryLoad
  <1>3. CASE RecoveryDone
    <2>1. rQueue' \in BOOLEAN
      BY <1>3, Zenon DEF RecoveryDone
    <2>2. queue' \in Nat
      BY <1>3 DEF RecoveryDone
    <2> QED
      BY <1>3, <2>1, <2>2 DEF RecoveryDone, Status
  <1>4. ASSUME NEW l \in Leg, RecoverRow(l) PROVE TypeOK'
    <2>1. PICK s \in Verdicts(l) :
                 status' = WithStatus(rId[l], s) \/ status' = status
      BY <1>4 DEF RecoverRow
    <2>2. s \in Status
      BY VerdictStatus
    <2>3. status' \in [Leg -> Status]
      BY <2>1, <2>2, WithStatusType
    <2> QED
      BY <1>4, <2>3 DEF RecoverRow
  <1>5. ASSUME NEW l \in Leg, RequeueRow(l) PROVE TypeOK'
    <2>1. rQueue' \in BOOLEAN
      BY <1>5, Zenon DEF RequeueRow
    <2> QED
      BY <1>5, <2>1 DEF RequeueRow
  <1> QED
    BY <1>1, <1>2, <1>3, <1>4, <1>5 DEF Recovery

\* Disconnections and crashes keep the types.
LEMMA OutageType == TypeOK /\ (Disconnect \/ Crash) => TypeOK'
  <1> SUFFICES ASSUME TypeOK, Disconnect \/ Crash PROVE TypeOK'
    OBVIOUS
  <1> USE DEF TypeOK, dbVars, brokerVars, queueVars, workerVars, taskVars, recVars
  <1>1. down' \in BOOLEAN
    BY Zenon DEF Disconnect, Crash
  <1>2. CASE Disconnect
    <2>1. outages' \in Nat
      BY <1>2 DEF Disconnect
    <2>2. UNCHANGED <<orderId, status, retryCount, broker, leg, parent, heard, queue,
                      backoff, pc, cur, todo, postFill, failAs, statusQ, tasks,
                      notified, rpc, rActive, rFilled, rSnap, rId, rTodo, rQueue,
                      recoveries>>
      BY <1>2, Zenon DEF Disconnect
    <2> QED
      BY <1>1, <2>1, <2>2
  <1>3. CASE Crash
    <2>1. postFill' \in BOOLEAN /\ rQueue' \in BOOLEAN
      BY <1>3, Zenon DEF Crash
    <2>2. statusQ' \in [Id -> Seq(TwsStatus)]
      BY <1>3 DEF Crash
    <2>3. /\ queue' \in Nat /\ backoff' \in Nat /\ outages' \in Nat
          /\ recoveries' \in Nat
      BY <1>3 DEF Crash
    <2>4. /\ pc' \in PCs /\ failAs' \in Status /\ rSnap' \in [Leg -> Status]
          /\ rpc' \in {"off", "load", "work"}
      BY <1>3 DEF Crash, Status, PCs
    <2>5. /\ cur' \in Leg /\ todo' \subseteq Child /\ tasks' \subseteq Task
          /\ notified' \subseteq Id /\ rActive' \subseteq Id
          /\ rFilled' \subseteq Id /\ rTodo' \subseteq Leg /\ rId' \in [Leg -> Int]
      BY <1>3 DEF Crash
    <2>6. UNCHANGED <<orderId, status, retryCount, broker, leg, parent, heard>>
      BY <1>3 DEF Crash
    <2> QED
      BY <1>1, <2>1, <2>2, <2>3, <2>4, <2>5, <2>6
  <1> QED
    BY <1>2, <1>3

\* Every step keeps the types.
LEMMA NextType == TypeOK /\ [Next]_vars => TypeOK'
  <1> SUFFICES ASSUME TypeOK, [Next]_vars PROVE TypeOK'
    OBVIOUS
  <1>1. CASE UNCHANGED vars
    BY <1>1 DEF TypeOK, vars, dbVars, brokerVars, queueVars, workerVars, taskVars,
                recVars, sessVars
  <1> QED
    BY <1>1, WorkerType, BrokerType, TasksType, RecoveryType, OutageType DEF Next

\* The state of the program and of TWS keeps its types.
THEOREM TypeCorrect == Spec => []TypeOK
  BY InitType, NextType, PTL DEF Spec
----------------------------------------------------------------------------
(* The inductive invariant.                                                *)

\* The invariant holds for an imported group.
LEMMA InitInv == Init => IndInv
  <1> SUFFICES ASSUME Init PROVE IndInv
    OBVIOUS
  <1>1. TypeOK
    BY InitType
  <1>2. /\ OpenOrdersBooked /\ TempIdNeverSent /\ IdsDistinct /\ ReassignedIsClosed
    BY DEF Init, OpenOrdersBooked, TempIdNeverSent, IdsDistinct,
           ReassignedIsClosed, Open, Live
  <1>3. /\ FreshBeforeSend /\ LockedInRelock /\ PlacedInVerify
        /\ RetriedIsOver /\ JobShape
    BY DEF Init, FreshBeforeSend, LockedInRelock, PlacedInVerify, RetriedIsOver,
           JobShape
  <1> QED
    BY <1>1, <1>2, <1>3 DEF IndInv

\* Steps that leave the ids and TWS alone keep the parts about orders.
LEMMA OrdersKept ==
  ASSUME IndInv, UNCHANGED <<orderId, broker, leg>>
  PROVE  OpenOrdersBooked' /\ TempIdNeverSent' /\ IdsDistinct'
  BY DEF IndInv, OpenOrdersBooked, TempIdNeverSent, IdsDistinct

\* Worker steps that neither assign nor send: each may only take the worker to
\* a place, and a row to a status, that asks for no more than before.
LEMMA WorkerDecides ==
  ASSUME IndInv, TypeOK',
         Take \/ CheckPasses \/ CheckRefuses \/ CheckNeedsToken \/ Authorized \/ ReauthExpires \/ Abort
         \/ NextChild \/ GroupDone \/ AdjustKeeps \/ AdjustCancels \/ GuardPasses \/ GuardSkips
         \/ SendRaises \/ Accepted \/ RejectionSeen \/ LockSeen \/ RelockExpires \/ RelockRefuses
  PROVE  IndInv'
  <1> USE DEF IndInv, Goto, KeepJob, KeepRest, dbVars, brokerVars, queueVars,
              workerVars, taskVars, recVars, sessVars
  <1>a. TypeOK
    OBVIOUS
  <1>b. UNCHANGED <<orderId, broker, leg, tasks>>
    BY DEF Take, CheckPasses, CheckRefuses, CheckNeedsToken, Authorized, ReauthExpires, Abort, NextChild,
           GroupDone, AdjustKeeps, AdjustCancels, GuardPasses, GuardSkips, SendRaises,
           Accepted, RejectionSeen, LockSeen, RelockExpires, RelockRefuses
  <1>c. /\ OpenOrdersBooked' /\ TempIdNeverSent' /\ IdsDistinct' /\ RetriedIsOver'
    BY <1>b, OrdersKept DEF RetriedIsOver
  <1>d. SUFFICES ReassignedIsClosed' /\ FreshBeforeSend' /\ LockedInRelock'
                 /\ PlacedInVerify' /\ JobShape'
    BY <1>c
  <1> USE DEF ReassignedIsClosed, FreshBeforeSend, LockedInRelock, PlacedInVerify,
              JobShape, MayAssign, TypeOK, PCs
  <1>1. CASE Take
    BY <1>1, <1>a, <1>b DEF Take
  <1>2. CASE CheckPasses
    BY <1>2, <1>a, <1>b DEF CheckPasses
  <1>3. CASE CheckRefuses
    BY <1>3, <1>a, <1>b DEF CheckRefuses, GiveUp, WithStatus
  <1>4. CASE CheckNeedsToken
    BY <1>4, <1>a, <1>b DEF CheckNeedsToken
  <1>5. CASE Authorized
    BY <1>5, <1>a, <1>b DEF Authorized
  <1>6. CASE ReauthExpires
    BY <1>6, <1>a, <1>b DEF ReauthExpires, GiveUp
  <1>7. CASE Abort
    BY <1>7, <1>a, <1>b DEF Abort
  <1>8. CASE NextChild
    BY <1>8, <1>a, <1>b DEF NextChild
  <1>9. CASE GroupDone
    BY <1>9, <1>a, <1>b DEF GroupDone
  <1>10. CASE AdjustKeeps
    BY <1>10, <1>a, <1>b DEF AdjustKeeps
  <1>11. CASE AdjustCancels
    BY <1>11, <1>a, <1>b DEF AdjustCancels, WithStatus
  <1>12. CASE GuardPasses
    BY <1>12, <1>a, <1>b DEF GuardPasses
  <1>13. CASE GuardSkips
    BY <1>13, <1>a, <1>b DEF GuardSkips, WithStatus
  <1>14. CASE SendRaises
    BY <1>14, <1>a, <1>b DEF SendRaises
  <1>15. CASE Accepted
    BY <1>15, <1>a, <1>b DEF Accepted
  <1>16. CASE RejectionSeen
    BY <1>16, <1>a, <1>b DEF RejectionSeen, GiveUp, WithStatus
  <1>17. CASE LockSeen
    BY <1>17, <1>a, <1>b DEF LockSeen
  <1>18. CASE RelockExpires
    BY <1>18, <1>a, <1>b DEF RelockExpires, GiveUp
  <1>19. CASE RelockRefuses
    BY <1>19, <1>a, <1>b DEF RelockRefuses, GiveUp, WithStatus
  <1> QED
    BY <1>1, <1>2, <1>3, <1>4, <1>5, <1>6, <1>7, <1>8, <1>9, <1>10, <1>11, <1>12, <1>13, <1>14, <1>15, <1>16, <1>17, <1>18, <1>19

\* _get_next_non_colliding_order_id returns an id above every id in the table,
\* which no order at TWS has.
LEMMA NextIdIsFresh ==
  ASSUME TypeOK, TempIdNeverSent, NEW n \in ReqIds, NEW i \in Id, IsNextOrderId(i, n)
  PROVE  (\A l \in Leg : orderId[l] < i) /\ broker[i] = "none"
  <1>1. \A l \in Leg : orderId[l] < i
    BY DEF IsNextOrderId, TypeOK
  <1>2. ASSUME broker[i] # "none" PROVE FALSE
    <2>1. i <= orderId[leg[i]] /\ leg[i] \in Leg
      BY <1>2 DEF TempIdNeverSent, TypeOK
    <2> QED
      BY <1>1, <2>1 DEF TypeOK
  <1> QED
    BY <1>1, <1>2

\* Giving a leg its order id (_assign_order_id_in_db) keeps the invariant.
LEMMA AssignInv ==
  ASSUME IndInv, TypeOK', Assign
  PROVE  IndInv'
  <1> USE DEF IndInv, Goto, KeepJob, KeepRest, dbVars, brokerVars, taskVars
  <1>1. PICK n \in ReqIds, i \in Id :
               IsNextOrderId(i, n) /\ orderId' = [orderId EXCEPT ![cur] = i]
    BY DEF Assign
  <1>2. /\ cur \in Leg /\ orderId \in [Leg -> Int]
        /\ leg \in [Id -> Leg] /\ status \in [Leg -> Status]
    BY DEF TypeOK
  <1>3. (\A l \in Leg : orderId[l] < i) /\ broker[i] = "none"
    BY <1>1, NextIdIsFresh
  <1>4. /\ UNCHANGED <<broker, leg, tasks, cur, todo>>
        /\ pc = "assign" /\ pc' = IF cur = Entry THEN "send" ELSE "guard"
        /\ status' = [status EXCEPT ![cur] = "Submitted"]
    BY DEF Assign
  <1>5. /\ orderId'[cur] = i
        /\ \A l \in Leg \ {cur} : orderId'[l] = orderId[l]
    BY <1>1, <1>2
  <1>6. \A j \in Id : leg[j] = cur => broker[j] \notin Open
    BY <1>4 DEF ReassignedIsClosed, MayAssign
  <1>7. OpenOrdersBooked'
    BY <1>2, <1>4, <1>5, <1>6 DEF OpenOrdersBooked
  <1>8. TempIdNeverSent'
    <2> SUFFICES ASSUME NEW j \in Id, broker[j] # "none"
                 PROVE  j <= orderId'[leg[j]]
      BY <1>4 DEF TempIdNeverSent
    <2>1. j <= orderId[leg[j]]
      BY DEF TempIdNeverSent
    <2>2. CASE leg[j] = cur
      BY <1>2, <1>3, <1>5, <2>1, <2>2
    <2>3. CASE leg[j] # cur
      BY <1>2, <1>5, <2>1, <2>3
    <2> QED
      BY <2>2, <2>3
  <1>9. IdsDistinct'
    BY <1>2, <1>3, <1>5 DEF IdsDistinct
  <1>10. ReassignedIsClosed'
    BY <1>2, <1>4, <1>6 DEF ReassignedIsClosed, MayAssign, JobShape
  <1>11. FreshBeforeSend'
    BY <1>2, <1>3, <1>4, <1>5, <1>6 DEF FreshBeforeSend
  <1>12. LockedInRelock' /\ PlacedInVerify' /\ RetriedIsOver' /\ JobShape'
    BY <1>4 DEF LockedInRelock, PlacedInVerify, RetriedIsOver, JobShape
  <1> QED
    BY <1>7, <1>8, <1>9, <1>10, <1>11, <1>12

\* placeOrder keeps the invariant: the id is fresh and the leg has no open order.
LEMMA SendInv ==
  ASSUME IndInv, TypeOK', Send
  PROVE  IndInv'
  <1> DEFINE i == orderId[cur]
  <1> USE DEF IndInv, Goto, KeepJob, KeepRest, dbVars, brokerVars, taskVars
  <1>1. /\ cur \in Leg /\ leg \in [Id -> Leg] /\ broker \in [Id -> BrokerState]
        /\ tasks \subseteq Task
    BY DEF TypeOK
  <1>2. /\ i \in Id /\ broker[i] = "none" /\ status[cur] # "Created"
        /\ \A j \in Id : leg[j] = cur => broker[j] \notin Open
    BY DEF Send, FreshBeforeSend
  <1>3. /\ UNCHANGED <<orderId, status, tasks, cur, todo>>
        /\ pc = "send" /\ pc' = "verify" /\ leg' = [leg EXCEPT ![i] = cur]
    BY DEF Send
  <1>4. broker'[i] \in Live
    BY <1>2 DEF Send, Live
  <1>5. \A j \in Id \ {i} :
          broker'[j] = broker[j] \/ (broker[j] = "held" /\ broker'[j] = "working")
    <2> TAKE j \in Id \ {i}
    <2>1. broker'[j] = IF /\ Transmit /\ ParentOf # 0 /\ broker[j] = "held"
                          /\ (j = ParentOf \/ parent[j] = ParentOf)
                       THEN "working" ELSE broker[j]
      BY DEF Send
    <2> QED
      BY <2>1
  <1>6. leg'[i] = cur /\ \A j \in Id \ {i} : leg'[j] = leg[j]
    BY <1>1, <1>2, <1>3
  <1>7. OpenOrdersBooked' /\ TempIdNeverSent' /\ IdsDistinct'
    <2>1. OpenOrdersBooked'
      BY <1>2, <1>3, <1>5, <1>6 DEF OpenOrdersBooked, Open, Live
    <2>2. TempIdNeverSent'
      BY <1>2, <1>3, <1>5, <1>6 DEF TempIdNeverSent
    <2> QED
      BY <1>3, <2>1, <2>2 DEF IdsDistinct
  <1>8. ReassignedIsClosed'
    <2> SUFFICES ASSUME NEW j \in Id, MayAssign(leg[j])'
                 PROVE  broker'[j] \notin Open
      BY DEF ReassignedIsClosed
    <2>1. leg'[j] # cur
      BY <1>2, <1>3 DEF MayAssign, JobShape
    <2>2. j # i /\ leg'[j] = leg[j]
      BY <1>6, <2>1
    <2>3. MayAssign(leg[j])
      BY <1>3, <2>2 DEF MayAssign
    <2> QED
      BY <1>5, <2>2, <2>3 DEF ReassignedIsClosed, Open, Live
  <1>9. RetriedIsOver'
    BY <1>2, <1>3, <1>5, <1>1 DEF RetriedIsOver, Dead, Task
  <1>10. FreshBeforeSend' /\ LockedInRelock' /\ PlacedInVerify' /\ JobShape'
    BY <1>2, <1>3 DEF FreshBeforeSend, LockedInRelock, PlacedInVerify, JobShape
  <1> QED
    BY <1>7, <1>8, <1>9, <1>10

\* Placing a locked order again keeps the invariant: its row still names it.
LEMMA ReplaceInv ==
  ASSUME IndInv, TypeOK', Replace \/ ReplaceRefused
  PROVE  IndInv'
  <1> DEFINE i == orderId[cur]
  <1> USE DEF IndInv, Goto, KeepJob, KeepRest, GiveUp, dbVars, brokerVars, taskVars
  <1>1. cur \in Leg /\ broker \in [Id -> BrokerState] /\ tasks \subseteq Task
    BY DEF TypeOK
  <1>2. /\ UNCHANGED <<orderId, leg, status, tasks, cur, todo>>
        /\ pc = "relock" /\ pc' \in {"next", "abort"}
    BY DEF Replace, ReplaceRefused
  <1>3. i \in Id /\ broker[i] = "locked"
    BY <1>2 DEF LockedInRelock
  <1>4. /\ broker'[i] \in {"held", "working", "rejected"}
        /\ \A j \in Id \ {i} : broker'[j] = broker[j]
    BY <1>1, <1>3 DEF Replace, ReplaceRefused
  <1>5. \A j \in Id : broker'[j] \in Open => broker[j] \in Open
    BY <1>3, <1>4 DEF Open, Live
  <1>6. OpenOrdersBooked' /\ TempIdNeverSent' /\ IdsDistinct'
    BY <1>2, <1>3, <1>4, <1>5 DEF OpenOrdersBooked, TempIdNeverSent, IdsDistinct
  <1>7. ReassignedIsClosed'
    BY <1>2, <1>5 DEF ReassignedIsClosed, MayAssign
  <1>8. RetriedIsOver'
    BY <1>1, <1>2, <1>3, <1>4 DEF RetriedIsOver, Dead, Task
  <1>9. FreshBeforeSend' /\ LockedInRelock' /\ PlacedInVerify' /\ JobShape'
    BY <1>2 DEF FreshBeforeSend, LockedInRelock, PlacedInVerify, JobShape
  <1> QED
    BY <1>6, <1>7, <1>8, <1>9

\* The execution worker keeps the invariant.
LEMMA WorkerInv == IndInv /\ TypeOK' /\ Worker => IndInv'
  BY WorkerDecides, AssignInv, SendInv, ReplaceInv DEF Worker

\* TWS never makes an order out of nothing, and nothing reopens one.
LEMMA BrokerCloses ==
  ASSUME IndInv, Broker
  PROVE  /\ UNCHANGED <<orderId, status, leg, pc, cur, todo>>
         /\ \A j \in Id : /\ broker'[j] \in Open => broker[j] \in Open
                          /\ broker'[j] = "none" <=> broker[j] = "none"
                          /\ broker[j] \in Dead \cup {"locked"} => broker'[j] = broker[j]
  <1> USE DEF IndInv, KeepProgram, dbVars, workerVars
  <1>1. PICK i \in Id : Report(i) \/ Fill(i) \/ Cancel(i) \/ Refuse(i) \/ CancelRace(i)
    BY DEF Broker
  <1>2. CASE Report(i) \/ CancelRace(i)
    BY <1>2 DEF Report, CancelRace
  <1>3. CASE Fill(i)
    BY <1>3 DEF Fill, IsLive, Open, Live, Dead
  <1>4. CASE Cancel(i)
    BY <1>4 DEF Cancel, Attached, IsLive, Open, Live, Dead
  <1>5. CASE Refuse(i)
    BY <1>5 DEF Refuse, Refused, Attached, IsLive, Open, Live, Dead
  <1> QED
    BY <1>1, <1>2, <1>3, <1>4, <1>5

\* A retriable error is only ever raised for an order that is over.
LEMMA BrokerRaises ==
  ASSUME IndInv, Broker,
         NEW t \in tasks', t \notin tasks, t.kind \in {"retriable", "retryWrite"}
  PROVE  t.id \in Id /\ broker'[t.id] \in Dead
  <1> USE DEF MkTask, RaiseError, Dead
  <1>1. PICK i \in Id : Report(i) \/ Fill(i) \/ Cancel(i) \/ Refuse(i) \/ CancelRace(i)
    BY DEF Broker
  <1>2. CASE Report(i) \/ Fill(i)
    BY <1>2 DEF Report, Fill
  <1>3. CASE Cancel(i)
    BY <1>3 DEF Cancel
  <1>4. CASE Refuse(i)
    <2>1. PICK why \in Refused :
            /\ broker' = [j \in Id |-> IF j = i THEN why
                                       ELSE IF j \in Attached(i) THEN "cancelled"
                                       ELSE broker[j]]
            /\ RaiseError({i}, IF why = "bounced" THEN "retriable" ELSE "fatal")
      BY <1>4 DEF Refuse
    <2>2. why = "bounced" /\ t.id = i
      BY <2>1
    <2> QED
      BY <2>1, <2>2
  <1>5. CASE CancelRace(i)
    BY <1>5 DEF CancelRace
  <1> QED
    BY <1>1, <1>2, <1>3, <1>4, <1>5

\* TWS keeps the invariant.
LEMMA BrokerInv == IndInv /\ TypeOK' /\ Broker => IndInv'
  <1> SUFFICES ASSUME IndInv, TypeOK', Broker PROVE IndInv'
    OBVIOUS
  <1>1. /\ UNCHANGED <<orderId, status, leg, pc, cur, todo>>
        /\ \A j \in Id : /\ broker'[j] \in Open => broker[j] \in Open
                         /\ broker'[j] = "none" <=> broker[j] = "none"
                         /\ broker[j] \in Dead \cup {"locked"} => broker'[j] = broker[j]
    BY BrokerCloses
  <1> USE DEF IndInv
  <1>2. OpenOrdersBooked' /\ TempIdNeverSent' /\ IdsDistinct'
    BY <1>1 DEF OpenOrdersBooked, TempIdNeverSent, IdsDistinct
  <1>3. ReassignedIsClosed' /\ JobShape' /\ PlacedInVerify'
    BY <1>1 DEF ReassignedIsClosed, MayAssign, JobShape, PlacedInVerify
  <1>4. FreshBeforeSend' /\ LockedInRelock'
    BY <1>1 DEF FreshBeforeSend, LockedInRelock
  <1>5. RetriedIsOver'
    <2> SUFFICES ASSUME NEW t \in tasks', t.kind \in {"retriable", "retryWrite"}
                 PROVE  broker'[t.id] \in Dead
      BY DEF RetriedIsOver
    <2>1. CASE t \in tasks
      <3>1. t.id \in Id
        BY <2>1 DEF TypeOK, Task
      <3> QED
        BY <1>1, <2>1, <3>1 DEF RetriedIsOver
    <2>2. CASE t \notin tasks
      BY <2>2, BrokerRaises
    <2> QED
      BY <2>1, <2>2
  <1> QED
    BY <1>2, <1>3, <1>4, <1>5

\* A step that only touches rows and tasks: no row of a live order, nor of one
\* about to be sent, may become Created.
LEMMA RowsInv ==
  ASSUME IndInv, TypeOK', UNCHANGED <<orderId, broker, leg, pc, cur, todo>>,
         \A l \in Leg : status'[l] = "Created" /\ status[l] # "Created"
                        => orderId[l] \in Id /\ broker[orderId[l]] \in Dead,
         RetriedIsOver'
  PROVE  IndInv'
  <1> USE DEF IndInv
  <1>1. OpenOrdersBooked' /\ TempIdNeverSent' /\ IdsDistinct'
    BY OrdersKept
  <1>2. JobShape' /\ PlacedInVerify' /\ LockedInRelock'
    BY DEF JobShape, PlacedInVerify, LockedInRelock
  <1>3. ReassignedIsClosed'
    <2> SUFFICES ASSUME NEW i \in Id, MayAssign(leg[i])', broker[i] \in Open
                 PROVE  FALSE
      BY DEF ReassignedIsClosed
    <2>1. orderId[leg[i]] = i /\ leg[i] \in Leg
      BY DEF OpenOrdersBooked, TypeOK
    <2>2. ~MayAssign(leg[i])
      BY DEF ReassignedIsClosed
    <2>3. status'[leg[i]] = "Created" /\ status[leg[i]] # "Created"
      BY <2>2 DEF MayAssign
    <2> QED
      BY <2>1, <2>3 DEF Open, Live, Dead
  <1>4. FreshBeforeSend'
    BY DEF FreshBeforeSend, Dead, TypeOK
  <1> QED
    BY <1>1, <1>2, <1>3, <1>4

\* The callback tasks and the retry handler keep the invariant.
LEMMA TasksInv == IndInv /\ TypeOK' /\ Tasks => IndInv'
  <1> SUFFICES ASSUME IndInv, TypeOK', Tasks PROVE IndInv'
    OBVIOUS
  <1> USE DEF KeepElse, brokerVars, workerVars, taskVars
  <1>a. TypeOK /\ RetriedIsOver
    BY DEF IndInv
  <1>1. ASSUME NEW i \in Id, ProcessStatus(i) PROVE IndInv'
    <2>1. \A l \in Leg : status'[l] = "Created" => status[l] = "Created"
      BY <1>1 DEF ProcessStatus, MapTwsStatus, ValidTransition
    <2>2. UNCHANGED <<orderId, broker, leg, pc, cur, todo, tasks>>
      BY <1>1 DEF ProcessStatus
    <2> QED
      BY <1>a, <2>1, <2>2, RowsInv DEF RetriedIsOver
  <1>2. ASSUME NEW t \in tasks, FailOrder(t) \/ CancelOrder(t) PROVE IndInv'
    <2>1. \A l \in Leg : status'[l] = "Created" => status[l] = "Created"
      BY <1>2 DEF FailOrder, CancelOrder, WithStatus
    <2>2. UNCHANGED <<orderId, broker, leg, pc, cur, todo>> /\ tasks' \subseteq tasks
      BY <1>2 DEF FailOrder, CancelOrder
    <2> QED
      BY <1>a, <2>1, <2>2, RowsInv DEF RetriedIsOver
  <1>3. ASSUME NEW t \in tasks, RetryRead(t) PROVE IndInv'
    <2>1. UNCHANGED <<orderId, status, broker, leg, pc, cur, todo>>
      BY <1>3 DEF RetryRead
    <2>2. broker[t.id] \in Dead
      BY <1>3, <1>a DEF RetryRead, RetriedIsOver
    <2>3. \A u \in tasks' : u \in tasks \/ u.id = t.id
      BY <1>3 DEF RetryRead
    <2> QED
      BY <1>a, <2>1, <2>2, <2>3, RowsInv DEF RetriedIsOver
  <1>4. ASSUME NEW t \in tasks, RetryWrite(t) PROVE IndInv'
    <2>1. UNCHANGED <<orderId, broker, leg, pc, cur, todo>> /\ tasks' \subseteq tasks
      BY <1>4 DEF RetryWrite
    <2>2. t.id \in Id /\ broker[t.id] \in Dead
      BY <1>4, <1>a DEF RetryWrite, RetriedIsOver, TypeOK, Task
    <2>3. \A l \in Leg : orderId[l] # t.id => status'[l] = status[l]
      BY <1>4 DEF RetryWrite, WithStatus
    <2> QED
      BY <1>a, <2>1, <2>2, <2>3, RowsInv DEF RetriedIsOver
  <1>5. CASE Requeue
    <2>1. UNCHANGED <<orderId, status, broker, leg, pc, cur, todo, tasks>>
      BY <1>5 DEF Requeue
    <2> QED
      BY <1>a, <2>1, RowsInv DEF RetriedIsOver
  <1> QED
    BY <1>1, <1>2, <1>3, <1>4, <1>5 DEF Tasks

\* The recovery run keeps the invariant: it never makes a row Created.
LEMMA RecoveryInv == IndInv /\ TypeOK' /\ Recovery => IndInv'
  <1> SUFFICES ASSUME IndInv, TypeOK', Recovery PROVE IndInv'
    OBVIOUS
  <1> USE DEF KeepOthers, dbVars, brokerVars, workerVars, taskVars
  <1>a. TypeOK /\ RetriedIsOver
    BY DEF IndInv
  <1>1. CASE RecoveryStart \/ RecoveryLoad \/ RecoveryDone \/ \E l \in Leg : RequeueRow(l)
    <2>1. UNCHANGED <<orderId, status, broker, leg, pc, cur, todo, tasks>>
      BY <1>1 DEF RecoveryStart, RecoveryLoad, RecoveryDone, RequeueRow
    <2> QED
      BY <1>a, <2>1, RowsInv DEF RetriedIsOver
  <1>2. ASSUME NEW l \in Leg, RecoverRow(l) PROVE IndInv'
    <2>1. UNCHANGED <<orderId, broker, leg, pc, cur, todo, tasks>>
      BY <1>2 DEF RecoverRow
    <2>2. PICK s \in Verdicts(l) :
                 status' = WithStatus(rId[l], s) \/ status' = status
      BY <1>2 DEF RecoverRow
    <2>3. s # "Created"
      BY VerdictStatus
    <2>4. \A m \in Leg : status'[m] = "Created" => status[m] = "Created"
      BY <2>2, <2>3 DEF WithStatus
    <2> QED
      BY <1>a, <2>1, <2>4, RowsInv DEF RetriedIsOver
  <1> QED
    BY <1>1, <1>2 DEF Recovery

\* Disconnections and crashes keep the invariant.
LEMMA OutageInv == IndInv /\ TypeOK' /\ (Disconnect \/ Crash) => IndInv'
  <1> SUFFICES ASSUME IndInv, TypeOK', Disconnect \/ Crash PROVE IndInv'
    OBVIOUS
  <1> USE DEF dbVars, brokerVars, workerVars, taskVars
  <1>a. TypeOK /\ RetriedIsOver
    BY DEF IndInv
  <1>1. CASE Disconnect
    <2>1. UNCHANGED <<orderId, status, broker, leg, pc, cur, todo, tasks>>
      BY <1>1 DEF Disconnect
    <2> QED
      BY <1>a, <2>1, RowsInv DEF RetriedIsOver
  <1>2. CASE Crash
    <2>1. /\ UNCHANGED <<orderId, status, broker, leg>>
          /\ pc' = "idle" /\ cur' = Entry /\ todo' = {} /\ tasks' = {}
      BY <1>2 DEF Crash
    <2>2. OpenOrdersBooked' /\ TempIdNeverSent' /\ IdsDistinct'
      BY <2>1, OrdersKept
    <2>3. ReassignedIsClosed'
      BY <2>1 DEF IndInv, ReassignedIsClosed, MayAssign
    <2>4. /\ FreshBeforeSend' /\ LockedInRelock' /\ PlacedInVerify'
          /\ RetriedIsOver' /\ JobShape'
      BY <2>1 DEF FreshBeforeSend, LockedInRelock, PlacedInVerify, RetriedIsOver,
                  JobShape
    <2> QED
      BY <2>2, <2>3, <2>4 DEF IndInv
  <1> QED
    BY <1>1, <1>2

\* Every step keeps the invariant.
LEMMA NextInv == IndInv /\ [Next]_vars => IndInv'
  <1> SUFFICES ASSUME IndInv, [Next]_vars PROVE IndInv'
    OBVIOUS
  <1>1. TypeOK'
    BY NextType DEF IndInv
  <1>2. CASE UNCHANGED vars
    BY <1>1, <1>2, RowsInv DEF IndInv, RetriedIsOver, vars, dbVars, brokerVars,
                               workerVars, taskVars
  <1>3. CASE Next
    BY <1>1, <1>3, WorkerInv, BrokerInv, TasksInv, RecoveryInv, OutageInv DEF Next
  <1> QED
    BY <1>2, <1>3

\* The invariant that the theorems below rest on holds in every behaviour.
THEOREM Inductive == Spec => []IndInv
  BY InitInv, NextInv, PTL DEF Spec

\* Every live order is the one its leg's row names: however retries, crashes,
\* reconnections and recovery interleave with the worker, no order is orphaned.
THEOREM NoOrphan == Spec => []LiveOrdersBooked
  <1>1. IndInv => LiveOrdersBooked
    BY DEF IndInv, OpenOrdersBooked, LiveOrdersBooked, Open, IsLive
  <1> QED
    BY <1>1, Inductive, PTL

\* No order id is used twice, and a leg with its temporary id was never sent:
\* what recovery's re-queueing of Created rows relies on.
THEOREM IdsGrow == Spec => []TempIdNeverSent
  <1>1. IndInv => TempIdNeverSent
    BY DEF IndInv
  <1> QED
    BY <1>1, Inductive, PTL

----------------------------------------------------------------------------
(* No leg is executed twice, unless code 10148 is classified as retriable. *)

\* A leg filled before the start is not to be sent.
LEMMA InitFill == Init => FilledNotResent /\ RetriedIsBounced
  BY DEF Init, FilledNotResent, RetriedIsBounced, MayAssign

\* A step that fills no order and that offers no leg for sending anew, other than
\* legs whose current order has bounced, keeps the filled legs closed.
LEMMA FilledKept ==
  ASSUME IndInv, FilledNotResent,
         UNCHANGED orderId,
         \A i \in Id : broker'[i] = "filled" => broker[i] = "filled" /\ leg'[i] = leg[i],
         \A l \in Leg : MayAssign(l)' =>
             \/ MayAssign(l)
             \/ orderId[l] \in Id /\ broker[orderId[l]] = "bounced"
  PROVE  FilledNotResent'
  BY DEF IndInv, TypeOK, FilledNotResent

\* Worker steps that neither assign an id nor place an order offer no further leg
\* for sending, and leave ids, orders and errors alone.
LEMMA WorkerAsksNoMore ==
  ASSUME IndInv, Worker, ~Assign, ~Send, ~Replace, ~ReplaceRefused
  PROVE  /\ UNCHANGED <<orderId, broker, leg, parent, heard, statusQ, tasks>>
         /\ \A l \in Leg : MayAssign(l)' => MayAssign(l)
  <1> USE DEF Goto, KeepJob, KeepRest, dbVars, brokerVars, queueVars, workerVars,
              taskVars, recVars, sessVars
  <1>a. TypeOK
    BY DEF IndInv
  <1>b. UNCHANGED <<orderId, broker, leg, parent, heard, statusQ, tasks>>
    BY DEF Worker, Take, CheckPasses, CheckRefuses, CheckNeedsToken, Authorized,
           ReauthExpires, Abort, NextChild, GroupDone, AdjustKeeps, AdjustCancels,
           GuardPasses, GuardSkips, SendRaises, Accepted, RejectionSeen, LockSeen,
           RelockExpires, RelockRefuses
  <1>c. \A l \in Leg : MayAssign(l)' => MayAssign(l)
    <2> USE DEF MayAssign, TypeOK
    <2>1. CASE Take
      BY <1>a, <2>1 DEF Take
    <2>2. CASE CheckPasses
      BY <1>a, <2>2 DEF CheckPasses
    <2>3. CASE CheckRefuses
      BY <1>a, <2>3 DEF CheckRefuses, GiveUp, WithStatus
    <2>4. CASE CheckNeedsToken
      BY <1>a, <2>4 DEF CheckNeedsToken
    <2>5. CASE Authorized
      BY <1>a, <2>5 DEF Authorized
    <2>6. CASE ReauthExpires
      BY <1>a, <2>6 DEF ReauthExpires, GiveUp
    <2>7. CASE Abort
      BY <1>a, <2>7 DEF Abort
    <2>8. CASE NextChild
      BY <1>a, <2>8 DEF NextChild
    <2>9. CASE GroupDone
      BY <1>a, <2>9 DEF GroupDone
    <2>10. CASE AdjustKeeps
      BY <1>a, <2>10 DEF AdjustKeeps
    <2>11. CASE AdjustCancels
      BY <1>a, <2>11 DEF AdjustCancels, WithStatus
    <2>12. CASE GuardPasses
      BY <1>a, <2>12 DEF GuardPasses
    <2>13. CASE GuardSkips
      BY <1>a, <2>13 DEF GuardSkips, WithStatus
    <2>14. CASE SendRaises
      BY <1>a, <2>14 DEF SendRaises
    <2>15. CASE Accepted
      BY <1>a, <2>15 DEF Accepted
    <2>16. CASE RejectionSeen
      BY <1>a, <2>16 DEF RejectionSeen, GiveUp, WithStatus
    <2>17. CASE LockSeen
      BY <1>a, <2>17 DEF LockSeen
    <2>18. CASE RelockExpires
      BY <1>a, <2>18 DEF RelockExpires, GiveUp
    <2>19. CASE RelockRefuses
      BY <1>a, <2>19 DEF RelockRefuses, GiveUp, WithStatus
    <2> QED
      BY <2>1, <2>2, <2>3, <2>4, <2>5, <2>6, <2>7, <2>8, <2>9, <2>10, <2>11, <2>12,
         <2>13, <2>14, <2>15, <2>16, <2>17, <2>18, <2>19 DEF Worker
  <1> QED
    BY <1>b, <1>c

\* The worker sends no filled leg again.
LEMMA WorkerFill ==
  ASSUME IndInv, FilledNotResent, RetriedIsBounced, Worker
  PROVE  FilledNotResent' /\ RetriedIsBounced'
  <1> USE DEF Goto, KeepJob, KeepRest, dbVars, brokerVars, queueVars, workerVars,
              taskVars, recVars, sessVars
  <1>a. TypeOK /\ tasks \subseteq Task
    BY DEF IndInv, TypeOK
  <1>1. CASE Assign
    <2>1. PICK i \in Id : orderId' = [orderId EXCEPT ![cur] = i]
      BY <1>1 DEF Assign
    <2>2. /\ UNCHANGED <<broker, leg, tasks, cur, todo>> /\ pc' \in {"send", "guard"}
          /\ status' = [status EXCEPT ![cur] = "Submitted"] /\ pc = "assign"
      BY <1>1 DEF Assign
    <2>3. \A j \in Id : broker[j] = "filled" => leg[j] # cur
      BY <2>2 DEF FilledNotResent, MayAssign
    <2>4. FilledNotResent'
      BY <1>a, <2>1, <2>2, <2>3 DEF FilledNotResent, MayAssign, TypeOK
    <2> QED
      BY <2>2, <2>4 DEF RetriedIsBounced
  <1>2. CASE Send
    <2> DEFINE i == orderId[cur]
    <2>1. /\ i \in Id /\ broker[i] = "none" /\ cur \in Leg
          /\ broker \in [Id -> BrokerState] /\ leg \in [Id -> Leg]
      BY <1>2 DEF IndInv, TypeOK, Send, FreshBeforeSend
    <2>2. /\ UNCHANGED <<orderId, status, tasks, cur, todo>>
          /\ pc = "send" /\ pc' = "verify" /\ leg' = [leg EXCEPT ![i] = cur]
      BY <1>2 DEF Send
    <2>3. broker'[i] \in Live
      BY <1>2, <2>1 DEF Send, Live
    <2>4. \A j \in Id \ {i} :
            broker'[j] = broker[j] \/ (broker[j] = "held" /\ broker'[j] = "working")
      <3> TAKE j \in Id \ {i}
      <3>1. broker'[j] = IF /\ Transmit /\ ParentOf # 0 /\ broker[j] = "held"
                            /\ (j = ParentOf \/ parent[j] = ParentOf)
                         THEN "working" ELSE broker[j]
        BY <1>2 DEF Send
      <3> QED
        BY <3>1
    <2>5. \A j \in Id : broker'[j] = "filled" => broker[j] = "filled" /\ leg'[j] = leg[j]
      BY <2>1, <2>2, <2>3, <2>4 DEF Live
    <2>6. \A l \in Leg : MayAssign(l)' => MayAssign(l)
      BY <2>2 DEF MayAssign
    <2>7. FilledNotResent'
      BY <2>2, <2>5, <2>6, FilledKept
    <2> QED
      BY <1>a, <2>1, <2>2, <2>4, <2>7 DEF RetriedIsBounced, Task
  <1>3. CASE Replace \/ ReplaceRefused
    <2>1. /\ UNCHANGED <<orderId, leg, status, tasks, cur, todo>>
          /\ pc = "relock" /\ pc' \in {"next", "abort"}
      BY <1>3 DEF Replace, ReplaceRefused, GiveUp
    <2>2. orderId[cur] \in Id /\ broker[orderId[cur]] = "locked"
      BY <2>1 DEF IndInv, LockedInRelock
    <2>3. /\ broker'[orderId[cur]] \in {"held", "working", "rejected"}
          /\ \A j \in Id \ {orderId[cur]} : broker'[j] = broker[j]
      <3>1. broker \in [Id -> BrokerState]
        BY <1>a DEF TypeOK
      <3> QED
        BY <1>3, <2>2, <3>1 DEF Replace, ReplaceRefused
    <2>4. \A l \in Leg : MayAssign(l)' => MayAssign(l)
      BY <2>1 DEF MayAssign
    <2>5. FilledNotResent'
      BY <2>1, <2>2, <2>3, <2>4, FilledKept
    <2> QED
      BY <1>a, <2>1, <2>2, <2>3, <2>5 DEF RetriedIsBounced, Task
  <1>4. CASE Worker /\ ~Assign /\ ~Send /\ ~Replace /\ ~ReplaceRefused
    <2>1. /\ UNCHANGED <<orderId, broker, leg, tasks>>
          /\ \A l \in Leg : MayAssign(l)' => MayAssign(l)
      BY <1>4, WorkerAsksNoMore
    <2>2. FilledNotResent'
      BY <2>1, FilledKept
    <2> QED
      BY <2>1, <2>2 DEF RetriedIsBounced
  <1> QED
    BY <1>1, <1>2, <1>3, <1>4

\* A fill closes its leg for good, and only bounced orders are retried.
LEMMA BrokerFill ==
  ASSUME "cancelRace" \notin Faults,
         IndInv, FilledNotResent, RetriedIsBounced, Broker
  PROVE  FilledNotResent' /\ RetriedIsBounced'
  <1>1. /\ UNCHANGED <<orderId, status, leg, pc, cur, todo>>
        /\ \A j \in Id : /\ broker'[j] \in Open => broker[j] \in Open
                         /\ broker'[j] = "none" <=> broker[j] = "none"
                         /\ broker[j] \in Dead \cup {"locked"} => broker'[j] = broker[j]
    BY BrokerCloses
  <1>2. PICK i \in Id : Report(i) \/ Fill(i) \/ Cancel(i) \/ Refuse(i) \/ CancelRace(i)
    BY DEF Broker
  <1>3. \A j \in Id : broker'[j] = "filled" => broker[j] \in {"filled"} \cup Open
    <2>1. CASE Report(i) \/ CancelRace(i)
      BY <2>1 DEF Report, CancelRace
    <2>2. CASE Fill(i)
      BY <2>2 DEF Fill, Open, Live
    <2>3. CASE Cancel(i)
      BY <2>3 DEF Cancel
    <2>4. CASE Refuse(i)
      BY <2>4 DEF Refuse, Refused
    <2> QED
      BY <1>2, <2>1, <2>2, <2>3, <2>4
  <1>4. FilledNotResent'
    <2> SUFFICES ASSUME NEW j \in Id, broker'[j] = "filled"
                 PROVE  orderId[leg[j]] = j /\ ~MayAssign(leg[j])
      BY <1>1 DEF FilledNotResent, MayAssign
    <2>1. CASE broker[j] = "filled"
      BY <2>1 DEF FilledNotResent
    <2>2. CASE broker[j] \in Open
      BY <2>2 DEF IndInv, OpenOrdersBooked, ReassignedIsClosed
    <2> QED
      BY <1>3, <2>1, <2>2
  <1>5. RetriedIsBounced'
    <2> SUFFICES ASSUME NEW t \in tasks', t.kind \in {"retriable", "retryWrite"}
                 PROVE  broker'[t.id] = "bounced"
      BY DEF RetriedIsBounced
    <2>1. CASE t \in tasks
      <3>1. t.id \in Id
        BY <2>1 DEF IndInv, TypeOK, Task
      <3> QED
        BY <1>1, <2>1, <3>1 DEF RetriedIsBounced, Dead
    <2>2. CASE t \notin tasks
      <3> USE DEF MkTask, RaiseError
      <3>1. CASE Report(i) \/ Fill(i)
        BY <2>2, <3>1 DEF Report, Fill
      <3>2. CASE Cancel(i)
        BY <2>2, <3>2 DEF Cancel
      <3>3. CASE Refuse(i)
        <4>1. PICK why \in Refused :
                /\ broker' = [j \in Id |-> IF j = i THEN why
                                           ELSE IF j \in Attached(i) THEN "cancelled"
                                           ELSE broker[j]]
                /\ RaiseError({i}, IF why = "bounced" THEN "retriable" ELSE "fatal")
          BY <3>3 DEF Refuse
        <4>2. why = "bounced" /\ t.id = i
          BY <2>2, <4>1
        <4> QED
          BY <4>1, <4>2
      <3>4. ~CancelRace(i)
        BY DEF CancelRace
      <3> QED
        BY <1>2, <3>1, <3>2, <3>3, <3>4
    <2> QED
      BY <2>1, <2>2
  <1> QED
    BY <1>4, <1>5

\* The callback tasks and the retry handler reopen no filled leg.
LEMMA TasksFill ==
  ASSUME IndInv, FilledNotResent, RetriedIsBounced, Tasks
  PROVE  FilledNotResent' /\ RetriedIsBounced'
  <1> USE DEF KeepElse, brokerVars, workerVars, taskVars
  <1>a. UNCHANGED <<orderId, broker, leg, pc, cur, todo>>
    BY DEF Tasks, ProcessStatus, FailOrder, CancelOrder, RetryRead, RetryWrite, Requeue
  <1>b. RetriedIsBounced'
    <2>1. ASSUME NEW t \in tasks, RetryRead(t) PROVE RetriedIsBounced'
      BY <1>a, <2>1 DEF RetryRead, RetriedIsBounced
    <2>2. CASE tasks' \subseteq tasks
      BY <1>a, <2>2 DEF RetriedIsBounced
    <2> QED
      BY <2>1, <2>2 DEF Tasks, ProcessStatus, FailOrder, CancelOrder, RetryWrite, Requeue
  <1>c. \A l \in Leg : status'[l] = "Created" =>
          status[l] = "Created" \/ (orderId[l] \in Id /\ broker[orderId[l]] = "bounced")
    <2>1. ASSUME NEW i \in Id, ProcessStatus(i)
          PROVE  \A l \in Leg : status'[l] = "Created" => status[l] = "Created"
      BY <2>1 DEF ProcessStatus, MapTwsStatus, ValidTransition
    <2>2. ASSUME NEW t \in tasks, FailOrder(t) \/ CancelOrder(t) \/ RetryRead(t) \/ Requeue
          PROVE  \A l \in Leg : status'[l] = "Created" => status[l] = "Created"
      BY <2>2 DEF FailOrder, CancelOrder, RetryRead, Requeue, WithStatus
    <2>3. ASSUME NEW t \in tasks, RetryWrite(t)
          PROVE  \A l \in Leg : orderId[l] # t.id => status'[l] = status[l]
      BY <2>3 DEF RetryWrite, WithStatus
    <2>4. \A t \in tasks : RetryWrite(t) => t.id \in Id /\ broker[t.id] = "bounced"
      BY DEF IndInv, TypeOK, Task, RetriedIsBounced, RetryWrite
    <2>5. CASE Requeue
      BY <2>5 DEF Requeue
    <2> QED
      BY <2>1, <2>2, <2>3, <2>4, <2>5 DEF Tasks
  <1>d. FilledNotResent'
    BY <1>a, <1>c, FilledKept DEF MayAssign
  <1> QED
    BY <1>b, <1>d

\* Recovery and outages reopen no filled leg.
LEMMA OtherFill ==
  ASSUME IndInv, FilledNotResent, RetriedIsBounced,
         Recovery \/ Disconnect \/ Crash \/ UNCHANGED vars
  PROVE  FilledNotResent' /\ RetriedIsBounced'
  <1> USE DEF KeepOthers, dbVars, brokerVars, workerVars, taskVars
  <1>1. UNCHANGED <<orderId, broker, leg>> /\ tasks' \subseteq tasks
    BY DEF Recovery, RecoveryStart, RecoveryLoad, RecoverRow, RequeueRow, RecoveryDone,
           Disconnect, Crash, vars
  <1>2. \A l \in Leg : status'[l] = "Created" => status[l] = "Created"
    <2>1. ASSUME NEW l \in Leg, RecoverRow(l)
          PROVE  \A m \in Leg : status'[m] = "Created" => status[m] = "Created"
      <3>1. PICK s \in Verdicts(l) :
                   status' = WithStatus(rId[l], s) \/ status' = status
        BY <2>1 DEF RecoverRow
      <3>2. s # "Created"
        BY VerdictStatus
      <3> QED
        BY <3>1, <3>2 DEF WithStatus
    <2>2. CASE UNCHANGED status
      BY <2>2
    <2> QED
      BY <2>1, <2>2 DEF Recovery, RecoveryStart, RecoveryLoad, RequeueRow, RecoveryDone,
                        Disconnect, Crash, vars
  <1>3. \/ UNCHANGED <<pc, cur, todo>>
        \/ pc' = "idle" /\ todo' = {}
    BY DEF Recovery, RecoveryStart, RecoveryLoad, RecoverRow, RequeueRow, RecoveryDone,
           Disconnect, Crash, vars
  <1>4. FilledNotResent'
    BY <1>1, <1>2, <1>3, FilledKept DEF MayAssign
  <1> QED
    BY <1>1, <1>4 DEF RetriedIsBounced

\* Without code 10148 (classified as RETRIABLE by error_codes.py) for a finished
\* order, no leg is executed twice: retries, crashes, lost sessions and recovery
\* never send a leg again whose order was filled.
THEOREM FilledOnce ==
  ASSUME "cancelRace" \notin Faults
  PROVE  Spec => []OneFillPerLeg
  <1> DEFINE Inv == IndInv /\ FilledNotResent /\ RetriedIsBounced
  <1>1. Init => Inv
    BY InitInv, InitFill
  <1>2. Inv /\ [Next]_vars => Inv'
    BY NextInv, WorkerFill, BrokerFill, TasksFill, OtherFill DEF Next
  <1>3. Inv => OneFillPerLeg
    BY DEF FilledNotResent, OneFillPerLeg
  <1> QED
    BY <1>1, <1>2, <1>3, PTL DEF Spec
==============================================================================
