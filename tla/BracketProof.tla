---------------------------- MODULE BracketProof ----------------------------
(***************************************************************************)
(* Theorems about the bracket of a trade group: an entry is never active   *)
(* without an exit, no order stays untransmitted, and the table agrees     *)
(* with TWS.  Each holds for any exits, ids and bounds, under the scope    *)
(* that its definition below names: outside of it the Find configurations  *)
(* show how the program breaks it.                                         *)
(***************************************************************************)
EXTENDS OrderLifecycleProof

USE LifecycleAssumption DEF Leg, Id

----------------------------------------------------------------------------
(* An entry has an exit.                                                   *)

\* No order bounces with a retriable code: a retried entry goes out alone
\* (FindNaked).  Anything else may happen.
BracketScope == "bounce" \notin Faults

\* What an id stands for does not change: the row that names a sent order is its
\* leg's, only exits have a parent, and an unused id has neither.
OrdersOwned ==
    /\ \A l \in Leg : orderId[l] \in Id /\ broker[orderId[l]] # "none" => leg[orderId[l]] = l
    /\ \A i \in Id : /\ leg[i] = Entry => parent[i] = 0
                     /\ broker[i] = "none" => leg[i] = Entry

\* As long as the entry is Created nothing of the group has been sent.
EntryUnsent ==
    status[Entry] = "Created" =>
        /\ \A l \in Leg : status[l] = "Created" /\ orderId[l] < 0
        /\ pc \in {"idle", "check", "reauth"} \/ (pc = "assign" /\ cur = Entry)

\* While the worker handles the entry an exit, if there are any, is to be sent.
ExitToCome ==
    cur = Entry /\ pc \notin {"idle", "abort", "next"} => todo # {} \/ Child = {}

\* Only exits are retried (code 10148).
RetriedIsExit ==
    \A t \in tasks : t.kind \in {"retriable", "retryWrite"} => leg[t.id] \in Child

ExitInv ==
    /\ OrdersOwned /\ EntryUnsent /\ ExitToCome /\ RetriedIsExit
    /\ Child # {} => EntryHasExit


\* The invariant holds for an imported group.
LEMMA InitExit == Init => ExitInv
  BY DEF Init, ExitInv, OrdersOwned, EntryUnsent, ExitToCome, RetriedIsExit, EntryHasExit

\* Worker steps that neither assign an id nor place an order: a group whose entry
\* is Created is taken with all its exits.
LEMMA WorkerDecidesExit ==
  ASSUME IndInv, ExitInv,
         Take \/ CheckPasses \/ CheckRefuses \/ CheckNeedsToken \/ Authorized \/ ReauthExpires
         \/ Abort \/ NextChild \/ GroupDone \/ AdjustKeeps \/ AdjustCancels \/ GuardPasses
         \/ GuardSkips \/ SendRaises \/ Accepted \/ RejectionSeen \/ LockSeen
         \/ RelockExpires \/ RelockRefuses
  PROVE  ExitInv'
  <1> USE DEF Goto, KeepJob, KeepRest, dbVars, brokerVars, taskVars
  <1>a. /\ cur \in Leg /\ todo \subseteq Child /\ status \in [Leg -> Status]
        /\ JobShape /\ EntryUnsent /\ ExitToCome
    BY DEF IndInv, TypeOK, ExitInv
  <1>b. UNCHANGED <<orderId, broker, leg, parent, tasks>>
    BY DEF Take, CheckPasses, CheckRefuses, CheckNeedsToken, Authorized, ReauthExpires,
           Abort, NextChild, GroupDone, AdjustKeeps, AdjustCancels, GuardPasses,
           GuardSkips, SendRaises, Accepted, RejectionSeen, LockSeen, RelockExpires,
           RelockRefuses
  <1>c. OrdersOwned' /\ RetriedIsExit' /\ (Child # {} => EntryHasExit')
    BY <1>b DEF ExitInv, OrdersOwned, RetriedIsExit, EntryHasExit
  <1>d. EntryUnsent' /\ ExitToCome'
    <2> USE DEF EntryUnsent, ExitToCome, JobShape
    <2>1. CASE Take
      BY <1>a, <1>b, <2>1 DEF Take
    <2>2. CASE CheckPasses
      BY <1>a, <1>b, <2>2 DEF CheckPasses
    <2>3. CASE CheckRefuses
      BY <1>a, <1>b, <2>3 DEF CheckRefuses, GiveUp, WithStatus
    <2>4. CASE CheckNeedsToken
      BY <1>a, <1>b, <2>4 DEF CheckNeedsToken
    <2>5. CASE Authorized
      BY <1>a, <1>b, <2>5 DEF Authorized
    <2>6. CASE ReauthExpires
      BY <1>a, <1>b, <2>6 DEF ReauthExpires, GiveUp
    <2>7. CASE Abort
      BY <1>a, <1>b, <2>7 DEF Abort
    <2>8. CASE NextChild
      BY <1>a, <1>b, <2>8 DEF NextChild
    <2>9. CASE GroupDone
      BY <1>a, <1>b, <2>9 DEF GroupDone
    <2>10. CASE AdjustKeeps
      BY <1>a, <1>b, <2>10 DEF AdjustKeeps
    <2>11. CASE AdjustCancels
      BY <1>a, <1>b, <2>11 DEF AdjustCancels, WithStatus
    <2>12. CASE GuardPasses
      BY <1>a, <1>b, <2>12 DEF GuardPasses
    <2>13. CASE GuardSkips
      BY <1>a, <1>b, <2>13 DEF GuardSkips, WithStatus
    <2>14. CASE SendRaises
      BY <1>a, <1>b, <2>14 DEF SendRaises
    <2>15. CASE Accepted
      BY <1>a, <1>b, <2>15 DEF Accepted
    <2>16. CASE RejectionSeen
      BY <1>a, <1>b, <2>16 DEF RejectionSeen, GiveUp, WithStatus
    <2>17. CASE LockSeen
      BY <1>a, <1>b, <2>17 DEF LockSeen
    <2>18. CASE RelockExpires
      BY <1>a, <1>b, <2>18 DEF RelockExpires, GiveUp
    <2>19. CASE RelockRefuses
      BY <1>a, <1>b, <2>19 DEF RelockRefuses, GiveUp, WithStatus
    <2> QED
      BY <2>1, <2>2, <2>3, <2>4, <2>5, <2>6, <2>7, <2>8, <2>9, <2>10, <2>11, <2>12,
         <2>13, <2>14, <2>15, <2>16, <2>17, <2>18, <2>19
  <1> QED
    BY <1>c, <1>d DEF ExitInv

\* A leg is given an id no order has had.
LEMMA AssignExit ==
  ASSUME IndInv, ExitInv, Assign
  PROVE  ExitInv'
  <1> USE DEF Goto, KeepJob, KeepRest, dbVars, brokerVars, taskVars
  <1>1. /\ TypeOK /\ TempIdNeverSent
        /\ cur \in Leg /\ orderId \in [Leg -> Int] /\ status \in [Leg -> Status]
    BY DEF IndInv, TypeOK
  <1>2. PICK n \in ReqIds, i \in Id :
               IsNextOrderId(i, n) /\ orderId' = [orderId EXCEPT ![cur] = i]
    BY DEF Assign
  <1>3. broker[i] = "none"
    BY <1>1, <1>2, NextIdIsFresh
  <1>4. /\ UNCHANGED <<broker, leg, parent, tasks, cur, todo>>
        /\ pc = "assign" /\ pc' = IF cur = Entry THEN "send" ELSE "guard"
        /\ status' = [status EXCEPT ![cur] = "Submitted"]
    BY DEF Assign
  <1>5. OrdersOwned'
    BY <1>1, <1>2, <1>3, <1>4 DEF ExitInv, OrdersOwned
  <1>6. EntryUnsent'
    BY <1>1, <1>4 DEF ExitInv, EntryUnsent
  <1>7. ExitToCome'
    BY <1>4 DEF ExitInv, ExitToCome
  <1> QED
    BY <1>4, <1>5, <1>6, <1>7 DEF ExitInv, RetriedIsExit, EntryHasExit

\* The entry is placed untransmitted, for an exit is to come, and only the last
\* exit of its job, placed with the entry as its parent, releases it.
LEMMA SendExit ==
  ASSUME IndInv, ExitInv, Send
  PROVE  ExitInv'
  <1> DEFINE i == orderId[cur]
  <1> USE DEF Goto, KeepJob, KeepRest, dbVars, brokerVars, taskVars
  <1>1. /\ cur \in Leg /\ todo \subseteq Child /\ tasks \subseteq Task
        /\ leg \in [Id -> Leg] /\ broker \in [Id -> BrokerState]
        /\ parent \in [Id -> Int] /\ orderId \in [Leg -> Int] /\ IdsDistinct
    BY DEF IndInv, TypeOK
  <1>2. i \in Id /\ broker[i] = "none"
    BY DEF IndInv, Send, FreshBeforeSend
  <1>3. /\ UNCHANGED <<orderId, status, tasks, cur, todo, postFill>>
        /\ pc = "send" /\ pc' = "verify"
        /\ leg' = [leg EXCEPT ![i] = cur] /\ parent' = [parent EXCEPT ![i] = ParentOf]
    BY DEF Send
  <1>4. /\ leg'[i] = cur /\ parent'[i] = ParentOf
        /\ \A j \in Id \ {i} : leg'[j] = leg[j] /\ parent'[j] = parent[j]
    BY <1>1, <1>2, <1>3
  <1>5. broker'[i] = IF Transmit THEN "working" ELSE "held"
    BY <1>2 DEF Send
  <1>6. \A j \in Id \ {i} :
          broker'[j] = IF /\ Transmit /\ ParentOf # 0 /\ broker[j] = "held"
                          /\ (j = ParentOf \/ parent[j] = ParentOf)
                       THEN "working" ELSE broker[j]
    BY DEF Send
  <1>7. OrdersOwned'
    <2>1. ASSUME NEW l \in Leg, orderId'[l] \in Id, broker'[orderId'[l]] # "none"
          PROVE  leg'[orderId'[l]] = l
      <3>1. CASE l = cur
        BY <1>3, <1>4, <3>1
      <3>2. CASE l # cur
        <4>1. orderId[l] \in Id \ {i}
          BY <1>1, <1>3, <2>1, <3>2 DEF IdsDistinct
        <4>2. broker[orderId[l]] # "none"
          BY <1>3, <1>6, <2>1, <4>1
        <4> QED
          BY <1>3, <1>4, <4>1, <4>2 DEF ExitInv, OrdersOwned
      <3> QED
        BY <3>1, <3>2
    <2>2. ASSUME NEW j \in Id, leg'[j] = Entry
          PROVE  parent'[j] = 0
      <3>1. CASE j = i
        BY <1>4, <2>2, <3>1 DEF ParentOf
      <3>2. CASE j # i
        BY <1>4, <2>2, <3>2 DEF ExitInv, OrdersOwned
      <3> QED
        BY <3>1, <3>2
    <2>3. ASSUME NEW j \in Id, broker'[j] = "none"
          PROVE  leg'[j] = Entry
      <3>1. j # i
        BY <1>5, <2>3
      <3>2. broker[j] = "none"
        BY <1>6, <2>3, <3>1
      <3> QED
        BY <1>4, <3>1, <3>2 DEF ExitInv, OrdersOwned
    <2> QED
      BY <2>1, <2>2, <2>3 DEF OrdersOwned
  <1>8. EntryUnsent' /\ ExitToCome' /\ RetriedIsExit'
    <2>1. EntryUnsent' /\ ExitToCome'
      BY <1>3 DEF ExitInv, EntryUnsent, ExitToCome
    <2>2. ASSUME NEW t \in tasks, t.kind \in {"retriable", "retryWrite"}
          PROVE  leg'[t.id] = leg[t.id]
      <3>1. t.id \in Id /\ broker[t.id] \in Dead
        BY <1>1, <2>2 DEF Task, IndInv, RetriedIsOver
      <3> QED
        BY <1>2, <1>4, <3>1 DEF Dead
    <2> QED
      BY <1>3, <2>1, <2>2 DEF ExitInv, RetriedIsExit
  <1>9. ASSUME Child # {} PROVE EntryHasExit'
    <2> SUFFICES ASSUME NEW j \in Id, leg'[j] = Entry, broker'[j] = "working"
                 PROVE  \E k \in Id : leg'[k] \in Child /\ parent'[k] = j
      BY DEF EntryHasExit
    <2>1. j # i
      <3> SUFFICES ASSUME j = i PROVE FALSE
        OBVIOUS
      <3>1. cur = Entry
        BY <1>4
      <3>2. todo # {}
        BY <1>3, <1>9, <3>1 DEF ExitInv, ExitToCome
      <3> QED
        BY <1>5, <3>1, <3>2 DEF Transmit
    <2>2. leg[j] = Entry /\ parent[j] = 0
      BY <1>4, <2>1 DEF ExitInv, OrdersOwned
    <2>3. CASE broker[j] = "working"
      <3>1. PICK k \in Id : leg[k] \in Child /\ parent[k] = j
        BY <1>9, <2>2, <2>3 DEF ExitInv, EntryHasExit
      <3>2. k # i
        BY <1>2, <3>1 DEF ExitInv, OrdersOwned
      <3> QED
        BY <1>4, <3>1, <3>2
    <2>4. CASE broker[j] # "working"
      <3>1. ParentOf # 0 /\ j = ParentOf
        BY <1>6, <2>1, <2>2, <2>4
      <3>2. cur \in Child
        BY <1>1, <3>1 DEF ParentOf
      <3> QED
        BY <1>2, <1>4, <3>1, <3>2
    <2> QED
      BY <2>3, <2>4
  <1> QED
    BY <1>7, <1>8, <1>9 DEF ExitInv

\* An order placed again after a token was confirmed is held as before.
LEMMA ReplaceExit ==
  ASSUME IndInv, ExitInv, Replace \/ ReplaceRefused
  PROVE  ExitInv'
  <1> DEFINE i == orderId[cur]
  <1> USE DEF Goto, KeepJob, KeepRest, GiveUp, dbVars, brokerVars, taskVars
  <1>1. cur \in Leg /\ broker \in [Id -> BrokerState]
    BY DEF IndInv, TypeOK
  <1>2. /\ UNCHANGED <<orderId, leg, parent, status, tasks, cur, todo>>
        /\ pc = "relock" /\ pc' \in {"next", "abort"}
    BY DEF Replace, ReplaceRefused
  <1>3. i \in Id /\ broker[i] = "locked"
    BY <1>2 DEF IndInv, LockedInRelock
  <1>4. /\ broker'[i] = "working" => Transmit
        /\ broker'[i] # "none"
        /\ \A j \in Id \ {i} : broker'[j] = broker[j]
    BY <1>1, <1>3 DEF Replace, ReplaceRefused
  <1>5. leg[i] = cur
    BY <1>1, <1>3 DEF ExitInv, OrdersOwned
  <1>6. OrdersOwned'
    BY <1>2, <1>3, <1>4 DEF ExitInv, OrdersOwned
  <1>7. EntryUnsent' /\ ExitToCome' /\ RetriedIsExit'
    BY <1>2 DEF ExitInv, EntryUnsent, ExitToCome, RetriedIsExit
  <1>8. ASSUME Child # {} PROVE EntryHasExit'
    <2> SUFFICES ASSUME NEW j \in Id, leg[j] = Entry, broker'[j] = "working"
                 PROVE  \E k \in Id : leg[k] \in Child /\ parent[k] = j
      BY <1>2 DEF EntryHasExit
    <2>1. CASE j = i
      BY <1>2, <1>4, <1>5, <1>8, <2>1 DEF ExitInv, ExitToCome, Transmit
    <2>2. CASE j # i
      BY <1>4, <1>8, <2>2 DEF ExitInv, EntryHasExit
    <2> QED
      BY <2>1, <2>2
  <1> QED
    BY <1>6, <1>7, <1>8 DEF ExitInv

\* The execution worker keeps the invariant.
LEMMA WorkerExit == IndInv /\ ExitInv /\ Worker => ExitInv'
  BY WorkerDecidesExit, AssignExit, SendExit, ReplaceExit DEF Worker

\* TWS activates nothing by itself, and what it lets be retried are exits.
LEMMA BrokerExit == BracketScope /\ IndInv /\ ExitInv /\ Broker => ExitInv'
  <1> SUFFICES ASSUME BracketScope, IndInv, ExitInv, Broker PROVE ExitInv'
    OBVIOUS
  <1>1. /\ UNCHANGED <<orderId, status, leg, pc, cur, todo>>
        /\ \A j \in Id : broker'[j] = "none" <=> broker[j] = "none"
    BY BrokerCloses
  <1>2. PICK i \in Id : Report(i) \/ Fill(i) \/ Cancel(i) \/ Refuse(i) \/ CancelRace(i)
    BY DEF Broker
  <1>3. /\ UNCHANGED parent
        /\ \A j \in Id : broker'[j] = "working" => broker[j] = "working"
    <2>1. CASE Report(i) \/ CancelRace(i)
      BY <2>1 DEF Report, CancelRace
    <2>2. CASE Fill(i)
      BY <2>2 DEF Fill
    <2>3. CASE Cancel(i)
      BY <2>3 DEF Cancel
    <2>4. CASE Refuse(i)
      BY <2>4 DEF Refuse, Refused
    <2> QED
      BY <1>2, <2>1, <2>2, <2>3, <2>4
  <1>4. RetriedIsExit'
    <2> SUFFICES ASSUME NEW t \in tasks', t.kind \in {"retriable", "retryWrite"}
                 PROVE  leg[t.id] \in Child
      BY <1>1 DEF RetriedIsExit
    <2>1. CASE t \in tasks
      BY <2>1 DEF ExitInv, RetriedIsExit
    <2>2. CASE t \notin tasks
      <3> USE DEF MkTask, RaiseError
      <3>1. ~(Report(i) \/ Fill(i))
        BY <2>2 DEF Report, Fill
      <3>2. ~Cancel(i)
        BY <2>2 DEF Cancel
      <3>3. ~Refuse(i)
        BY <2>2 DEF Refuse, Refused, BracketScope
      <3>4. CASE CancelRace(i)
        BY <2>2, <3>4 DEF CancelRace
      <3> QED
        BY <1>2, <3>1, <3>2, <3>3, <3>4
    <2> QED
      BY <2>1, <2>2
  <1>5. OrdersOwned' /\ EntryUnsent' /\ ExitToCome'
    BY <1>1, <1>3 DEF ExitInv, OrdersOwned, EntryUnsent, ExitToCome
  <1>6. Child # {} => EntryHasExit'
    BY <1>1, <1>3 DEF ExitInv, EntryHasExit
  <1> QED
    BY <1>4, <1>5, <1>6 DEF ExitInv

\* A step that only touches rows keeps the invariant if it makes no entry Created
\* and, while the entry is Created, touches none.
LEMMA RowsExit ==
  ASSUME ExitInv, UNCHANGED <<orderId, broker, leg, parent, pc, cur, todo>>,
         status'[Entry] = "Created" => \A l \in Leg : status'[l] = status[l],
         RetriedIsExit'
  PROVE  ExitInv'
  BY DEF ExitInv, OrdersOwned, EntryUnsent, ExitToCome, EntryHasExit

\* The callback tasks and the retry handler leave an unsent group alone.
LEMMA TasksExit == IndInv /\ ExitInv /\ Tasks => ExitInv'
  <1> SUFFICES ASSUME IndInv, ExitInv, Tasks PROVE ExitInv'
    OBVIOUS
  <1> USE DEF KeepElse, brokerVars, workerVars, taskVars
  <1>a. UNCHANGED <<orderId, broker, leg, parent, pc, cur, todo>>
    BY DEF Tasks, ProcessStatus, FailOrder, CancelOrder, RetryRead, RetryWrite, Requeue
  <1>b. /\ tasks \subseteq Task /\ status \in [Leg -> Status] /\ Entry \in Leg
        /\ RetriedIsExit /\ RetriedIsOver /\ OrdersOwned
        /\ status[Entry] = "Created" => \A l \in Leg : orderId[l] \notin Id
    BY DEF IndInv, TypeOK, ExitInv, EntryUnsent
  <1>1. ASSUME NEW i \in Id, ProcessStatus(i) PROVE ExitInv'
    <2>1. status'[Entry] = "Created" => status[Entry] = "Created"
      BY <1>1 DEF ProcessStatus, MapTwsStatus
    <2>2. status[Entry] = "Created" => \A l \in Leg : status'[l] = status[l]
      <3>1. \A l \in Leg : status'[l] = status[l] \/ orderId[l] = i
        BY <1>1 DEF ProcessStatus, Booked
      <3> QED
        BY <1>b, <3>1
    <2>3. tasks' = tasks
      BY <1>1 DEF ProcessStatus
    <2> QED
      BY <1>a, <1>b, <2>1, <2>2, <2>3, RowsExit DEF RetriedIsExit
  <1>2. ASSUME NEW t \in tasks, FailOrder(t) \/ CancelOrder(t) PROVE ExitInv'
    <2>1. status'[Entry] = "Created" => status[Entry] = "Created"
      BY <1>2 DEF FailOrder, CancelOrder, WithStatus
    <2>2. t.id \in Id
      BY <1>b DEF Task
    <2>3. status[Entry] = "Created" => \A l \in Leg : status'[l] = status[l]
      BY <1>2, <1>b, <2>2 DEF FailOrder, CancelOrder, WithStatus, Booked
    <2>4. tasks' \subseteq tasks
      BY <1>2 DEF FailOrder, CancelOrder
    <2> QED
      BY <1>a, <1>b, <2>1, <2>3, <2>4, RowsExit DEF RetriedIsExit
  <1>3. ASSUME NEW t \in tasks, RetryRead(t) PROVE ExitInv'
    <2>1. status' = status
      BY <1>3 DEF RetryRead
    <2>2. \A u \in tasks' : u \in tasks \/ u.id = t.id
      BY <1>3 DEF RetryRead
    <2>3. leg[t.id] \in Child
      BY <1>3, <1>b DEF RetryRead, RetriedIsExit
    <2>4. RetriedIsExit'
      BY <1>a, <1>b, <2>2, <2>3 DEF RetriedIsExit
    <2> QED
      BY <1>a, <2>1, <2>4, RowsExit
  <1>4. ASSUME NEW t \in tasks, RetryWrite(t) PROVE ExitInv'
    <2>1. t.id \in Id /\ leg[t.id] \in Child /\ broker[t.id] \in Dead
      BY <1>4, <1>b DEF RetryWrite, RetriedIsExit, RetriedIsOver, Task
    <2>2. orderId[Entry] # t.id
      BY <1>b, <2>1 DEF OrdersOwned, Dead
    <2>3. \A l \in Leg : orderId[l] # t.id => status'[l] = status[l]
      BY <1>4 DEF RetryWrite, WithStatus
    <2>4. status' \in [Leg -> Status]
      BY <1>4, <1>b DEF RetryWrite, WithStatus, Status
    <2>5. status'[Entry] = "Created" => \A l \in Leg : status'[l] = status[l]
      BY <1>b, <2>1, <2>2, <2>3, <2>4
    <2>6. tasks' \subseteq tasks
      BY <1>4 DEF RetryWrite
    <2> QED
      BY <1>a, <1>b, <2>5, <2>6, RowsExit DEF RetriedIsExit
  <1>5. CASE Requeue
    BY <1>a, <1>b, <1>5, RowsExit DEF Requeue, RetriedIsExit
  <1> QED
    BY <1>1, <1>2, <1>3, <1>4, <1>5 DEF Tasks

\* The recovery run leaves an unsent group alone, and a lost worker forgets it.
LEMMA OtherExit ==
  ASSUME IndInv, ExitInv, Recovery \/ Disconnect \/ Crash \/ UNCHANGED vars
  PROVE  ExitInv'
  <1> USE DEF KeepOthers, dbVars, brokerVars, workerVars, taskVars
  <1>a. UNCHANGED <<orderId, broker, leg, parent>> /\ tasks' \subseteq tasks
    BY DEF Recovery, RecoveryStart, RecoveryLoad, RecoverRow, RequeueRow, RecoveryDone,
           Disconnect, Crash, vars
  <1>b. RetriedIsExit'
    BY <1>a DEF ExitInv, RetriedIsExit
  <1>c. /\ status \in [Leg -> Status] /\ Entry \in Leg /\ rId \in [Leg -> Int]
        /\ status[Entry] = "Created" => \A l \in Leg : orderId[l] < 0
    BY DEF IndInv, TypeOK, ExitInv, EntryUnsent
  <1>1. ASSUME NEW l \in Leg, RecoverRow(l) PROVE ExitInv'
    <2>1. UNCHANGED <<pc, cur, todo>> /\ rId[l] >= 0
      BY <1>1, <1>c DEF RecoverRow, Verdicts
    <2>2. PICK s \in Verdicts(l) :
                 status' = WithStatus(rId[l], s) \/ status' = status
      BY <1>1 DEF RecoverRow
    <2>3. s # "Created"
      BY VerdictStatus
    <2>4. status'[Entry] = "Created" => status[Entry] = "Created"
      BY <1>c, <2>2, <2>3 DEF WithStatus
    <2>5. status[Entry] = "Created" => \A m \in Leg : status'[m] = status[m]
      BY <1>c, <2>1, <2>2 DEF WithStatus
    <2> QED
      BY <1>a, <1>b, <2>1, <2>4, <2>5, RowsExit
  <1>2. CASE UNCHANGED <<status, pc, cur, todo>>
    BY <1>a, <1>b, <1>2, RowsExit
  <1>3. CASE Crash
    <2>1. status' = status /\ pc' = "idle"
      BY <1>3 DEF Crash
    <2>2. /\ OrdersOwned' /\ EntryUnsent' /\ ExitToCome'
          /\ Child # {} => EntryHasExit'
      BY <1>a, <2>1 DEF ExitInv, OrdersOwned, EntryHasExit, EntryUnsent, ExitToCome
    <2> QED
      BY <1>b, <2>2 DEF ExitInv
  <1> QED
    BY <1>1, <1>2, <1>3 DEF Recovery, RecoveryStart, RecoveryLoad, RequeueRow, RecoveryDone,
                            Disconnect, vars

\* Every step keeps the invariant.
LEMMA NextExit == BracketScope /\ IndInv /\ ExitInv /\ [Next]_vars => ExitInv'
  BY WorkerExit, BrokerExit, TasksExit, OtherExit DEF Next

\* The entry becomes active at TWS only together with an attached exit, whatever
\* is refused, cancelled or lost, and wherever the program crashes or the session
\* drops between two orders of the bracket, unless an entry can be retried.
THEOREM EntryCovered ==
  ASSUME BracketScope, Child # {}
  PROVE  Spec => []EntryHasExit
  <1> DEFINE Inv == IndInv /\ ExitInv
  <1>1. Init => Inv
    BY InitInv, InitExit
  <1>2. Inv /\ [Next]_vars => Inv'
    BY NextInv, NextExit
  <1>3. Inv => EntryHasExit
    BY DEF ExitInv
  <1> QED
    BY <1>1, <1>2, <1>3, PTL DEF Spec

----------------------------------------------------------------------------
(* No order stays held.                                                    *)

\* The program and its session stand, and the LOC/GTD cut-off skips no exit
\* (FindCutoff).
ReleaseScope ==
    /\ Faults \cap {"crash", "disconnect"} = {}
    /\ GtdLeg = {} \/ "cutoff" \notin Faults

\* An order is held only by a job of the worker that still has an exit to send,
\* and it belongs to the entry of that job.
HeldInJob ==
    \A i \in Id : broker[i] = "held" =>
        /\ ~postFill
        /\ pc \in {"next", "assign", "guard", "send", "verify", "relock"}
        /\ todo # {} \/ (cur \in Child /\ pc \in {"assign", "guard", "send"})
        /\ i = orderId[Entry] \/ parent[i] = orderId[Entry]
        /\ cur = Entry => /\ pc \in {"next", "verify", "relock"}
                          /\ pc # "next" => i = orderId[Entry]

\* What the worker places is placed under its job's entry; the entry itself is
\* handled only before it is filled.
JobFits ==
    /\ \A l \in Leg : orderId[l] # 0
    /\ cur = Entry /\ pc \notin {"idle", "abort", "next"} => ~postFill
    /\ cur \in Child /\ pc \in {"verify", "relock"} /\ ~postFill
           => parent[orderId[cur]] = orderId[Entry]

HeldInv == ~down /\ HeldInJob /\ JobFits


\* The invariant holds for an imported group.
LEMMA InitHeld == Init => HeldInv
  BY DEF Init, HeldInv, HeldInJob, JobFits

\* Worker steps that neither assign an id nor place an order: a job is left only
\* when none of its orders is held.
LEMMA WorkerDecidesHeld ==
  ASSUME ReleaseScope, IndInv, HeldInv,
         Take \/ CheckPasses \/ CheckRefuses \/ CheckNeedsToken \/ Authorized \/ ReauthExpires
         \/ Abort \/ NextChild \/ GroupDone \/ AdjustKeeps \/ AdjustCancels \/ GuardPasses
         \/ GuardSkips \/ SendRaises \/ Accepted \/ RejectionSeen \/ LockSeen
         \/ RelockExpires \/ RelockRefuses
  PROVE  HeldInv'
  <1> USE DEF Goto, KeepJob, KeepRest, dbVars, brokerVars, sessVars
  <1>a. /\ cur \in Leg /\ todo \subseteq Child /\ JobShape /\ LockedInRelock
        /\ PlacedInVerify /\ ~down /\ HeldInJob /\ JobFits
    BY DEF IndInv, TypeOK, HeldInv
  <1>b. UNCHANGED <<orderId, broker, parent, down>>
    BY DEF Take, CheckPasses, CheckRefuses, CheckNeedsToken, Authorized, ReauthExpires,
           Abort, NextChild, GroupDone, AdjustKeeps, AdjustCancels, GuardPasses,
           GuardSkips, SendRaises, Accepted, RejectionSeen, LockSeen, RelockExpires,
           RelockRefuses
  <1> SUFFICES HeldInJob' /\ JobFits'
    BY <1>a, <1>b DEF HeldInv
  <1> USE DEF HeldInJob, JobFits, JobShape
  <1>1. CASE Take
    BY <1>a, <1>b, <1>1 DEF Take
  <1>2. CASE CheckPasses
    BY <1>a, <1>b, <1>2 DEF CheckPasses
  <1>3. CASE CheckRefuses
    BY <1>a, <1>b, <1>3 DEF CheckRefuses, GiveUp
  <1>4. CASE CheckNeedsToken
    BY <1>a, <1>b, <1>4 DEF CheckNeedsToken
  <1>5. CASE Authorized
    BY <1>a, <1>b, <1>5 DEF Authorized
  <1>6. CASE ReauthExpires
    BY <1>a, <1>b, <1>6 DEF ReauthExpires, GiveUp
  <1>7. CASE Abort
    BY <1>a, <1>b, <1>7 DEF Abort
  <1>8. CASE NextChild
    BY <1>a, <1>b, <1>8 DEF NextChild
  <1>9. CASE GroupDone
    BY <1>a, <1>b, <1>9 DEF GroupDone
  <1>10. CASE AdjustKeeps
    BY <1>a, <1>b, <1>10 DEF AdjustKeeps
  <1>11. CASE AdjustCancels
    BY <1>a, <1>b, <1>11 DEF AdjustCancels
  <1>12. CASE GuardPasses
    BY <1>a, <1>b, <1>12 DEF GuardPasses
  <1>13. CASE GuardSkips
    BY <1>13 DEF GuardSkips, ReleaseScope
  <1>14. CASE SendRaises
    BY <1>a, <1>14 DEF SendRaises
  <1>15. CASE Accepted
    BY <1>a, <1>b, <1>15 DEF Accepted
  <1>16. CASE RejectionSeen
    BY <1>a, <1>b, <1>16 DEF RejectionSeen, GiveUp
  <1>17. CASE LockSeen
    BY <1>a, <1>b, <1>17 DEF LockSeen
  <1>18. CASE RelockExpires
    BY <1>a, <1>b, <1>18 DEF RelockExpires, GiveUp, LockedInRelock
  <1>19. CASE RelockRefuses
    BY <1>a, <1>b, <1>19 DEF RelockRefuses, GiveUp, LockedInRelock
  <1> QED
    BY <1>1, <1>2, <1>3, <1>4, <1>5, <1>6, <1>7, <1>8, <1>9, <1>10, <1>11, <1>12,
       <1>13, <1>14, <1>15, <1>16, <1>17, <1>18, <1>19

\* Nothing is held when the entry gets its id, and the entry keeps it afterwards.
LEMMA AssignHeld ==
  ASSUME IndInv, HeldInv, Assign
  PROVE  HeldInv'
  <1> USE DEF Goto, KeepJob, KeepRest, dbVars, brokerVars, sessVars
  <1>1. cur \in Leg /\ orderId \in [Leg -> Int]
    BY DEF IndInv, TypeOK
  <1>2. PICK i \in Id : orderId' = [orderId EXCEPT ![cur] = i]
    BY DEF Assign
  <1>3. /\ UNCHANGED <<broker, parent, cur, todo, postFill, down>>
        /\ pc = "assign" /\ pc' = IF cur = Entry THEN "send" ELSE "guard"
    BY DEF Assign
  <1>4. \A l \in Leg : orderId'[l] # 0 /\ (l # cur => orderId'[l] = orderId[l])
    BY <1>1, <1>2 DEF HeldInv, JobFits
  <1>5. HeldInJob'
    BY <1>1, <1>3, <1>4 DEF HeldInv, HeldInJob
  <1>6. JobFits'
    BY <1>1, <1>3, <1>4 DEF HeldInv, JobFits
  <1> QED
    BY <1>3, <1>5, <1>6 DEF HeldInv

\* An order is placed under its job's entry, and the last one releases them all.
LEMMA SendHeld ==
  ASSUME IndInv, HeldInv, Send
  PROVE  HeldInv'
  <1> DEFINE i == orderId[cur]
  <1> USE DEF Goto, KeepJob, KeepRest, dbVars, brokerVars, sessVars
  <1>1. /\ cur \in Leg /\ todo \subseteq Child
        /\ broker \in [Id -> BrokerState] /\ parent \in [Id -> Int]
    BY DEF IndInv, TypeOK
  <1>2. i \in Id /\ broker[i] = "none"
    BY DEF IndInv, Send, FreshBeforeSend
  <1>3. /\ UNCHANGED <<orderId, cur, todo, postFill, down>>
        /\ pc = "send" /\ pc' = "verify" /\ parent' = [parent EXCEPT ![i] = ParentOf]
    BY DEF Send
  <1>4. parent'[i] = ParentOf /\ \A j \in Id \ {i} : parent'[j] = parent[j]
    BY <1>1, <1>2, <1>3
  <1>5. broker'[i] = IF Transmit THEN "working" ELSE "held"
    BY <1>2 DEF Send
  <1>6. \A j \in Id \ {i} :
          broker'[j] = IF /\ Transmit /\ ParentOf # 0 /\ broker[j] = "held"
                          /\ (j = ParentOf \/ parent[j] = ParentOf)
                       THEN "working" ELSE broker[j]
    BY DEF Send
  <1>7. cur = Entry => ~postFill
    BY <1>3 DEF HeldInv, JobFits
  <1>8. JobFits'
    BY <1>1, <1>3, <1>4, <1>7 DEF HeldInv, JobFits, ParentOf
  <1>9. HeldInJob'
    <2> SUFFICES ASSUME NEW j \in Id, broker'[j] = "held"
                 PROVE  /\ ~postFill /\ todo # {}
                        /\ j = orderId[Entry] \/ parent'[j] = orderId[Entry]
                        /\ cur = Entry => j = orderId[Entry]
      BY <1>3 DEF HeldInJob
    <2>1. CASE j = i
      BY <1>4, <1>5, <1>7, <2>1 DEF Transmit, ParentOf
    <2>2. CASE j # i
      <3>1. broker[j] = "held"
        BY <1>6, <2>2
      <3>2. /\ ~postFill /\ cur # Entry
            /\ j = orderId[Entry] \/ parent[j] = orderId[Entry]
        BY <1>3, <3>1 DEF HeldInv, HeldInJob
      <3>3. ParentOf = orderId[Entry] /\ ParentOf # 0
        BY <3>2 DEF ParentOf, HeldInv, JobFits
      <3>4. ~Transmit
        BY <1>6, <2>2, <3>2, <3>3
      <3> QED
        BY <1>4, <2>2, <3>2, <3>4 DEF Transmit
    <2> QED
      BY <2>1, <2>2
  <1> QED
    BY <1>3, <1>8, <1>9 DEF HeldInv

\* A locked order is held again only while exits of its job are to come.
LEMMA ReplaceHeld ==
  ASSUME IndInv, HeldInv, Replace \/ ReplaceRefused
  PROVE  HeldInv'
  <1> DEFINE i == orderId[cur]
  <1> USE DEF Goto, KeepJob, KeepRest, GiveUp, dbVars, brokerVars, sessVars
  <1>1. /\ cur \in Leg /\ todo \subseteq Child /\ broker \in [Id -> BrokerState]
        /\ HeldInJob /\ JobFits
    BY DEF IndInv, TypeOK, HeldInv
  <1>2. /\ UNCHANGED <<orderId, parent, cur, todo, postFill, down>>
        /\ pc = "relock"
        /\ pc' = "next" \/ (cur = Entry /\ pc' = "abort" /\ ReplaceRefused)
    BY DEF Replace, ReplaceRefused
  <1>3. i \in Id /\ broker[i] = "locked"
    BY <1>2 DEF IndInv, LockedInRelock
  <1>4. /\ broker'[i] = "held" => Replace /\ ~Transmit
        /\ \A j \in Id \ {i} : broker'[j] = broker[j]
    BY <1>1, <1>3 DEF Replace, ReplaceRefused
  <1>5. JobFits'
    BY <1>2 DEF HeldInv, JobFits
  <1>6. HeldInJob'
    <2> SUFFICES ASSUME NEW j \in Id, broker'[j] = "held"
                 PROVE  /\ ~postFill /\ pc' = "next" /\ todo # {}
                        /\ j = orderId[Entry] \/ parent[j] = orderId[Entry]
      BY <1>2 DEF HeldInJob
    <2>1. CASE j = i
      <3>1. Replace /\ ~Transmit
        BY <1>4, <2>1
      <3>2. pc' = "next"
        BY <3>1 DEF Replace
      <3>3. todo # {} /\ ~postFill
        BY <1>1, <1>2, <3>1 DEF Transmit, JobFits
      <3> QED
        BY <1>1, <1>2, <2>1, <3>2, <3>3 DEF JobFits
    <2>2. CASE j # i
      <3>1. broker[j] = "held"
        BY <1>4, <2>2
      <3> QED
        BY <1>1, <1>2, <2>2, <3>1 DEF HeldInJob
    <2> QED
      BY <2>1, <2>2
  <1> QED
    BY <1>2, <1>5, <1>6 DEF HeldInv

\* The execution worker keeps the invariant.
LEMMA WorkerHeld == ReleaseScope /\ IndInv /\ HeldInv /\ Worker => HeldInv'
  BY WorkerDecidesHeld, AssignHeld, SendHeld, ReplaceHeld DEF Worker

\* Nothing but the worker places an order, and nothing else moves its job.
LEMMA OtherHeld ==
  ASSUME ReleaseScope, IndInv, HeldInv,
         Broker \/ Tasks \/ Recovery \/ Disconnect \/ Crash \/ UNCHANGED vars
  PROVE  HeldInv'
  <1>1. ~Disconnect /\ ~Crash
    BY DEF Disconnect, Crash, ReleaseScope
  <1>2. CASE Broker
    <2> USE DEF KeepProgram, dbVars, workerVars, sessVars
    <2>1. PICK i \in Id : Report(i) \/ Fill(i) \/ Cancel(i) \/ Refuse(i) \/ CancelRace(i)
      BY <1>2 DEF Broker
    <2>2. UNCHANGED <<orderId, parent, pc, cur, todo, postFill, down>>
      BY <2>1 DEF Report, Fill, Cancel, Refuse, CancelRace
    <2>3. \A j \in Id : broker'[j] = "held" => broker[j] = "held"
      <3>1. CASE Report(i) \/ CancelRace(i)
        BY <3>1 DEF Report, CancelRace
      <3>2. CASE Fill(i)
        BY <3>2 DEF Fill
      <3>3. CASE Cancel(i)
        BY <3>3 DEF Cancel
      <3>4. CASE Refuse(i)
        BY <3>4 DEF Refuse, Refused
      <3> QED
        BY <2>1, <3>1, <3>2, <3>3, <3>4
    <2> QED
      BY <2>2, <2>3 DEF HeldInv, HeldInJob, JobFits
  <1>3. CASE Tasks \/ Recovery \/ UNCHANGED vars
    <2>1. UNCHANGED <<orderId, broker, parent, pc, cur, todo, postFill>>
      BY <1>3 DEF Tasks, ProcessStatus, FailOrder, CancelOrder, RetryRead, RetryWrite,
             Requeue, KeepElse, Recovery, RecoveryStart, RecoveryLoad, RecoverRow,
             RequeueRow, RecoveryDone, KeepOthers, vars, dbVars, brokerVars, workerVars
    <2>2. ~down'
      BY <1>3 DEF HeldInv, Tasks, ProcessStatus, FailOrder, CancelOrder, RetryRead,
             RetryWrite, Requeue, KeepElse, Recovery, RecoveryStart, RecoveryLoad,
             RecoverRow, RequeueRow, RecoveryDone, vars, sessVars
    <2> QED
      BY <2>1, <2>2 DEF HeldInv, HeldInJob, JobFits
  <1> QED
    BY <1>1, <1>2, <1>3

\* Every step keeps the invariant.
LEMMA NextHeld == ReleaseScope /\ IndInv /\ HeldInv /\ [Next]_vars => HeldInv'
  BY WorkerHeld, OtherHeld DEF Next

\* No bracket is left untransmitted: whatever is refused, locked, cancelled or
\* retried, the worker comes to a last exit that releases what it has held, unless
\* the program or its session is lost or the cut-off skips that exit.
THEOREM BracketsReleased ==
  ASSUME ReleaseScope
  PROVE  Spec => []BracketReleased
  <1> DEFINE Inv == IndInv /\ HeldInv
  <1>1. Init => Inv
    BY InitInv, InitHeld
  <1>2. Inv /\ [Next]_vars => Inv'
    BY NextInv, NextHeld
  <1>3. Inv => BracketReleased
    BY DEF HeldInv, HeldInJob, BracketReleased, Quiet
  <1> QED
    BY <1>1, <1>2, <1>3, PTL DEF Spec

----------------------------------------------------------------------------
(* The table agrees with TWS.                                              *)

\* TWS fills, cancels and refuses orders for good, checks refuse and time out,
\* positions lag; no retries, no recovery run, no outage (FindTerminal, FindGhost,
\* FindFilled, FindInactive and FindResend show what these do).
CalmScope ==
    /\ MaxRecoveries = 0
    /\ Faults \cap {"crash", "disconnect", "lock", "bounce", "inactive", "cancelRace"} = {}

\* Events about an order that is active; the last event about one that is over.
Rumour  == {"PreSubmitted", "Submitted"}
LastWord(b) == IF b = "filled" THEN {"Filled"} ELSE {"Cancelled", "Inactive"}

\* The faults of the scope leave these traces only.
CalmShape ==
    /\ ~down /\ rpc = "off" /\ pc # "relock" /\ failAs \in {"Error", "Cancelled"}
    /\ \A i \in Id : broker[i] \notin {"locked", "bounced"}
    /\ \A t \in tasks : \/ t.kind = "fatal" /\ broker[t.id] = "rejected"
                        \/ t.kind = "cancel" /\ broker[t.id] = "cancelled"

\* Legs that may still be sent have their temporary ids.
UnsentIds ==
    /\ \A l \in Leg : MayAssign(l) => orderId[l] < 0
    /\ pc \in {"check", "reauth"} => status[Entry] = "Created"
    /\ pc \in {"guard", "send"} => status[cur] = "Submitted"

\* The events that wait about an order tell what became of it, the last word last.
EventsFit ==
    \A i \in Id :
        /\ broker[i] = "none" => statusQ[i] = <<>>
        /\ \A k \in 1..Len(statusQ[i]) :
               \/ statusQ[i][k] \in Rumour
               \/ k = Len(statusQ[i]) /\ broker[i] \in Dead
                                      /\ statusQ[i][k] \in LastWord(broker[i])
        /\ broker[i] \in Dead /\ statusQ[i] # <<>>
               => statusQ[i][Len(statusQ[i])] \in LastWord(broker[i])

\* A row says what its order is, or an event that will make it so is waiting.
RowFits ==
    \A l \in Leg :
        /\ status[l] = "Filled" => orderId[l] \in Id /\ broker[orderId[l]] = "filled"
        /\ orderId[l] \in Id =>
            LET i == orderId[l] IN
            /\ IsLive(i) => status[l] \in Rumour
            /\ broker[i] = "filled" => \/ status[l] = "Filled"
                                       \/ status[l] \in Rumour /\ statusQ[i] # <<>>
            /\ broker[i] \in {"cancelled", "rejected"}
                   => status[l] \in {"Cancelled", "Error"} \/ statusQ[i] # <<>>

CalmInv == CalmShape /\ UnsentIds /\ EventsFit /\ RowFits
\* What a step may not do to a row that says Filled.
FilledStays == \A l \in Leg : status[l] = "Filled" => status'[l] = "Filled"

\* The invariant holds for an imported group.
LEMMA InitCalm == Init => CalmInv
  BY DEF Init, CalmInv, CalmShape, UnsentIds, EventsFit, RowFits, MayAssign, IsLive, Live, Dead

\* The worker writes no row of an order that is active or filled.
LEMMA WorkerWrites ==
  ASSUME IndInv, ExitInv, CalmInv, Worker, ~Assign, ~Send
  PROVE  \A l \in Leg :
           \/ status'[l] = status[l]
           \/ /\ status'[l] \in {"Error", "Cancelled"}
              /\ \/ orderId[l] \notin Id
                 \/ broker[orderId[l]] = "none"
                 \/ broker[orderId[l]] \in {"rejected", "cancelled"} 
  <1> USE DEF Goto, KeepJob, KeepRest, GiveUp, dbVars
  <1>a. /\ cur \in Leg /\ Entry \in Leg /\ status \in [Leg -> Status]
        /\ orderId \in [Leg -> Int] /\ IdsDistinct /\ JobShape /\ PlacedInVerify
        /\ FreshBeforeSend /\ EntryUnsent
    BY DEF IndInv, TypeOK, ExitInv
  <1>b. CalmShape /\ UnsentIds
    BY DEF CalmInv
  <1>1. CASE CheckRefuses
    <2>1. orderId[Entry] < 0
      BY <1>a, <1>b, <1>1 DEF CheckRefuses, JobShape, UnsentIds, MayAssign
    <2> QED
      BY <1>a, <1>1, <2>1 DEF CheckRefuses, WithStatus
  <1>2. CASE ReauthExpires
    <2>1. \A l \in Leg : orderId[l] < 0
      BY <1>a, <1>b, <1>2 DEF ReauthExpires, UnsentIds, EntryUnsent
    <2> QED
      BY <1>2, <2>1 DEF ReauthExpires
  <1>3. CASE Abort
    BY <1>a, <1>b, <1>3 DEF Abort, CalmShape, UnsentIds, MayAssign
  <1>4. CASE AdjustCancels
    <2>1. orderId[cur] < 0
      BY <1>a, <1>b, <1>4 DEF AdjustCancels, UnsentIds, MayAssign
    <2> QED
      BY <1>a, <1>4, <2>1 DEF AdjustCancels, WithStatus
  <1>5. CASE GuardSkips
    BY <1>a, <1>5 DEF GuardSkips, FreshBeforeSend, WithStatus
  <1>6. CASE RejectionSeen
    <2>1. /\ orderId[cur] \in Id /\ broker[orderId[cur]] \in {"rejected", "cancelled"}
          /\ status' = WithStatus(orderId[cur], "Error")
      BY <1>a, <1>b, <1>6 DEF RejectionSeen, PlacedInVerify, CalmShape
    <2> QED
      BY <1>a, <2>1 DEF WithStatus
  <1>7. ~(RelockExpires \/ RelockRefuses \/ Replace \/ ReplaceRefused)
    BY <1>b DEF RelockExpires, RelockRefuses, Replace, ReplaceRefused, CalmShape
  <1>8. CASE Take \/ CheckPasses \/ CheckNeedsToken \/ Authorized \/ NextChild \/ GroupDone
             \/ AdjustKeeps \/ GuardPasses \/ SendRaises \/ Accepted \/ LockSeen
    BY <1>8 DEF Take, CheckPasses, CheckNeedsToken, Authorized, NextChild, GroupDone,
                AdjustKeeps, GuardPasses, SendRaises, Accepted, LockSeen
  <1> QED
    BY <1>1, <1>2, <1>3, <1>4, <1>5, <1>6, <1>7, <1>8 DEF Worker

\* Worker steps that neither assign an id nor place an order.
LEMMA WorkerDecidesCalm ==
  ASSUME IndInv, ExitInv, CalmInv, Worker, ~Assign, ~Send
  PROVE  CalmInv' /\ FilledStays
  <1> USE DEF Goto, KeepJob, KeepRest, GiveUp, dbVars, recVars, sessVars
  <1>a. /\ cur \in Leg /\ PlacedInVerify /\ CalmShape /\ UnsentIds /\ EventsFit /\ RowFits
    BY DEF IndInv, TypeOK, CalmInv
  <1>b. ~Replace /\ ~ReplaceRefused /\ ~RelockExpires /\ ~RelockRefuses /\ ~LockSeen
    BY <1>a DEF RelockExpires, RelockRefuses, Replace, ReplaceRefused, LockSeen, CalmShape,
                PlacedInVerify
  <1>c. /\ UNCHANGED <<orderId, broker, statusQ, tasks>>
        /\ \A l \in Leg : MayAssign(l)' => MayAssign(l)
    BY <1>b, WorkerAsksNoMore
  <1>d. UNCHANGED <<down, rpc>>
    BY <1>b DEF Worker, Take, CheckPasses, CheckRefuses, CheckNeedsToken, Authorized,
           ReauthExpires, Abort, NextChild, GroupDone, AdjustKeeps, AdjustCancels,
           GuardPasses, GuardSkips, SendRaises, Accepted, RejectionSeen
  <1>e. /\ pc' # "relock" /\ failAs' \in {"Error", "Cancelled"}
        /\ pc' \in {"check", "reauth"} => status'[Entry] = "Created"
        /\ pc' \in {"guard", "send"} => status'[cur'] = "Submitted"
    <2> USE DEF CalmShape, UnsentIds
    <2>1. CASE Take
      BY <1>a, <2>1 DEF Take
    <2>2. CASE CheckPasses \/ CheckNeedsToken \/ Authorized
      BY <1>a, <2>2 DEF CheckPasses, CheckNeedsToken, Authorized
    <2>3. CASE CheckRefuses \/ ReauthExpires \/ RejectionSeen
      BY <1>a, <2>3 DEF CheckRefuses, ReauthExpires, RejectionSeen
    <2>4. CASE Abort \/ NextChild \/ GroupDone \/ AdjustKeeps \/ AdjustCancels
      BY <1>a, <2>4 DEF Abort, NextChild, GroupDone, AdjustKeeps, AdjustCancels
    <2>5. CASE GuardPasses \/ GuardSkips \/ SendRaises \/ Accepted
      BY <1>a, <2>5 DEF GuardPasses, GuardSkips, SendRaises, Accepted
    <2> QED
      BY <1>b, <2>1, <2>2, <2>3, <2>4, <2>5 DEF Worker
  <1>1. CalmShape' /\ UnsentIds' /\ EventsFit'
    BY <1>a, <1>c, <1>d, <1>e DEF CalmShape, UnsentIds, EventsFit
  <1>2. RowFits' /\ FilledStays
    <2> SUFFICES ASSUME NEW l \in Leg
                 PROVE  /\ status[l] = "Filled" => status'[l] = "Filled"
                        /\ RowFits!(l)'
      BY DEF RowFits, FilledStays
    <2>1. CASE status'[l] = status[l]
      BY <1>a, <1>c, <2>1 DEF RowFits, IsLive
    <2>2. CASE /\ status'[l] \in {"Error", "Cancelled"}
               /\ \/ orderId[l] \notin Id
                  \/ broker[orderId[l]] = "none"
                  \/ broker[orderId[l]] \in {"rejected", "cancelled"}
      BY <1>a, <1>c, <2>2 DEF RowFits, IsLive, Live
    <2> QED
      BY <2>1, <2>2, WorkerWrites
  <1> QED
    BY <1>1, <1>2 DEF CalmInv

\* A leg gets an id nothing has been reported about.
LEMMA AssignCalm ==
  ASSUME IndInv, CalmInv, Assign
  PROVE  CalmInv' /\ FilledStays
  <1> USE DEF Goto, KeepJob, KeepRest, dbVars, brokerVars, taskVars, recVars, sessVars
  <1>1. /\ TypeOK /\ TempIdNeverSent /\ cur \in Leg /\ cur \notin todo
        /\ orderId \in [Leg -> Int] /\ status \in [Leg -> Status]
        /\ CalmShape /\ UnsentIds /\ EventsFit /\ RowFits
    BY DEF IndInv, TypeOK, JobShape, CalmInv
  <1>2. PICK n \in ReqIds, i \in Id :
               IsNextOrderId(i, n) /\ orderId' = [orderId EXCEPT ![cur] = i]
    BY DEF Assign
  <1>3. broker[i] = "none"
    BY <1>1, <1>2, NextIdIsFresh
  <1>4. /\ UNCHANGED <<broker, statusQ, tasks, cur, todo, failAs, down, rpc>>
        /\ pc = "assign" /\ pc' = IF cur = Entry THEN "send" ELSE "guard"
        /\ status' = [status EXCEPT ![cur] = "Submitted"]
    BY DEF Assign
  <1>5. /\ orderId'[cur] = i /\ status'[cur] = "Submitted"
        /\ \A l \in Leg \ {cur} : orderId'[l] = orderId[l] /\ status'[l] = status[l]
    BY <1>1, <1>2, <1>4
  <1>6. CalmShape' /\ EventsFit'
    BY <1>1, <1>4 DEF CalmShape, EventsFit
  <1>7. UnsentIds'
    BY <1>1, <1>4, <1>5 DEF UnsentIds, MayAssign
  <1>8. RowFits'
    BY <1>1, <1>3, <1>4, <1>5 DEF RowFits, IsLive, Live
  <1>9. FilledStays
    <2>1. orderId[cur] < 0
      BY <1>1, <1>4 DEF UnsentIds, MayAssign
    <2> QED
      BY <1>1, <1>5, <2>1 DEF FilledStays, RowFits
  <1> QED
    BY <1>6, <1>7, <1>8, <1>9 DEF CalmInv

\* An order becomes active while its row says Submitted.
LEMMA SendCalm ==
  ASSUME IndInv, CalmInv, Send
  PROVE  CalmInv' /\ FilledStays
  <1> DEFINE i == orderId[cur]
  <1> USE DEF Goto, KeepJob, KeepRest, dbVars, brokerVars, taskVars, recVars, sessVars
  <1>1. /\ cur \in Leg /\ tasks \subseteq Task /\ broker \in [Id -> BrokerState]
        /\ orderId \in [Leg -> Int] /\ IdsDistinct
        /\ CalmShape /\ UnsentIds /\ EventsFit /\ RowFits
    BY DEF IndInv, TypeOK, CalmInv
  <1>2. i \in Id /\ broker[i] = "none"
    BY DEF IndInv, Send, FreshBeforeSend
  <1>3. /\ UNCHANGED <<orderId, status, statusQ, tasks, cur, todo, failAs, down, rpc>>
        /\ pc = "send" /\ pc' = "verify"
    BY DEF Send
  <1>4. broker'[i] \in Live
    BY <1>2 DEF Send, Live
  <1>5. \A j \in Id \ {i} :
          broker'[j] = broker[j] \/ (broker[j] = "held" /\ broker'[j] = "working")
    <2> TAKE j \in Id \ {i}
    <2>1. broker'[j] = IF /\ Transmit /\ ParentOf # 0 /\ broker[j] = "held"
                          /\ (j = ParentOf \/ parent[j] = ParentOf)
                       THEN "working" ELSE broker[j]
      BY DEF Send
    <2> QED
      BY <2>1
  <1>6. CalmShape'
    BY <1>1, <1>2, <1>3, <1>4, <1>5 DEF CalmShape, Task, Live
  <1>7. UnsentIds'
    BY <1>1, <1>3 DEF UnsentIds, MayAssign
  <1>8. EventsFit'
    BY <1>1, <1>2, <1>3, <1>4, <1>5 DEF EventsFit, Live, Dead
  <1>9. RowFits'
    <2> SUFFICES ASSUME NEW l \in Leg PROVE RowFits!(l)'
      BY DEF RowFits
    <2>1. CASE l = cur
      <3>1. status[l] = "Submitted" /\ orderId[l] = i
        BY <1>1, <1>3, <2>1 DEF UnsentIds
      <3> QED
        BY <1>3, <1>4, <3>1 DEF Rumour, IsLive, Live
    <2>2. CASE l # cur
      <3>1. orderId[l] # i
        BY <1>1, <2>2 DEF IdsDistinct
      <3> QED
        BY <1>1, <1>3, <1>5, <3>1 DEF RowFits, IsLive, Live
    <2> QED
      BY <2>1, <2>2
  <1> QED
    BY <1>3, <1>6, <1>7, <1>8, <1>9 DEF CalmInv, FilledStays

\* What TWS tells about an order: a rumour while it is active, or its last word.
LEMMA BrokerTells ==
  ASSUME CalmScope, IndInv, CalmInv, Broker, NEW j \in Id
  PROVE  \/ broker'[j] = broker[j] /\ statusQ'[j] = statusQ[j]
         \/ /\ broker[j] = "working" /\ broker'[j] = "working"
            /\ \E s \in Rumour : statusQ'[j] = Append(statusQ[j], s)
         \/ /\ IsLive(j) /\ broker'[j] \in {"filled", "cancelled", "rejected"}
            /\ \E s \in LastWord(broker'[j]) : statusQ'[j] = Append(statusQ[j], s)
  <1>a. ~down
    BY DEF CalmInv, CalmShape
  <1>1. PICK i \in Id : Report(i) \/ Fill(i) \/ Cancel(i) \/ Refuse(i) \/ CancelRace(i)
    BY DEF Broker
  <1>2. CASE Report(i)
    BY <1>a, <1>2 DEF Report, Announce, Rumour, CalmScope
  <1>3. CASE Fill(i)
    BY <1>a, <1>3 DEF Fill, IsLive, Live, LastWord
  <1>4. CASE Cancel(i)
    BY <1>a, <1>4 DEF Cancel, Announce, Attached, IsLive, LastWord
  <1>5. CASE Refuse(i)
    BY <1>a, <1>5 DEF Refuse, Refused, Attached, IsLive, LastWord, CalmScope
  <1>6. ~CancelRace(i)
    BY DEF CancelRace, CalmScope
  <1> QED
    BY <1>1, <1>2, <1>3, <1>4, <1>5, <1>6

\* TWS keeps the invariant: what becomes of an order is told last.
LEMMA BrokerCalm ==
  ASSUME CalmScope, IndInv, CalmInv, Broker
  PROVE  CalmInv' /\ FilledStays
  <1> USE DEF KeepProgram, dbVars, workerVars, recVars, sessVars
  <1>1. /\ statusQ \in [Id -> Seq(TwsStatus)] /\ tasks \subseteq Task
        /\ CalmShape /\ UnsentIds /\ EventsFit /\ RowFits
        /\ broker \in [Id -> BrokerState]
    BY DEF IndInv, TypeOK, CalmInv
  <1>2. PICK i \in Id : Report(i) \/ Fill(i) \/ Cancel(i) \/ Refuse(i) \/ CancelRace(i)
    BY DEF Broker
  <1>3. UNCHANGED <<orderId, status, pc, cur, todo, failAs, down, rpc>>
    BY <1>2 DEF Report, Fill, Cancel, Refuse, CancelRace
  <1>4. \A t \in tasks' : \/ t \in tasks
                          \/ t.kind = "fatal" /\ broker'[t.id] = "rejected"
                          \/ t.kind = "cancel" /\ broker'[t.id] = "cancelled"
    <2> USE DEF RaiseError, MkTask
    <2>1. CASE Report(i) \/ Fill(i)
      BY <2>1 DEF Report, Fill
    <2>2. CASE Cancel(i)
      BY <2>2 DEF Cancel, Attached
    <2>3. CASE Refuse(i)
      BY <2>3 DEF Refuse, Refused, CalmScope
    <2>4. ~CancelRace(i)
      BY DEF CancelRace, CalmScope
    <2> QED
      BY <1>2, <2>1, <2>2, <2>3, <2>4
  <1>5. CalmShape'
    <2>1. \A j \in Id : broker'[j] \notin {"locked", "bounced"}
      BY <1>1, BrokerTells DEF CalmShape
    <2>2. \A t \in tasks : broker[t.id] \in {"rejected", "cancelled"}
                              => broker'[t.id] = broker[t.id]
      BY <1>1, BrokerTells DEF Task, IsLive, Live
    <2> QED
      BY <1>1, <1>3, <1>4, <2>1, <2>2 DEF CalmShape
  <1>6. UnsentIds'
    BY <1>1, <1>3 DEF UnsentIds, MayAssign
  <1>7. EventsFit'
    <2> SUFFICES ASSUME NEW j \in Id PROVE EventsFit!(j)'
      BY DEF EventsFit
    <2>1. CASE broker'[j] = broker[j] /\ statusQ'[j] = statusQ[j]
      BY <1>1, <2>1 DEF EventsFit
    <2>2. CASE IsLive(j) /\ \E s : statusQ'[j] = Append(statusQ[j], s)
      <3>1. PICK s : statusQ'[j] = Append(statusQ[j], s)
        BY <2>2
      <3>2. statusQ[j] \in Seq(TwsStatus)
        BY <1>1
      <3>3. /\ Len(statusQ'[j]) = Len(statusQ[j]) + 1
            /\ statusQ'[j][Len(statusQ[j]) + 1] = s
            /\ \A k \in 1..Len(statusQ[j]) : statusQ'[j][k] = statusQ[j][k]
        BY <3>1, <3>2
      <3>4. \A k \in 1..Len(statusQ[j]) : statusQ[j][k] \in Rumour
        BY <1>1, <2>2 DEF EventsFit, IsLive, Live, Dead
      <3>5. /\ broker'[j] # "none"
            /\ s \in Rumour \/ (broker'[j] \in Dead /\ s \in LastWord(broker'[j]))
            /\ broker'[j] \in Dead => s \in LastWord(broker'[j])
        <4>1. \A u : Append(statusQ[j], u) = Append(statusQ[j], s) => u = s
          BY <3>2
        <4>2. statusQ'[j] # statusQ[j]
          BY <3>2, <3>3
        <4>3. \/ broker'[j] = "working" /\ s \in Rumour
              \/ /\ broker'[j] \in {"filled", "cancelled", "rejected"}
                 /\ s \in LastWord(broker'[j])
          <5>1. CASE /\ broker'[j] = "working"
                     /\ \E u \in Rumour : statusQ'[j] = Append(statusQ[j], u)
            BY <3>1, <4>1, <5>1
          <5>2. CASE /\ broker'[j] \in {"filled", "cancelled", "rejected"}
                     /\ \E u \in LastWord(broker'[j]) : statusQ'[j] = Append(statusQ[j], u)
            BY <3>1, <4>1, <5>2
          <5> QED
            BY <4>2, <5>1, <5>2, BrokerTells
        <4> QED
          BY <4>3 DEF Dead
      <3>6. Len(statusQ[j]) \in Nat
        BY <3>2
      <3>7. statusQ'[j][Len(statusQ'[j])] = s
        BY <3>3
      <3>8. ASSUME NEW k \in 1..Len(statusQ'[j])
            PROVE  \/ statusQ'[j][k] \in Rumour
                   \/ k = Len(statusQ'[j]) /\ broker'[j] \in Dead
                                           /\ statusQ'[j][k] \in LastWord(broker'[j])
        <4>1. CASE k = Len(statusQ'[j])
          BY <3>5, <3>7, <4>1
        <4>2. CASE k # Len(statusQ'[j])
          <5>1. k \in 1..Len(statusQ[j])
            BY <3>3, <3>6, <4>2
          <5> QED
            BY <3>3, <3>4, <5>1
        <4> QED
          BY <4>1, <4>2
      <3> QED
        BY <3>5, <3>7, <3>8
    <2> QED
      BY <2>1, <2>2, BrokerTells DEF IsLive, Live
  <1>8. RowFits'
    <2> SUFFICES ASSUME NEW l \in Leg PROVE RowFits!(l)'
      BY DEF RowFits
    <2>1. CASE orderId[l] \notin Id
      BY <1>1, <1>3, <2>1 DEF RowFits
    <2>2. CASE orderId[l] \in Id
      <3> DEFINE j == orderId[l]
      <3>1. CASE broker'[j] = broker[j] /\ statusQ'[j] = statusQ[j]
        BY <1>1, <1>3, <2>2, <3>1 DEF RowFits, IsLive
      <3>2. CASE IsLive(j) /\ \E s : statusQ'[j] = Append(statusQ[j], s)
        <4>1. statusQ[j] \in Seq(TwsStatus)
          BY <1>1, <2>2
        <4>2. statusQ'[j] # <<>>
          BY <3>2, <4>1
        <4>3. status[l] \in Rumour
          BY <1>1, <2>2, <3>2 DEF RowFits
        <4> QED
          BY <1>3, <2>2, <4>2, <4>3 DEF Rumour
      <3> QED
        BY <2>2, <3>1, <3>2, BrokerTells DEF IsLive, Live
    <2> QED
      BY <2>1, <2>2
  <1> QED
    BY <1>3, <1>5, <1>6, <1>7, <1>8 DEF CalmInv, FilledStays

\* A step that writes only rows of orders that are over, and none as Created, keeps
\* the ids of the legs to be sent and the row of the leg being sent.
LEMMA UnsentKept ==
  ASSUME IndInv, CalmInv,
         UNCHANGED <<orderId, pc, cur, todo>>,
         \A l \in Leg : \/ status'[l] = status[l]
                        \/ /\ status'[l] # "Created" /\ orderId[l] \in Id
                           /\ broker[orderId[l]] # "none"
  PROVE  UnsentIds'
  <1>1. /\ cur \in Leg /\ UnsentIds /\ FreshBeforeSend /\ JobShape
        /\ orderId \in [Leg -> Int]
    BY DEF IndInv, TypeOK, CalmInv
  <1>2. \A l \in Leg : MayAssign(l)' => MayAssign(l)
    BY DEF MayAssign
  <1>3. pc \in {"check", "reauth"} => orderId[Entry] \notin Id
    BY <1>1 DEF UnsentIds, MayAssign, JobShape
  <1> QED
    BY <1>1, <1>2, <1>3 DEF UnsentIds, FreshBeforeSend

\* An event about an active order, or an old one about an order that is over, is
\* followed by more; the last word makes the row agree with TWS.
LEMMA ProcessStatusCalm ==
  ASSUME IndInv, CalmInv, NEW i \in Id, ProcessStatus(i)
  PROVE  CalmInv' /\ FilledStays
  <1> DEFINE q == statusQ[i]
             new == MapTwsStatus(Head(q), FALSE)
             hit(l) == orderId[l] = i /\ ValidTransition(status[l], new, FALSE)
  <1> USE DEF KeepElse, brokerVars, workerVars, recVars, sessVars
  <1>1. /\ statusQ \in [Id -> Seq(TwsStatus)] /\ status \in [Leg -> Status]
        /\ CalmShape /\ UnsentIds /\ EventsFit /\ RowFits
    BY DEF IndInv, TypeOK, CalmInv
  <1>2. /\ UNCHANGED <<orderId, broker, tasks, pc, cur, todo, failAs, down, rpc>>
        /\ statusQ' = [statusQ EXCEPT ![i] = Tail(q)] /\ q # <<>>
        /\ \A l \in Leg : status'[l] = IF hit(l) THEN new ELSE status[l]
    BY DEF ProcessStatus, Booked
  <1>3. /\ q \in Seq(TwsStatus) /\ Len(q) \in Nat \ {0} /\ Head(q) = q[1]
        /\ Len(Tail(q)) = Len(q) - 1
        /\ \A k \in 1..Len(q) - 1 : Tail(q)[k] = q[k + 1]
    BY <1>1, <1>2
  <1>4. /\ statusQ'[i] = Tail(q)
        /\ \A j \in Id \ {i} : statusQ'[j] = statusQ[j]
    BY <1>1, <1>2
  <1>5. broker[i] # "none" /\ broker[i] # "bounced"
    BY <1>1, <1>2 DEF EventsFit, CalmShape
  <1>6. \/ Head(q) \in Rumour /\ new = Head(q) /\ (broker[i] \in Dead => Tail(q) # <<>>)
        \/ /\ broker[i] \in Dead /\ Len(q) = 1
           /\ new = IF broker[i] = "filled" THEN "Filled" ELSE "Cancelled"
    <2>1. \/ q[1] \in Rumour
          \/ 1 = Len(q) /\ broker[i] \in Dead /\ q[1] \in LastWord(broker[i])
      BY <1>1, <1>3 DEF EventsFit
    <2>2. CASE q[1] \in Rumour
      <3>1. new = Head(q)
        BY <1>3, <2>2 DEF MapTwsStatus, Rumour
      <3>2. broker[i] \in Dead => Len(q) # 1
        BY <1>1, <1>2, <2>2 DEF EventsFit, Rumour, LastWord
      <3>3. broker[i] \in Dead => Len(Tail(q)) # 0
        BY <1>3, <3>2
      <3> QED
        BY <1>3, <2>2, <3>1, <3>3
    <2>3. CASE 1 = Len(q) /\ broker[i] \in Dead /\ q[1] \in LastWord(broker[i])
      BY <1>3, <2>3 DEF MapTwsStatus, LastWord
    <2> QED
      BY <2>1, <2>2, <2>3
  <1> HIDE DEF q, new
  <1>7. CalmShape'
    BY <1>1, <1>2 DEF CalmShape
  <1>8. UnsentIds'
    <2>1. new # "Created"
      BY <1>6 DEF Rumour
    <2> QED
      BY <1>2, <1>5, <2>1, UnsentKept
  <1>9. EventsFit'
    <2> SUFFICES ASSUME NEW j \in Id PROVE EventsFit!(j)'
      BY DEF EventsFit
    <2>1. CASE j # i
      BY <1>1, <1>2, <1>4, <2>1 DEF EventsFit
    <2>2. CASE j = i
      <3>1. /\ \A k \in 1..Len(q) :
                  \/ q[k] \in Rumour
                  \/ k = Len(q) /\ broker[i] \in Dead /\ q[k] \in LastWord(broker[i])
            /\ broker[i] \in Dead => q[Len(q)] \in LastWord(broker[i])
        BY <1>1, <1>2 DEF EventsFit, q
      <3>2. \A k \in 1..Len(Tail(q)) :
               \/ Tail(q)[k] \in Rumour
               \/ k = Len(Tail(q)) /\ broker[i] \in Dead
                                   /\ Tail(q)[k] \in LastWord(broker[i])
        <4> SUFFICES ASSUME NEW k \in 1..Len(q) - 1
                     PROVE  \/ q[k + 1] \in Rumour
                            \/ k = Len(q) - 1 /\ broker[i] \in Dead
                                             /\ q[k + 1] \in LastWord(broker[i])
          BY <1>3
        <4>1. k + 1 \in 1..Len(q) /\ (k + 1 = Len(q) => k = Len(q) - 1)
          BY <1>3
        <4> QED
          BY <3>1, <4>1
      <3>3. broker[i] \in Dead /\ Tail(q) # <<>>
               => Tail(q)[Len(Tail(q))] \in LastWord(broker[i])
        <4> SUFFICES ASSUME broker[i] \in Dead, Tail(q) # <<>>
                     PROVE  Tail(q)[Len(Tail(q))] \in LastWord(broker[i])
          OBVIOUS
        <4>1. Len(Tail(q)) # 0 /\ Len(Tail(q)) \in Nat
          BY <1>3
        <4>2. Tail(q)[Len(Tail(q))] = q[Len(q)]
          BY <1>3, <4>1
        <4> QED
          BY <3>1, <4>2
      <3> QED
        BY <1>2, <1>4, <1>5, <2>2, <3>2, <3>3
    <2> QED
      BY <2>1, <2>2
  <1>10. RowFits'
    <2> SUFFICES ASSUME NEW l \in Leg PROVE RowFits!(l)'
      BY DEF RowFits
    <2>1. CASE orderId[l] # i
      <3>1. status'[l] = status[l] /\ orderId'[l] = orderId[l]
        BY <1>2, <2>1
      <3>2. orderId[l] \in Id => statusQ'[orderId[l]] = statusQ[orderId[l]]
        BY <1>4, <2>1
      <3> QED
        BY <1>1, <1>2, <3>1, <3>2 DEF RowFits, IsLive
    <2>2. CASE orderId[l] = i
      <3>0. /\ status[l] \in Status /\ orderId'[l] = i /\ broker' = broker
            /\ status'[l] = new \/ (status'[l] = status[l]
                                    /\ ~ValidTransition(status[l], new, FALSE))
        BY <1>1, <1>2, <2>2
      <3>1. /\ status[l] = "Filled" => broker[i] = "filled"
            /\ IsLive(i) => status[l] \in Rumour
            /\ broker[i] = "filled" => status[l] \in {"Filled"} \cup Rumour
        BY <1>1, <2>2 DEF RowFits
      <3>2. CASE Head(q) \in Rumour /\ new = Head(q)
                 /\ (broker[i] \in Dead => Tail(q) # <<>>)
        BY <1>4, <2>2, <3>0, <3>1, <3>2 DEF IsLive, Rumour, Dead
      <3>3. CASE /\ broker[i] \in Dead /\ Len(q) = 1
                 /\ new = IF broker[i] = "filled" THEN "Filled" ELSE "Cancelled"
        BY <1>5, <2>2, <3>0, <3>1, <3>3
           DEF IsLive, Live, Dead, ValidTransition, Terminal, Rumour
      <3> QED
        BY <1>6, <3>2, <3>3
    <2> QED
      BY <2>1, <2>2
  <1>11. FilledStays
    BY <1>2 DEF FilledStays, ValidTransition, Terminal
  <1> QED
    BY <1>7, <1>8, <1>9, <1>10, <1>11 DEF CalmInv

\* The error tasks say of a row what TWS has already decided.
LEMMA ErrorTasksCalm ==
  ASSUME IndInv, CalmInv, NEW t \in tasks, FailOrder(t) \/ CancelOrder(t)
  PROVE  CalmInv' /\ FilledStays
  <1> USE DEF KeepElse, brokerVars, workerVars, recVars, sessVars
  <1>1. /\ t.id \in Id /\ status \in [Leg -> Status]
        /\ CalmShape /\ UnsentIds /\ EventsFit /\ RowFits
    BY DEF IndInv, TypeOK, Task, CalmInv
  <1>2. /\ UNCHANGED <<orderId, broker, statusQ, pc, cur, todo, failAs, down, rpc>>
        /\ tasks' \subseteq tasks
    BY DEF FailOrder, CancelOrder
  <1>3. broker[t.id] \in {"rejected", "cancelled"}
    BY <1>1 DEF CalmShape
  <1>4. \A l \in Leg : \/ status'[l] = status[l]
                       \/ /\ orderId[l] = t.id
                          /\ status'[l] \in {"Error", "Cancelled"}
    BY <1>1 DEF FailOrder, CancelOrder, WithStatus, Booked
  <1>5. CalmShape' /\ EventsFit'
    BY <1>1, <1>2 DEF CalmShape, EventsFit
  <1>6. UnsentIds'
    BY <1>1, <1>2, <1>3, <1>4, UnsentKept
  <1>7. RowFits' /\ FilledStays
    BY <1>1, <1>2, <1>3, <1>4 DEF RowFits, FilledStays, IsLive, Live
  <1> QED
    BY <1>5, <1>6, <1>7 DEF CalmInv

\* The callback tasks keep the invariant; nothing is ever retried.
LEMMA TasksCalm == IndInv /\ CalmInv /\ Tasks => CalmInv' /\ FilledStays
  <1> SUFFICES ASSUME IndInv, CalmInv, Tasks PROVE CalmInv' /\ FilledStays
    OBVIOUS
  <1>1. ~ \E t \in tasks : RetryRead(t) \/ RetryWrite(t)
    BY DEF CalmInv, CalmShape, RetryRead, RetryWrite
  <1>2. CASE Requeue
    BY <1>2 DEF Requeue, KeepElse, brokerVars, workerVars, taskVars, recVars, sessVars,
           CalmInv, CalmShape, UnsentIds, MayAssign, EventsFit, RowFits, IsLive, FilledStays
  <1> QED
    BY <1>1, <1>2, ProcessStatusCalm, ErrorTasksCalm DEF Tasks

\* There is no outage, and no recovery run.
LEMMA OtherCalm ==
  ASSUME CalmScope, IndInv, CalmInv, Recovery \/ Disconnect \/ Crash \/ UNCHANGED vars
  PROVE  CalmInv' /\ FilledStays
  <1>1. ~Recovery
    <2>1. recoveries \in Nat /\ MaxRecoveries = 0 /\ CalmShape
      BY DEF IndInv, TypeOK, CalmScope, CalmInv
    <2>2. rpc = "off" /\ ~down
      BY <2>1 DEF CalmShape
    <2>3. ~(recoveries < MaxRecoveries)
      BY <2>1
    <2>4. ~RecoveryStart
      BY <2>2, <2>3 DEF RecoveryStart
    <2>5. ~RecoveryLoad /\ ~RecoveryDone /\ \A l \in Leg : ~RecoverRow(l) /\ ~RequeueRow(l)
      BY <2>2 DEF RecoveryLoad, RecoverRow, RequeueRow, RecoveryDone
    <2> QED
      BY <2>4, <2>5 DEF Recovery
  <1>2. ~Disconnect /\ ~Crash
    BY DEF Disconnect, Crash, CalmScope
  <1>3. CASE UNCHANGED vars
    BY <1>3 DEF vars, dbVars, brokerVars, workerVars, taskVars, recVars, sessVars,
           CalmInv, CalmShape, UnsentIds, MayAssign, EventsFit, RowFits, IsLive, FilledStays
  <1> QED
    BY <1>1, <1>2, <1>3

\* Every step keeps the invariant, and every row that says Filled.
LEMMA NextCalm ==
  CalmScope /\ IndInv /\ ExitInv /\ CalmInv /\ [Next]_vars => CalmInv' /\ FilledStays
  BY WorkerDecidesCalm, AssignCalm, SendCalm, BrokerCalm, TasksCalm, OtherCalm DEF Next

\* The three invariants hold together: a group that waits for a token while its
\* entry is Created has sent nothing.
LEMMA CalmInductive ==
  ASSUME CalmScope
  PROVE  Spec => [](IndInv /\ ExitInv /\ CalmInv)
  <1> DEFINE Inv == IndInv /\ ExitInv /\ CalmInv
  <1>1. Init => Inv
    BY InitInv, InitExit, InitCalm
  <1>2. Inv /\ [Next]_vars => Inv'
    BY NextInv, NextExit, NextCalm DEF CalmScope, BracketScope
  <1> QED
    BY <1>1, <1>2, PTL DEF Spec

\* Once everything has been processed the table agrees with TWS about every order
\* that was sent, in whatever order the status events, the error tasks and the
\* worker have written the row.
THEOREM BookAgreed ==
  ASSUME CalmScope
  PROVE  Spec => []BookAgrees
  <1>1. IndInv /\ CalmInv => BookAgrees
    <2> SUFFICES ASSUME IndInv, CalmInv, Quiet, NEW l \in Leg, orderId[l] \in Id
                 PROVE  LET b == broker[orderId[l]] IN
                        /\ b = "filled" <=> status[l] = "Filled"
                        /\ IsLive(orderId[l]) => status[l] \in {"Submitted", "PreSubmitted"}
                        /\ b \in {"cancelled"} \cup Refused
                              => status[l] \in {"Cancelled", "Error"}
      BY DEF BookAgrees
    <2>1. statusQ[orderId[l]] = <<>>
      BY DEF Quiet
    <2> QED
      BY <2>1 DEF CalmInv, CalmShape, RowFits, Rumour, Refused
  <1> QED
    BY <1>1, CalmInductive, PTL

\* A row that says Cancelled never has a live order at TWS, at any moment.
THEOREM CancelledDead ==
  ASSUME CalmScope
  PROVE  Spec => []CancelledIsDead
  <1>1. CalmInv => CancelledIsDead
    BY DEF CalmInv, RowFits, Rumour, CancelledIsDead
  <1> QED
    BY <1>1, CalmInductive, PTL

\* A row that says Filled stays Filled: no late event, no error task and no step of
\* the worker takes a fill back.
THEOREM FilledFinal ==
  ASSUME CalmScope
  PROVE  Spec => FilledIsFinal
  <1>1. IndInv /\ ExitInv /\ CalmInv /\ [Next]_vars
          => [\A l \in Leg : status[l] = "Filled" => status'[l] = "Filled"]_vars
    BY NextCalm DEF FilledStays
  <1> QED
    BY <1>1, CalmInductive, PTL DEF Spec, FilledIsFinal
=============================================================================
