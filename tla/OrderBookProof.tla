---------------------------- MODULE OrderBookProof ----------------------------
(***************************************************************************)
(* OrderLifecycle implements OrderBook, for every set of exits and every   *)
(* combination of disturbances.                                            *)
(***************************************************************************)
EXTENDS OrderLifecycleProof

USE LifecycleAssumption DEF Leg, Id

\* Initial states map to initial states.
LEMMA InitBook == Init => Book!Init
  BY DEF Init, Book!Init, OpenOrders, Open, Live, Book!Id

\* A leg has at most one open order.
LEMMA OneOpen ==
  ASSUME IndInv, NEW l \in Leg, NEW i \in OpenOrders(l)
  PROVE  OpenOrders(l) = {i}
  BY DEF IndInv, OpenOrdersBooked, OpenOrders

\* Whatever opens and places nothing closes some orders, or none.
LEMMA StepCloses ==
  ASSUME IndInv, UNCHANGED leg,
         \A j \in Id : /\ broker'[j] \in Open => broker[j] \in Open
                       /\ broker'[j] = "none" <=> broker[j] = "none"
  PROVE  Book!Next
  <1> DEFINE legs == {l \in Leg : OpenOrders(l)' = {}}
  <1>1. \A l \in Leg : OpenOrders(l)' = IF l \in legs THEN {} ELSE OpenOrders(l)
    <2> SUFFICES ASSUME NEW l \in Leg, l \notin legs
                 PROVE  OpenOrders(l)' = OpenOrders(l)
      OBVIOUS
    <2>1. OpenOrders(l)' \subseteq OpenOrders(l)
      BY DEF OpenOrders
    <2>2. PICK i \in OpenOrders(l)' : TRUE
      OBVIOUS
    <2> QED
      BY <2>1, <2>2, OneOpen
  <1>2. [l \in Leg |-> OpenOrders(l)]' =
          [l \in Leg |-> IF l \in legs THEN {} ELSE [m \in Leg |-> OpenOrders(m)][l]]
    BY <1>1
  <1>3. UNCHANGED {i \in Id : broker[i] # "none"}
    OBVIOUS
  <1>4. Book!Close(legs)
    BY <1>2, <1>3 DEF Book!Close
  <1> QED
    BY <1>4 DEF Book!Next

\* placeOrder with a fresh id places an order.
LEMMA SendPlaces ==
  ASSUME IndInv, Send
  PROVE  Book!Next
  <1> DEFINE i == orderId[cur]
  <1>1. /\ i \in Id /\ broker[i] = "none" /\ cur \in Leg
        /\ orderId \in [Leg -> Int] /\ broker \in [Id -> BrokerState] /\ leg \in [Id -> Leg]
        /\ \A j \in Id : leg[j] = cur => broker[j] \notin Open
        /\ \A l \in Leg \ {cur} : orderId[l] < i
    BY DEF IndInv, TypeOK, Send, FreshBeforeSend
  <1>2. broker'[i] \in Live /\ leg' = [leg EXCEPT ![i] = cur]
    BY <1>1 DEF Send, Live
  <1>3. \A j \in Id \ {i} :
          broker'[j] = broker[j] \/ (broker[j] = "held" /\ broker'[j] = "working")
    <2> TAKE j \in Id \ {i}
    <2>1. broker'[j] = IF /\ Transmit /\ ParentOf # 0 /\ broker[j] = "held"
                          /\ (j = ParentOf \/ parent[j] = ParentOf)
                       THEN "working" ELSE broker[j]
      BY DEF Send
    <2> QED
      BY <2>1
  <1>4. \A j \in Id : broker[j] # "none" => j < i
    <2> SUFFICES ASSUME NEW j \in Id, broker[j] # "none"
                 PROVE  j < i
      OBVIOUS
    <2>1. j <= orderId[leg[j]] /\ leg[j] \in Leg
      BY <1>1 DEF IndInv, TempIdNeverSent
    <2>2. CASE leg[j] = cur
      BY <1>1, <2>1, <2>2
    <2>3. CASE leg[j] # cur
      BY <1>1, <2>1, <2>3
    <2> QED
      BY <2>2, <2>3
  <1>5. OpenOrders(cur) = {}
    BY <1>1 DEF OpenOrders
  <1>6. \A l \in Leg : OpenOrders(l)' = IF l = cur THEN {i} ELSE OpenOrders(l)
    <2> SUFFICES ASSUME NEW l \in Leg, NEW j \in Id
                 PROVE  j \in OpenOrders(l)' <=>
                          j \in IF l = cur THEN {i} ELSE OpenOrders(l)
      BY <1>1 DEF OpenOrders
    <2>1. CASE j = i
      BY <1>1, <1>2, <2>1 DEF OpenOrders, Open, Live
    <2>2. CASE j # i
      <3>1. leg'[j] = leg[j] /\ (broker'[j] \in Open <=> broker[j] \in Open)
        BY <1>1, <1>2, <1>3, <2>2 DEF Open, Live
      <3> QED
        BY <1>5, <2>2, <3>1 DEF OpenOrders
    <2> QED
      BY <2>1, <2>2
  <1>7. [l \in Leg |-> OpenOrders(l)]' =
          [[l \in Leg |-> OpenOrders(l)] EXCEPT ![cur] = {i}]
    BY <1>1, <1>6
  <1>8. {j \in Id : broker[j] # "none"}' = {j \in Id : broker[j] # "none"} \cup {i}
    BY <1>1, <1>2, <1>3 DEF Live
  <1>9. PICK l \in Leg : l = cur
    BY <1>1
  <1>10. Book!Place(l)
    BY <1>1, <1>4, <1>5, <1>7, <1>8, <1>9 DEF Book!Place, Book!Id
  <1> QED
    BY <1>10 DEF Book!Next

\* Every step maps to a step of the order book, or to a stutter.
LEMMA StepBook == IndInv /\ [Next]_vars => Book!Next \/ UNCHANGED Book!vars
  <1> SUFFICES ASSUME IndInv, [Next]_vars PROVE Book!Next \/ UNCHANGED Book!vars
    OBVIOUS
  <1>1. CASE Send
    BY <1>1, SendPlaces
  <1>2. CASE Replace \/ ReplaceRefused
    <2>1. orderId[cur] \in Id /\ broker[orderId[cur]] = "locked"
      BY <1>2 DEF IndInv, LockedInRelock, Replace, ReplaceRefused
    <2>2. UNCHANGED leg
      BY <1>2 DEF Replace, ReplaceRefused
    <2>3. /\ broker'[orderId[cur]] \in {"held", "working", "rejected"}
          /\ \A j \in Id \ {orderId[cur]} : broker'[j] = broker[j]
      BY <1>2, <2>1 DEF Replace, ReplaceRefused, IndInv, TypeOK
    <2> QED
      BY <2>1, <2>2, <2>3, StepCloses DEF Open, Live
  <1>3. CASE Broker
    BY <1>3, BrokerCloses, StepCloses
  <1>4. CASE UNCHANGED <<broker, leg>>
    BY <1>4 DEF Book!vars, OpenOrders
  <1>5. UNCHANGED <<broker, leg>> \/ Send \/ Replace \/ ReplaceRefused \/ Broker
    <2> USE DEF KeepRest, KeepElse, KeepOthers, brokerVars, dbVars
    <2>1. CASE Worker
      BY <2>1 DEF Worker, Take, CheckPasses, CheckRefuses, CheckNeedsToken, Authorized,
           ReauthExpires, Abort, NextChild, GroupDone, AdjustKeeps, AdjustCancels,
           Assign, GuardPasses, GuardSkips, SendRaises, Accepted, RejectionSeen,
           LockSeen, RelockExpires, RelockRefuses
    <2>2. CASE Tasks
      BY <2>2 DEF Tasks, ProcessStatus, FailOrder, CancelOrder, RetryRead, RetryWrite,
           Requeue
    <2>3. CASE Recovery
      BY <2>3 DEF Recovery, RecoveryStart, RecoveryLoad, RecoverRow, RequeueRow,
           RecoveryDone
    <2>4. CASE Disconnect \/ Crash \/ UNCHANGED vars
      BY <2>4 DEF Disconnect, Crash, vars
    <2> QED
      BY <2>1, <2>2, <2>3, <2>4 DEF Next
  <1> QED
    BY <1>1, <1>2, <1>3, <1>4, <1>5

\* The orders of a group at TWS behave as OrderBook promises: one open order per
\* leg, a new one only after the last is over, with a higher id.
THEOREM Implementation == Spec => ImplementsOrderBook
  BY InitBook, StepBook, Inductive, PTL DEF Spec, ImplementsOrderBook, Book!Spec
==============================================================================
