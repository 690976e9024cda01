---------------------------- MODULE ConnectionProof ----------------------------
(***************************************************************************)
(* The guard of run_reconnect_callback keeps reconnection loops apart, and *)
(* no session stands for long without its recovery run, for any number of  *)
(* tasks, attempts, outages and manual requests.                           *)
(***************************************************************************)
EXTENDS Connection, TLAPS

\* The loop invariant holds at the start of the program.
LEMMA InitLoop == Init => LoopInv
  <1> USE ConnectionAssumption
  <1>1. ASSUME Init PROVE TypeOK
    <2>1. /\ gateway \in BOOLEAN /\ isReconnecting \in BOOLEAN /\ reset \in BOOLEAN
          /\ wake \in BOOLEAN /\ ping \in BOOLEAN /\ recovered \in BOOLEAN
      BY <1>1, Zenon DEF Init
    <2>2. /\ socket \in {"up", "stalled", "down"}
          /\ main \in {"connect", "failed", "recover", "running"} /\ tries \in 1..MaxAttempts
          /\ pc \in [Task -> {"none", "new"} \cup InLoop]
          /\ attempt \in Nat \ {0}
          /\ outages \in 0..MaxOutages /\ manual \in 0..MaxManual
      BY <1>1 DEF Init
    <2> QED
      BY <2>1, <2>2 DEF TypeOK
  <1>2. Init => OneLoop /\ FlagIsLoop
    BY DEF Init, OneLoop, FlagIsLoop, InLoop
  <1> QED
    BY <1>1, <1>2 DEF LoopInv

\* Steps that leave the tasks alone, but for new ones.
LEMMA Spawns ==
  ASSUME LoopInv, UNCHANGED isReconnecting, Spawn \/ UNCHANGED pc
  PROVE  /\ pc' \in [Task -> {"none", "new"} \cup InLoop]
         /\ OneLoop' /\ FlagIsLoop'
  BY DEF LoopInv, TypeOK, OneLoop, FlagIsLoop, Spawn, InLoop

\* A task that runs the loop goes on, or leaves it and lowers the flag.
LEMMA LoopSteps ==
  ASSUME LoopInv, NEW t \in Task, pc[t] \in InLoop,
         \/ \E p \in InLoop : /\ pc' = [pc EXCEPT ![t] = p] \/ SpawnFrom(t, p)
                             /\ UNCHANGED isReconnecting
         \/ Leave(t)
  PROVE  /\ pc' \in [Task -> {"none", "new"} \cup InLoop]
         /\ OneLoop' /\ FlagIsLoop'
  <1> USE DEF LoopInv, TypeOK, OneLoop, FlagIsLoop
  <1>1. CASE Leave(t)
    BY <1>1 DEF Leave, InLoop
  <1>2. ASSUME NEW p \in InLoop, pc' = [pc EXCEPT ![t] = p], UNCHANGED isReconnecting
        PROVE  /\ pc' \in [Task -> {"none", "new"} \cup InLoop]
               /\ OneLoop' /\ FlagIsLoop'
    BY <1>2
  <1>3. ASSUME NEW p \in InLoop, SpawnFrom(t, p), UNCHANGED isReconnecting
        PROVE  /\ pc' \in [Task -> {"none", "new"} \cup InLoop]
               /\ OneLoop' /\ FlagIsLoop'
    <2>1. PICK u \in Task : pc[u] = "none" /\ pc' = [pc EXCEPT ![t] = p, ![u] = "new"]
      BY <1>3 DEF SpawnFrom
    <2>2. /\ u # t /\ pc'[t] = p /\ pc'[u] = "new" /\ u \in Task
          /\ \A v \in Task \ {t, u} : pc'[v] = pc[v]
          /\ pc' \in [Task -> {"none", "new"} \cup InLoop]
      BY <2>1 DEF InLoop
    <2>3. "none" \notin InLoop /\ "new" \notin InLoop
      BY DEF InLoop
    <2> HIDE DEF InLoop
    <2> QED
      BY <1>3, <2>1, <2>2, <2>3
  <1> QED
    BY <1>1, <1>2, <1>3

\* Every step of the program and of its environment keeps the loop invariant.
LEMMA NextLoop == LoopInv /\ [Next]_vars => LoopInv'
  <1> SUFFICES ASSUME LoopInv, [Next]_vars PROVE LoopInv'
    OBVIOUS
  <1> USE ConnectionAssumption
  <1>1. CASE UNCHANGED vars
    BY <1>1 DEF LoopInv, TypeOK, OneLoop, FlagIsLoop, vars
  <1>2. CASE GatewayFails \/ GatewayReturns \/ Stall \/ Disconnect \/ Manual
    <2>1. UNCHANGED isReconnecting /\ (Spawn \/ UNCHANGED pc)
      BY <1>2 DEF GatewayFails, GatewayReturns, Stall, Disconnect, Manual, Closes
    <2>2. gateway' \in BOOLEAN /\ reset' \in BOOLEAN /\ wake' \in BOOLEAN
          /\ ping' \in BOOLEAN /\ recovered' \in BOOLEAN /\ isReconnecting' \in BOOLEAN
      BY <1>2, Zenon DEF LoopInv, TypeOK, GatewayFails, GatewayReturns, Stall, Disconnect,
                         Manual, Closes
    <2>3. /\ socket' \in {"up", "stalled", "down"}
          /\ main' \in {"connect", "failed", "recover", "running"} /\ tries' \in 1..MaxAttempts
          /\ attempt' \in Nat \ {0}
          /\ outages' \in 0..MaxOutages /\ manual' \in 0..MaxManual
      BY <1>2 DEF LoopInv, TypeOK, GatewayFails, GatewayReturns, Stall, Disconnect,
                  Manual, Closes
    <2> QED
      BY <2>1, <2>2, <2>3, Spawns DEF LoopInv, TypeOK
  <1>3. CASE Start \/ Heartbeat
    <2> USE DEF Start, Heartbeat, StartConnects, StartFails, StartLoops, StartRecovers,
                Replaces, Ping, PingAnswered, PingTimesOut, Closes
    <2>1. UNCHANGED isReconnecting /\ (Spawn \/ UNCHANGED pc)
      BY <1>3
    <2>2. UNCHANGED <<gateway, reset, wake>>
      BY <1>3
    <2>3. ping' \in BOOLEAN /\ recovered' \in BOOLEAN
      BY <1>3, Zenon DEF LoopInv, TypeOK, Connected
    <2>4. /\ socket' \in {"up", "stalled", "down"}
          /\ main' \in {"connect", "failed", "recover", "running"} /\ tries' \in 1..MaxAttempts
      BY <1>3 DEF LoopInv, TypeOK
    <2>5. UNCHANGED <<attempt, outages, manual>>
      BY <1>3
    <2> QED
      BY <2>1, <2>2, <2>3, <2>4, <2>5, Spawns DEF LoopInv, TypeOK
  <1>4. ASSUME NEW t \in Task, Loop(t) PROVE LoopInv'
    <2> USE DEF Loop, Enter, Wake, Connects, Replaces, Fails, Hail, Recovers, Leave
    <2>1. /\ UNCHANGED <<gateway, main, tries, outages, manual>>
          /\ socket' \in {"up", "stalled", "down"}
      BY <1>4 DEF LoopInv, TypeOK
    <2>2. attempt' \in Nat \ {0}
      <3>1. attempt' \in {1, attempt, attempt + 1}
        BY <1>4
      <3> QED
        BY <3>1 DEF LoopInv, TypeOK
    <2>3. /\ reset' \in BOOLEAN /\ wake' \in BOOLEAN /\ recovered' \in BOOLEAN
          /\ isReconnecting' \in BOOLEAN /\ ping' \in BOOLEAN
      BY <1>4, Zenon DEF LoopInv, TypeOK
    <2>4. CASE Enter(t)
      <3>1. CASE isReconnecting
        BY <2>4, <3>1 DEF Enter, LoopInv, TypeOK, OneLoop, FlagIsLoop, InLoop
      <3>2. ASSUME ~isReconnecting
            PROVE  /\ pc' \in [Task -> {"none", "new"} \cup InLoop]
                   /\ OneLoop' /\ FlagIsLoop'
        <4>1. pc' = [pc EXCEPT ![t] = "wait"] /\ isReconnecting' = TRUE
          BY <2>4, <3>2 DEF Enter
        <4>2. \A u \in Task : pc[u] \notin InLoop
          BY <3>2 DEF LoopInv, FlagIsLoop
        <4> QED
          BY <4>1, <4>2 DEF LoopInv, TypeOK, OneLoop, FlagIsLoop, InLoop
      <3>3. /\ pc' \in [Task -> {"none", "new"} \cup InLoop]
            /\ OneLoop' /\ FlagIsLoop'
        BY <3>1, <3>2 DEF LoopInv, TypeOK
      <3> QED
        BY <2>1, <2>2, <2>3, <3>3 DEF LoopInv, TypeOK
    <2>5. CASE Wake(t) \/ Connects(t) \/ Fails(t) \/ Hail(t) \/ Recovers(t)
      <3>1. /\ pc[t] \in InLoop
            /\ \/ \E p \in InLoop : /\ pc' = [pc EXCEPT ![t] = p] \/ SpawnFrom(t, p)
                                   /\ UNCHANGED isReconnecting
               \/ Leave(t)
        BY <2>5 DEF Wake, Connects, Fails, Hail, Recovers, InLoop
      <3>2. /\ pc' \in [Task -> {"none", "new"} \cup InLoop]
            /\ OneLoop' /\ FlagIsLoop'
        BY <3>1, LoopSteps
      <3> QED
        BY <2>1, <2>2, <2>3, <3>2 DEF LoopInv, TypeOK
    <2> QED
      BY <1>4, <2>4, <2>5 DEF Loop
  <1> QED
    BY <1>1, <1>2, <1>3, <1>4 DEF Next, Environment

\* The variables of main(), the loops, their triggers and the heartbeat keep their
\* types: in particular main() never makes more than MaxAttempts attempts.
THEOREM SessionTypes == Spec => []TypeOK
  <1>1. LoopInv => TypeOK
    BY DEF LoopInv
  <1> QED
    BY <1>1, InitLoop, NextLoop, PTL DEF Spec

\* Never two reconnection loops at once.
THEOREM ReconnectsAlone == Spec => []OneLoop
  <1>1. LoopInv => OneLoop
    BY DEF LoopInv
  <1> QED
    BY <1>1, InitLoop, NextLoop, PTL DEF Spec

\* No step leaves a session without a recovery run that has begun or is due.
LEMMA NextDue == TypeOK /\ RecoveryDue /\ [Next]_vars => RecoveryDue'
  <1> SUFFICES ASSUME TypeOK, RecoveryDue, [Next]_vars, Connected'
               PROVE  recovered' \/ main' = "recover" \/ \E t \in Task : pc'[t] = "hail"
    BY DEF RecoveryDue
  <1> USE DEF Connected
  <1>1. CASE UNCHANGED vars
    BY <1>1 DEF RecoveryDue, vars
  <1>2. ASSUME Connected, UNCHANGED <<recovered, main>>,
               \A t \in Task : pc[t] = "hail" => pc'[t] = "hail"
        PROVE  recovered' \/ main' = "recover" \/ \E t \in Task : pc'[t] = "hail"
    BY <1>2 DEF RecoveryDue
  <1>3. Spawn => \A t \in Task : pc[t] = "hail" => pc'[t] = "hail"
    BY DEF Spawn, TypeOK
  <1>4. CASE GatewayFails \/ GatewayReturns \/ Stall \/ Disconnect \/ Manual
    BY <1>2, <1>3, <1>4 DEF GatewayFails, GatewayReturns, Stall, Disconnect, Manual, Closes
  <1>5. CASE Heartbeat
    BY <1>2, <1>3, <1>5 DEF Heartbeat, Ping, PingAnswered, PingTimesOut, Closes
  <1>6. CASE Start
    <2>1. CASE StartConnects \/ StartRecovers
      BY <2>1 DEF StartConnects, StartRecovers, RecoveryDue
    <2>2. CASE StartFails \/ StartLoops
      <3>1. /\ Connected /\ main # "recover" /\ UNCHANGED recovered
            /\ Spawn \/ UNCHANGED pc
        BY <2>2 DEF StartFails, StartLoops, Closes
      <3> QED
        BY <3>1, <1>3 DEF RecoveryDue
    <2> QED
      BY <1>6, <2>1, <2>2 DEF Start
  <1>7. ASSUME NEW t \in Task, Loop(t)
        PROVE  recovered' \/ main' = "recover" \/ \E u \in Task : pc'[u] = "hail"
    <2>1. CASE Hail(t)
      BY <2>1 DEF Hail
    <2>2. CASE Connects(t)
      BY <2>2 DEF Connects, SpawnFrom, TypeOK
    <2>3. CASE Enter(t) \/ Wake(t) \/ Fails(t) \/ Recovers(t)
      <3>1. /\ Connected /\ UNCHANGED <<recovered, main>> /\ pc[t] # "hail"
            /\ \A u \in Task \ {t} : pc'[u] = pc[u]
        BY <2>3 DEF Enter, Wake, Fails, Recovers, Leave, TypeOK
      <3> QED
        BY <3>1, <1>2
    <2> QED
      BY <1>7, <2>1, <2>2, <2>3 DEF Loop
  <1> QED
    BY <1>1, <1>4, <1>5, <1>6, <1>7 DEF Next, Environment

\* Once nothing is under way, a standing session has had its recovery run, whoever
\* set it up and whatever interrupted it.
THEOREM RecoveredAlone == Spec => []SettledIsRecovered
  <1>1. Init => RecoveryDue
    BY DEF Init, RecoveryDue, Connected
  <1>2. TypeOK /\ RecoveryDue => SettledIsRecovered
    BY DEF TypeOK, RecoveryDue, SettledIsRecovered
  <1> QED
    BY <1>1, <1>2, SessionTypes, NextDue, PTL DEF Spec
==============================================================================
