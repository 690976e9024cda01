------------------------------ MODULE Connection ------------------------------
(***************************************************************************)
(* The session with TWS: the start of the program and its reconnection     *)
(* loop (main.py), the events that start one (callbacks.py,                *)
(* manual_reconnect_trigger) and the heartbeat.  All are coroutines of one *)
(* event loop: a step is the code between two awaits.                      *)
(*                                                                         *)
(* Delays, alerts, the container check and the weekly maintenance window   *)
(* are left out: a sleep lasts as long as it likes.  So is the periodic    *)
(* recovery of order_status_sync_loop, which no property may lean on.      *)
(*                                                                         *)
(* The Telegram bot runs before main() makes its first attempts, so a      *)
(* manual request may put a reconnection loop beside them: connectAsync of *)
(* one replaces the session of the other, and closes it or not if it fails.*)
(***************************************************************************)
EXTENDS Integers, FiniteSets

CONSTANTS
    Task,           \* slots for run_reconnect_callback tasks
    MaxAttempts,    \* config.tws.reconnect_max_attempts
    MaxFails,       \* bound on attempt, the failed attempts of a loop
    MaxOutages,     \* bound on lost, stalled sessions and gateway failures
    MaxManual       \* bound on manual reconnection requests (Telegram)

ASSUME ConnectionAssumption ==
    /\ MaxAttempts \in Nat \ {0} /\ MaxFails \in Nat
    /\ MaxOutages \in Nat /\ MaxManual \in Nat

VARIABLES
    gateway,        \* TWS accepts connections
    socket,         \* up, stalled (open but mute) or down
    main, tries,    \* main(): its place and its connection attempts
    pc,             \* the reconnect tasks
    isReconnecting, attempt, reset, wake,   \* the orchestrator's attributes
    ping,           \* a heartbeat ping is out
    recovered,      \* a recovery run has begun in this session
    outages, manual

vars == <<gateway, socket, main, tries, pc, isReconnecting, attempt, reset, wake,
          ping, recovered, outages, manual>>

InLoop == {"wait", "attempt", "hail", "recover"}

\* The types: main() makes MaxAttempts attempts at most, a loop any number.
TypeOK ==
    /\ gateway \in BOOLEAN
    /\ socket \in {"up", "stalled", "down"}
    /\ main \in {"connect", "failed", "recover", "running"} /\ tries \in 1..MaxAttempts
    /\ pc \in [Task -> {"none", "new"} \cup InLoop]
    /\ isReconnecting \in BOOLEAN /\ reset \in BOOLEAN /\ wake \in BOOLEAN
    /\ attempt \in Nat \ {0}
    /\ ping \in BOOLEAN /\ recovered \in BOOLEAN
    /\ outages \in 0..MaxOutages /\ manual \in 0..MaxManual

Connected == socket # "down"    \* interactive_brokers.isConnected()

Init ==
    /\ gateway \in BOOLEAN /\ socket = "down"
    /\ main = "connect" /\ tries = 1
    /\ pc = [t \in Task |-> "none"]
    /\ isReconnecting = FALSE /\ attempt = 1 /\ reset = FALSE /\ wake = FALSE
    /\ ping = FALSE /\ recovered = FALSE
    /\ outages = 0 /\ manual = 0

\* asyncio.create_task(run_reconnect_callback())
Spawn == \E t \in Task : pc[t] = "none" /\ pc' = [pc EXCEPT ![t] = "new"]

\* The same while task t goes on to p.
SpawnFrom(t, p) ==
    \E u \in Task : pc[u] = "none" /\ pc' = [pc EXCEPT ![t] = p, ![u] = "new"]

----------------------------------------------------------------------------
(* The environment.                                                        *)

GatewayFails ==
    /\ gateway /\ outages < MaxOutages
    /\ gateway' = FALSE /\ outages' = outages + 1
    /\ UNCHANGED <<socket, main, tries, pc, isReconnecting, attempt, reset, wake,
                   ping, recovered, manual>>

GatewayReturns ==
    /\ ~gateway /\ gateway' = TRUE
    /\ UNCHANGED <<socket, main, tries, pc, isReconnecting, attempt, reset, wake,
                   ping, recovered, outages, manual>>

Stall ==
    /\ socket = "up" /\ outages < MaxOutages
    /\ socket' = "stalled" /\ outages' = outages + 1
    /\ UNCHANGED <<gateway, main, tries, pc, isReconnecting, attempt, reset, wake,
                   ping, recovered, manual>>

\* The socket closes: on_disconnected creates a reconnect task; a ping that is
\* out fails, which is only logged.
Closes ==
    /\ socket' = "down" /\ recovered' = FALSE /\ ping' = FALSE
    /\ Spawn

Disconnect ==
    /\ Connected /\ outages < MaxOutages
    /\ Closes /\ outages' = outages + 1
    /\ UNCHANGED <<gateway, main, tries, isReconnecting, attempt, reset, wake, manual>>

\* manual_reconnect_trigger, from the Telegram bot
Manual ==
    /\ manual < MaxManual
    /\ manual' = manual + 1
    /\ reset' = TRUE /\ wake' = TRUE
    /\ IF isReconnecting THEN UNCHANGED pc ELSE Spawn
    /\ UNCHANGED <<gateway, socket, main, tries, isReconnecting, attempt, ping,
                   recovered, outages>>

----------------------------------------------------------------------------
(* main() and connect_to_tws.                                              *)

\* connectAsync succeeds, in the place of a session that stands already.
Replaces ==
    /\ gateway /\ socket' = "up" /\ recovered' = FALSE
    /\ ping' = (ping /\ ~Connected)

StartConnects ==
    /\ main = "connect" /\ main' = "recover"
    /\ Replaces /\ IF Connected THEN Spawn ELSE UNCHANGED pc
    /\ UNCHANGED <<gateway, tries, isReconnecting, attempt, reset, wake, outages, manual>>

\* Mutant: one attempt more than main() may make.
StartFailsOnceMore ==
    /\ main = "connect"
    /\ IF tries <= MaxAttempts
       THEN tries' = tries + 1 /\ UNCHANGED main
       ELSE main' = "failed" /\ UNCHANGED tries
    /\ UNCHANGED <<gateway, socket, pc, isReconnecting, attempt, reset, wake, ping,
                   recovered, outages, manual>>

\* A failed attempt, which may close the session of a loop.
StartFails ==
    /\ main = "connect"
    /\ IF tries < MaxAttempts
       THEN tries' = tries + 1 /\ UNCHANGED main
       ELSE main' = "failed" /\ UNCHANGED tries
    /\ \/ UNCHANGED <<socket, recovered, ping, pc>>
       \/ Connected /\ Closes
    /\ UNCHANGED <<gateway, isReconnecting, attempt, reset, wake, outages, manual>>

\* After the last one, and its message, main() starts a loop.
StartLoops ==
    /\ main = "failed" /\ main' = "running" /\ Spawn
    /\ UNCHANGED <<gateway, socket, tries, isReconnecting, attempt, reset, wake, ping,
                   recovered, outages, manual>>

\* run_recovery_callback, which does nothing without a session
StartRecovers ==
    /\ main = "recover" /\ main' = "running"
    /\ recovered' = (recovered \/ Connected)
    /\ UNCHANGED <<gateway, socket, tries, pc, isReconnecting, attempt, reset, wake,
                   ping, outages, manual>>

----------------------------------------------------------------------------
(* run_reconnect_callback and _execute_reconnect_loop.                     *)

\* Mutant: the check for a running loop is missing.
EnterAnyway(t) ==
    /\ pc[t] = "new"
    /\ pc' = [pc EXCEPT ![t] = "wait"]
    /\ isReconnecting' = TRUE /\ attempt' = 1 /\ reset' = FALSE
    /\ UNCHANGED <<gateway, socket, main, tries, wake, ping, recovered,
                   outages, manual>>

\* A second trigger is skipped while a loop runs.
Enter(t) ==
    /\ pc[t] = "new"
    /\ IF isReconnecting
       THEN pc' = [pc EXCEPT ![t] = "none"] /\ UNCHANGED <<isReconnecting, attempt, reset>>
       ELSE /\ pc' = [pc EXCEPT ![t] = "wait"]
            /\ isReconnecting' = TRUE /\ attempt' = 1 /\ reset' = FALSE
    /\ UNCHANGED <<gateway, socket, main, tries, wake, ping, recovered,
                   outages, manual>>

\* The loop of task t ends; the `finally` of run_reconnect_callback.
Leave(t) ==
    /\ pc' = [pc EXCEPT ![t] = "none"]
    /\ isReconnecting' = FALSE /\ reset' = FALSE

\* _wait_reconnect_interval is over: the delay has passed or somebody woke it.
Wake(t) ==
    /\ pc[t] = "wait" /\ wake' = FALSE
    /\ IF Connected
       THEN Leave(t) /\ UNCHANGED attempt
       ELSE /\ pc' = [pc EXCEPT ![t] = "attempt"]
            /\ attempt' = IF reset THEN 1 ELSE attempt
            /\ reset' = FALSE /\ UNCHANGED isReconnecting
    /\ UNCHANGED <<gateway, socket, main, tries, ping, recovered, outages, manual>>

\* _attempt_single_reconnect
Connects(t) ==
    /\ pc[t] = "attempt" /\ Replaces
    /\ IF Connected THEN SpawnFrom(t, "hail") ELSE pc' = [pc EXCEPT ![t] = "hail"]
    /\ UNCHANGED <<gateway, main, tries, isReconnecting, attempt, reset, wake,
                   outages, manual>>

\* Mutant: the loop gives up after the last regular attempt.
FailsForGood(t) ==
    /\ pc[t] = "attempt"
    /\ IF attempt = MaxAttempts
       THEN Leave(t) /\ UNCHANGED attempt
       ELSE /\ pc' = [pc EXCEPT ![t] = "wait"]
            /\ attempt' = attempt + 1
            /\ UNCHANGED <<isReconnecting, reset>>
    /\ UNCHANGED <<gateway, socket, main, tries, wake, ping, recovered, outages, manual>>

\* A failed attempt: beyond MaxAttempts the loop goes on, hourly, and counts on; a
\* manual request starts the count again.
Fails(t) ==
    /\ pc[t] = "attempt"
    /\ attempt < MaxFails
    /\ attempt' = IF reset THEN 1 ELSE attempt + 1
    /\ reset' = FALSE
    /\ \/ pc' = [pc EXCEPT ![t] = "wait"] /\ UNCHANGED <<socket, recovered, ping>>
       \/ /\ Connected /\ SpawnFrom(t, "wait")
          /\ socket' = "down" /\ recovered' = FALSE /\ ping' = FALSE
    /\ UNCHANGED <<gateway, main, tries, isReconnecting, wake, outages, manual>>

\* Mutant: no recovery run after a reconnection.
HailOnly(t) ==
    /\ pc[t] = "hail"
    /\ Leave(t)
    /\ UNCHANGED <<gateway, socket, main, tries, attempt, wake, ping, recovered,
                   outages, manual>>

\* _handle_successful_reconnection: after the status message the open orders are
\* requested and the recovery run begins, unless the session is gone again.
Hail(t) ==
    /\ pc[t] = "hail"
    /\ IF Connected
       THEN /\ recovered' = TRUE
            /\ pc' = [pc EXCEPT ![t] = "recover"] /\ UNCHANGED <<isReconnecting, reset>>
       ELSE Leave(t) /\ UNCHANGED recovered
    /\ UNCHANGED <<gateway, socket, main, tries, attempt, wake, ping, outages, manual>>

Recovers(t) ==
    /\ pc[t] = "recover"
    /\ Leave(t)
    /\ UNCHANGED <<gateway, socket, main, tries, attempt, wake, ping, recovered,
                   outages, manual>>

----------------------------------------------------------------------------
(* The heartbeat.                                                          *)

Ping ==
    /\ Connected /\ ~ping /\ ping' = TRUE
    /\ UNCHANGED <<gateway, socket, main, tries, pc, isReconnecting, attempt, reset,
                   wake, recovered, outages, manual>>

PingAnswered ==
    /\ ping /\ socket = "up" /\ ping' = FALSE
    /\ UNCHANGED <<gateway, socket, main, tries, pc, isReconnecting, attempt, reset,
                   wake, recovered, outages, manual>>

\* Mutant: a timed-out ping is only logged.
PingIgnored ==
    /\ ping /\ socket = "stalled" /\ ping' = FALSE
    /\ UNCHANGED <<gateway, socket, main, tries, pc, isReconnecting, attempt, reset,
                   wake, recovered, outages, manual>>

\* disconnect() after the timeout
PingTimesOut ==
    /\ ping /\ socket = "stalled"
    /\ Closes
    /\ UNCHANGED <<gateway, main, tries, isReconnecting, attempt, reset, wake,
                   outages, manual>>

Loop(t) == Enter(t) \/ Wake(t) \/ Connects(t) \/ Fails(t) \/ Hail(t) \/ Recovers(t)

Start == StartConnects \/ StartFails \/ StartLoops \/ StartRecovers
Environment == GatewayFails \/ GatewayReturns \/ Stall \/ Disconnect \/ Manual
Heartbeat == Ping \/ PingAnswered \/ PingTimesOut

Next == Environment \/ Start \/ Heartbeat \/ \E t \in Task : Loop(t)

Spec == Init /\ [][Next]_vars

\* The coroutines run; the gateway comes back; a connection to a gateway that is
\* up does not fail for ever.
FairSpec ==
    /\ Spec
    /\ WF_vars(Start)
    /\ \A t \in Task : WF_vars(Loop(t)) /\ SF_vars(Connects(t))
    /\ WF_vars(Ping) /\ WF_vars(PingAnswered \/ PingTimesOut)
    /\ WF_vars(GatewayReturns)

----------------------------------------------------------------------------
(* Properties.                                                             *)

\* Never two reconnection loops at once, whoever triggers them (the promise of
\* run_reconnect_callback): their connectAsync calls would fight over the client id.
OneLoop ==
    \A t, u \in Task : pc[t] \in InLoop /\ pc[u] \in InLoop => t = u

\* Once nothing is under way, a standing session has had its recovery run:
\* whatever happened at TWS while there was none is in the table.
SettledIsRecovered ==
    main = "running" /\ (\A t \in Task : pc[t] = "none") /\ Connected => recovered

\* A loop that has begun to wait ends with a session, in hourly attempts if need be.
LoopReconnects ==
    (\E t \in Task : pc[t] \in {"wait", "attempt"}) ~> Connected

\* A session that has gone mute is closed by the heartbeat.
StallIsDetected == socket = "stalled" ~> socket # "stalled"

\* A lost session is always replaced.
SessionReturns == ~Connected ~> Connected

\* is_reconnecting tells whether a loop runs: why OneLoop is inductive.
FlagIsLoop == isReconnecting <=> \E t \in Task : pc[t] \in InLoop
\* The inductive invariant behind OneLoop.
LoopInv == TypeOK /\ OneLoop /\ FlagIsLoop
\* A standing session has had its recovery run, or somebody is about to begin it:
\* why SettledIsRecovered is inductive.
RecoveryDue ==
    Connected => recovered \/ main = "recover" \/ \E t \in Task : pc[t] = "hail"
==============================================================================
