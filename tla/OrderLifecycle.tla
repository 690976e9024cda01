---------------------------- MODULE OrderLifecycle ----------------------------
(***************************************************************************)
(* One trade group on its way through the system: the execution worker     *)
(* (worker.py) that sends its bracket, TWS, the callback tasks             *)
(* (callbacks.py), the retry handler (retry.py), the recovery run          *)
(* (recovery.py: run_recovery up to the position reconciliation), and a    *)
(* crash of the process.  All of them are asyncio coroutines over one      *)
(* SQLite table: a step below is the code between two awaits that touch    *)
(* the table or TWS, a transaction is atomic, everything interleaves.      *)
(*                                                                         *)
(* `down` is FALSE while the session with TWS stands and the program runs. *)
(* It rises when the socket drops and when the process dies; the recovery  *)
(* run that follows a reconnection or a restart lowers it.                 *)
(*                                                                         *)
(* Quantities, prices and notifications are left out; a 399 pre-market     *)
(* notice is never raised (OrderStatus covers its effect on transitions).  *)
(***************************************************************************)
EXTENDS OrderStatus, Sequences, FiniteSets

CONSTANTS
    Entry,          \* the ENTRY leg of the group
    Child,          \* its SL / TP / EXIT legs
    GtdLeg,         \* the LMT exits that have a LOC or MOC sibling
    TempId,         \* temporary negative order_id of each leg after the import
    MaxId,          \* bound on TWS order ids
    ReqIds,         \* what client.getReqId() may return
    MaxRetries,     \* config.app.max_retries
    MaxRecoveries,  \* bound on the periodic recovery runs (every 300 s)
    MaxOutages,     \* bound on crashes and disconnections
    Faults          \* which disturbances the environment may cause

Leg == {Entry} \cup Child
Id  == 1..MaxId

AllFaults ==
    {"crash",       \* the process dies and is started again
     "disconnect",  \* the socket to TWS drops
     "refuse",      \* the what-if, cushion or margin check refuses the entry
     "reauth",      \* the what-if answers that a token must be confirmed
     "lock",        \* TWS refuses a placed order for want of the token
     "reject",      \* TWS refuses a placed order for good
     "bounce",      \* TWS refuses a placed order with a RETRIABLE code
     "cancel",      \* somebody cancels an order at TWS
     "cancelRace",  \* a cancel request meets a finished order: code 10148
     "inactive",    \* TWS reports an attached child Inactive before its entry fills
     "cutoff",      \* the LOC/GTD cut-off of the day has passed
     "stalePositions", \* ib.positions() lags behind TWS
     "timeout"}     \* reqOpenOrders / reqCompletedOrders run into their timeout

ASSUME LifecycleAssumption ==
    /\ Entry \notin Child
    /\ GtdLeg \subseteq Child
    /\ TempId \in [Leg -> Int]
    /\ \A l \in Leg : TempId[l] < 0
    /\ \A l, m \in Leg : TempId[l] = TempId[m] => l = m
    /\ MaxId \in Nat /\ ReqIds \subseteq Nat \ {0}
    /\ MaxRetries \in Nat /\ MaxRecoveries \in Nat /\ MaxOutages \in Nat
    /\ Faults \subseteq AllFaults

VARIABLES
    \* the orders table, by column
    orderId, status, retryCount,
    \* TWS, by order id; heard: what the order has been reported as
    broker, leg, parent, heard,
    \* the queue (all entries are this group) and the sleeping retry tasks
    queue, backoff,
    \* the execution worker: place, leg in hand, children it loaded as Created
    \* and has not come to, is_post_fill, the status to abort the others with
    pc, cur, todo, postFill, failAs,
    \* callback tasks: status events per order (FIFO behind the order's lock),
    \* error tasks, and the ids already reported as cancelled
    statusQ, tasks, notified,
    \* the recovery run: place, TWS snapshot, loaded rows, legs left, requeue?
    rpc, rActive, rFilled, rSnap, rId, rTodo, rQueue, recoveries,
    \* the session with TWS
    down, outages

dbVars     == <<orderId, status, retryCount>>
brokerVars == <<broker, leg, parent, heard>>
queueVars  == <<queue, backoff>>
workerVars == <<pc, cur, todo, postFill, failAs>>
taskVars   == <<statusQ, tasks, notified>>
recVars    == <<rpc, rActive, rFilled, rSnap, rId, rTodo, rQueue, recoveries>>
sessVars   == <<down, outages>>
vars == <<dbVars, brokerVars, queueVars, workerVars, taskVars, recVars, sessVars>>

\* held: placed with transmit = False and not yet released.  rejected, bounced
\* and locked: refused by TWS for good, with a RETRIABLE code, for want of a token.
BrokerState == {"none", "held", "working", "filled", "cancelled",
                "rejected", "bounced", "locked"}
Live    == {"held", "working"}
Dead    == {"filled", "cancelled", "rejected", "bounced"}
Refused == {"rejected", "bounced", "locked"}

PCs == {"idle", "check", "reauth", "abort", "next", "adjust", "assign", "guard",
        "send", "verify", "relock"}

\* fatal, cancel, retriable: _process_error by class of the code;
\* retryWrite: the retry handler between its SELECT (which read n) and its UPDATE.
TaskKind == {"fatal", "cancel", "retriable", "retryWrite"}
Task == [kind : TaskKind, id : Id, n : Nat]
MkTask(k, i) == [kind |-> k, id |-> i, n |-> 0]

\* The columns of the table, TWS and the coroutines keep their types.
TypeOK ==
    /\ orderId \in [Leg -> Int]
    /\ status \in [Leg -> Status]
    /\ retryCount \in [Leg -> Nat]
    /\ broker \in [Id -> BrokerState]
    /\ leg \in [Id -> Leg]
    /\ parent \in [Id -> Int]
    /\ heard \in [Id -> SUBSET (TwsStatus \cup {"10148"})]
    /\ queue \in Nat /\ backoff \in Nat
    /\ pc \in PCs /\ cur \in Leg /\ todo \subseteq Child
    /\ postFill \in BOOLEAN /\ failAs \in Status
    /\ statusQ \in [Id -> Seq(TwsStatus)]
    /\ tasks \subseteq Task
    /\ notified \subseteq Id
    /\ rpc \in {"off", "load", "work"}
    /\ rActive \subseteq Id /\ rFilled \subseteq Id
    /\ rSnap \in [Leg -> Status] /\ rId \in [Leg -> Int] /\ rTodo \subseteq Leg
    /\ rQueue \in BOOLEAN /\ recoveries \in Nat
    /\ down \in BOOLEAN /\ outages \in Nat

----------------------------------------------------------------------------
(* The table and TWS as the code sees them.                                *)

\* Mutant: the UPDATE is keyed by the trade group.
WithStatusOfGroup(i, s) == [l \in Leg |-> s]

\* UPDATE orders SET status = s WHERE order_id = i
WithStatus(i, s) == [l \in Leg |-> IF orderId[l] = i THEN s ELSE status[l]]

IsLive(i) == broker[i] \in Live

\* The group's position at TWS: entry filled, no exit filled.
HasPosition ==
    /\ \E i \in Id : leg[i] = Entry /\ broker[i] = "filled"
    /\ ~ \E i \in Id : leg[i] \in Child /\ broker[i] = "filled"

\* What ib.positions() may show.
SeenPosition == IF "stalePositions" \in Faults THEN BOOLEAN ELSE {HasPosition}

\* _get_next_non_colliding_order_id: n comes from getReqId(), the table wins.
IsNextOrderId(i, n) ==
    IF \E l \in Leg : orderId[l] >= n
    THEN /\ \A l \in Leg : orderId[l] < i
         /\ \E l \in Leg : i = orderId[l] + 1
    ELSE i = n

\* An imported group.  Either nothing was sent yet, or the entry (id 1) was
\* filled earlier and its exits were imported afterwards.
Init ==
    \E filled \in {f \in BOOLEAN : f => MaxId >= 1} :
    /\ orderId = [l \in Leg |-> IF l = Entry /\ filled THEN 1 ELSE TempId[l]]
    /\ status = [l \in Leg |-> IF l = Entry /\ filled THEN "Filled" ELSE "Created"]
    /\ retryCount = [l \in Leg |-> 0]
    /\ broker = [i \in Id |-> IF i = 1 /\ filled THEN "filled" ELSE "none"]
    /\ leg = [i \in Id |-> Entry]
    /\ parent = [i \in Id |-> 0]
    /\ heard = [i \in Id |-> {}]
    /\ queue = 1 /\ backoff = 0
    /\ pc = "idle" /\ cur = Entry /\ todo = {}
    /\ postFill = FALSE /\ failAs = "Error"
    /\ statusQ = [i \in Id |-> <<>>] /\ tasks = {} /\ notified = {}
    /\ rpc = "off" /\ rActive = {} /\ rFilled = {}
    /\ rSnap = [l \in Leg |-> "Created"] /\ rId = TempId /\ rTodo = {}
    /\ rQueue = FALSE /\ recoveries = 0
    /\ down = FALSE /\ outages = 0

----------------------------------------------------------------------------
(* The execution worker (worker.py).  Goto(p) is the end of a step.        *)

Goto(p) == pc' = p
KeepJob == UNCHANGED <<cur, todo, postFill, failAs>>
KeepRest == UNCHANGED <<queueVars, taskVars, recVars, sessVars>>

\* A leg has failed: a failed entry aborts the group, a failed child is skipped.
GiveUp(s) ==
    /\ Goto(IF cur = Entry THEN "abort" ELSE "next")
    /\ failAs' = s
    /\ UNCHANGED <<cur, todo, postFill>>

\* Mutants: the worker loads legs that are already at TWS as if they were unsent;
\* it never asks whether the entry is filled.
TakeResending ==
    /\ pc = "idle" /\ queue > 0 /\ ~down
    /\ queue' = queue - 1
    /\ cur' = Entry
    /\ todo' = {c \in Child : status[c] \in Pending}
    /\ postFill' = (status[Entry] = "Filled")
    /\ failAs' = IF status[Entry] = "Cancelled" THEN "Cancelled" ELSE "Error"
    /\ Goto(IF status[Entry] \in Pending THEN "check"
            ELSE IF status[Entry] \in {"Error", "Cancelled"} THEN "abort"
            ELSE "next")
    /\ UNCHANGED <<dbVars, brokerVars, backoff, taskVars, recVars, sessVars>>
TakeFilled ==
    /\ pc = "idle" /\ queue > 0 /\ ~down
    /\ queue' = queue - 1
    /\ cur' = Entry
    /\ todo' = {c \in Child : status[c] = "Created"}
    /\ postFill' = FALSE
    /\ failAs' = IF status[Entry] = "Cancelled" THEN "Cancelled" ELSE "Error"
    /\ Goto(IF status[Entry] \in {"Error", "Cancelled"} THEN "abort" ELSE "check")
    /\ UNCHANGED <<dbVars, brokerVars, backoff, taskVars, recVars, sessVars>>

\* execution_worker takes the group off the queue while TWS is connected;
\* process_trade_group loads its rows and _ensure_entry_order_submitted decides.
Take ==
    /\ pc = "idle" /\ queue > 0 /\ ~down
    /\ queue' = queue - 1
    /\ cur' = Entry
    /\ todo' = {c \in Child : status[c] = "Created"}
    /\ postFill' = (status[Entry] = "Filled")
    /\ failAs' = IF status[Entry] = "Cancelled" THEN "Cancelled" ELSE "Error"
    /\ Goto(IF status[Entry] = "Created" THEN "check"
            ELSE IF status[Entry] \in {"Error", "Cancelled"} THEN "abort"
            ELSE "next")
    /\ UNCHANGED <<dbVars, brokerVars, backoff, taskVars, recVars, sessVars>>

\* _verify_margin_and_cushion: cushion, what-if and margin.  Without a session
\* the what-if raises, which fails closed.
CheckPasses ==
    /\ pc = "check" /\ ~down
    /\ Goto("assign") /\ KeepJob
    /\ UNCHANGED <<dbVars, brokerVars>> /\ KeepRest

CheckRefuses ==
    /\ pc \in {"check", "reauth"}
    /\ down \/ "refuse" \in Faults
    /\ status' = WithStatus(orderId[Entry], "Error")
    /\ GiveUp("Error")
    /\ UNCHANGED <<orderId, retryCount, brokerVars>> /\ KeepRest

CheckNeedsToken ==
    /\ pc = "check" /\ ~down /\ "reauth" \in Faults
    /\ Goto("reauth") /\ KeepJob
    /\ UNCHANGED <<dbVars, brokerVars>> /\ KeepRest

\* handle_reauthorization_wait ends: the token was confirmed, or the market
\* closed and every row of the group is cancelled.
Authorized ==
    /\ pc = "reauth" /\ ~down
    /\ Goto("assign") /\ KeepJob
    /\ UNCHANGED <<dbVars, brokerVars>> /\ KeepRest

ReauthExpires ==
    /\ pc = "reauth"
    /\ status' = [l \in Leg |-> "Cancelled"]
    /\ GiveUp("Cancelled")
    /\ UNCHANGED <<orderId, retryCount, brokerVars>> /\ KeepRest

\* Mutant: the other legs of the group are left as they are.
AbortLeaving ==
    /\ pc = "abort"
    /\ Goto("idle") /\ KeepJob
    /\ UNCHANGED <<dbVars, brokerVars>> /\ KeepRest

\* _abort_remaining_trade_group_orders
Abort ==
    /\ pc = "abort"
    /\ status' = [l \in Leg |-> IF status[l] = "Created" THEN failAs ELSE status[l]]
    /\ Goto("idle") /\ KeepJob
    /\ UNCHANGED <<orderId, retryCount, brokerVars>> /\ KeepRest

\* The loop of _process_child_orders, in the order the rows were loaded.
NextChild ==
    /\ pc = "next" /\ todo # {}
    /\ \E c \in todo :
        /\ \A d \in todo : orderId[c] <= orderId[d]
        /\ cur' = c /\ todo' = todo \ {c}
    /\ Goto(IF postFill THEN "adjust" ELSE "assign")
    /\ UNCHANGED <<dbVars, brokerVars, postFill, failAs>> /\ KeepRest

GroupDone ==
    /\ pc = "next" /\ todo = {}
    /\ Goto("idle") /\ KeepJob
    /\ UNCHANGED <<dbVars, brokerVars>> /\ KeepRest

\* _adjust_exit_order_quantity: without a position the exit is cancelled.
AdjustKeeps ==
    /\ pc = "adjust" /\ TRUE \in SeenPosition
    /\ Goto("assign") /\ KeepJob
    /\ UNCHANGED <<dbVars, brokerVars>> /\ KeepRest

AdjustCancels ==
    /\ pc = "adjust" /\ FALSE \in SeenPosition
    /\ status' = WithStatus(orderId[cur], "Cancelled")
    /\ Goto("next") /\ KeepJob
    /\ UNCHANGED <<orderId, retryCount, brokerVars>> /\ KeepRest

\* Under ORDER_ID_LOCK: _get_next_non_colliding_order_id, _assign_order_id_in_db.
Assign ==
    /\ pc = "assign"
    /\ \E n \in ReqIds, i \in Id :
        /\ IsNextOrderId(i, n)
        /\ orderId' = [orderId EXCEPT ![cur] = i]
    /\ status' = [status EXCEPT ![cur] = "Submitted"]
    /\ Goto(IF cur = Entry THEN "send" ELSE "guard") /\ KeepJob
    /\ UNCHANGED <<retryCount, brokerVars>> /\ KeepRest

\* _apply_loc_gtd_guard
GuardPasses ==
    /\ pc = "guard"
    /\ Goto("send") /\ KeepJob
    /\ UNCHANGED <<dbVars, brokerVars>> /\ KeepRest

GuardSkips ==
    /\ pc = "guard" /\ cur \in GtdLeg /\ "cutoff" \in Faults
    /\ status' = WithStatus(orderId[cur], "Cancelled")
    /\ Goto("next") /\ KeepJob
    /\ UNCHANGED <<orderId, retryCount, brokerVars>> /\ KeepRest

\* Mutants of Transmit: every order is transmitted; only post-fill exits are.
TransmitAlways == TRUE
TransmitNever  == postFill /\ cur # Entry

\* The parentId and the transmit flag of the order about to be placed.
ParentOf == IF cur = Entry \/ postFill THEN 0 ELSE orderId[Entry]
Transmit == todo = {} \/ (postFill /\ cur # Entry)

\* placeOrder with a session.  A transmitted order releases its held bracket.
Send ==
    /\ pc = "send" /\ ~down
    /\ LET i == orderId[cur] IN
       /\ broker' = [j \in Id |->
            IF j = i THEN IF Transmit THEN "working" ELSE "held"
            ELSE IF /\ Transmit /\ ParentOf # 0 /\ broker[j] = "held"
                    /\ (j = ParentOf \/ parent[j] = ParentOf)
                 THEN "working"
            ELSE broker[j]]
       /\ leg' = [leg EXCEPT ![i] = cur]
       /\ parent' = [parent EXCEPT ![i] = ParentOf]
    /\ Goto("verify") /\ KeepJob
    /\ UNCHANGED <<heard, dbVars>> /\ KeepRest

\* placeOrder without a session raises: execution_worker logs it and goes on to
\* the next queue entry; rows and loaded children stay as they are.
SendRaises ==
    /\ pc = "send" /\ down
    /\ Goto("idle") /\ KeepJob
    /\ UNCHANGED <<dbVars, brokerVars>> /\ KeepRest

\* _place_and_verify_order after at most two seconds: no refusal seen, a refusal
\* or cancellation seen (_handle_order_rejection), or a missing token seen.
Accepted ==
    /\ pc = "verify"
    /\ Goto("next") /\ KeepJob
    /\ UNCHANGED <<dbVars, brokerVars>> /\ KeepRest

RejectionSeen ==
    /\ pc = "verify" /\ ~down
    /\ broker[orderId[cur]] \in {"rejected", "bounced", "cancelled"}
    /\ status' = WithStatus(orderId[cur], "Error")
    /\ GiveUp("Error")
    /\ UNCHANGED <<orderId, retryCount, brokerVars>> /\ KeepRest

LockSeen ==
    /\ pc = "verify" /\ ~down
    /\ broker[orderId[cur]] = "locked"
    /\ Goto("relock") /\ KeepJob
    /\ UNCHANGED <<dbVars, brokerVars>> /\ KeepRest

\* _retry_order_after_reauthorization: the market closes; or the token is
\* confirmed and an entry no longer passes the margin check; or the same order
\* is placed again and accepted, or refused again (which writes nothing).
RelockExpires ==
    /\ pc = "relock"
    /\ status' = [l \in Leg |-> "Cancelled"]
    /\ GiveUp("Error")
    /\ UNCHANGED <<orderId, retryCount, brokerVars>> /\ KeepRest

RelockRefuses ==
    /\ pc = "relock" /\ cur = Entry
    /\ down \/ "refuse" \in Faults
    /\ status' = WithStatus(orderId[cur], "Error")
    /\ GiveUp("Error")
    /\ UNCHANGED <<orderId, retryCount, brokerVars>> /\ KeepRest

Replace ==
    /\ pc = "relock" /\ ~down
    /\ broker' = [broker EXCEPT ![orderId[cur]] =
                    IF Transmit THEN "working" ELSE "held"]
    /\ Goto("next") /\ KeepJob
    /\ UNCHANGED <<dbVars, leg, parent, heard>> /\ KeepRest

ReplaceRefused ==
    /\ pc = "relock" /\ ~down
    /\ broker' = [broker EXCEPT ![orderId[cur]] = "rejected"]
    /\ GiveUp("Error")
    /\ UNCHANGED <<dbVars, leg, parent, heard>> /\ KeepRest

Worker ==
    \/ Take \/ CheckPasses \/ CheckRefuses \/ CheckNeedsToken \/ Authorized
    \/ ReauthExpires \/ Abort \/ NextChild \/ GroupDone \/ AdjustKeeps
    \/ AdjustCancels \/ Assign \/ GuardPasses \/ GuardSkips \/ Send
    \/ SendRaises \/ Accepted \/ RejectionSeen \/ LockSeen \/ RelockExpires
    \/ RelockRefuses \/ Replace \/ ReplaceRefused

----------------------------------------------------------------------------
(* TWS.  Events sent while the session is down are lost.                   *)

Announce(S, s) ==
    statusQ' = [j \in Id |-> IF j \in S /\ ~down THEN Append(statusQ[j], s)
                             ELSE statusQ[j]]
RaiseError(S, k) ==
    tasks' = IF down THEN tasks ELSE tasks \cup {MkTask(k, j) : j \in S}

\* Orders attached to i that go down with it.
Attached(i) == {j \in Id : parent[j] = i /\ IsLive(j)}

KeepProgram == UNCHANGED <<dbVars, queueVars, workerVars, notified, recVars, sessVars>>

\* A working order is reported, each way at most once.
Report(i) ==
    /\ broker[i] = "working"
    /\ \E s \in {"PreSubmitted", "Submitted"} \cup
                (IF /\ "inactive" \in Faults /\ parent[i] # 0
                    /\ \A p \in Id : p = parent[i] => broker[p] # "filled"
                 THEN {"Inactive"} ELSE {}) :
        /\ s \notin heard[i]
        /\ heard' = [heard EXCEPT ![i] = @ \cup {s}]
        /\ Announce({i}, s)
    /\ UNCHANGED <<broker, leg, parent, tasks>> /\ KeepProgram

\* A fill; the exits of a group are one OCA group (_configure_oca_group).
Fill(i) ==
    /\ broker[i] = "working"
    /\ \A p \in Id : p = parent[i] => broker[p] = "filled"
    /\ LET others == IF leg[i] = Entry THEN {}
                     ELSE {j \in Id \ {i} : leg[j] \in Child /\ IsLive(j)}
       IN /\ broker' = [j \in Id |-> IF j = i THEN "filled"
                                     ELSE IF j \in others THEN "cancelled"
                                     ELSE broker[j]]
          /\ statusQ' = [j \in Id |->
                IF down THEN statusQ[j]
                ELSE IF j = i THEN Append(statusQ[j], "Filled")
                ELSE IF j \in others THEN Append(statusQ[j], "Cancelled")
                ELSE statusQ[j]]
    /\ UNCHANGED <<leg, parent, heard, tasks>> /\ KeepProgram

\* A cancellation: a status event, and code 202 for every order it takes down.
Cancel(i) ==
    /\ "cancel" \in Faults /\ IsLive(i)
    /\ LET gone == {i} \cup Attached(i) IN
       /\ broker' = [j \in Id |-> IF j \in gone THEN "cancelled" ELSE broker[j]]
       /\ Announce(gone, "Cancelled")
       /\ RaiseError(gone, "cancel")
    /\ UNCHANGED <<leg, parent, heard>> /\ KeepProgram

\* A refusal of an order TWS has not acknowledged.
Refuse(i) ==
    /\ IsLive(i) /\ heard[i] = {}
    /\ \E why \in {w \in Refused :
                     \/ w = "rejected" /\ "reject" \in Faults
                     \/ w = "bounced"  /\ "bounce" \in Faults
                     \/ w = "locked"   /\ "lock"   \in Faults} :
        /\ broker' = [j \in Id |-> IF j = i THEN why
                                   ELSE IF j \in Attached(i) THEN "cancelled"
                                   ELSE broker[j]]
        /\ RaiseError({i}, IF why = "bounced" THEN "retriable" ELSE "fatal")
    /\ statusQ' = [j \in Id |->
            IF down THEN statusQ[j]
            ELSE IF j = i THEN Append(statusQ[j], "Inactive")
            ELSE IF j \in Attached(i) THEN Append(statusQ[j], "Cancelled")
            ELSE statusQ[j]]
    /\ UNCHANGED <<leg, parent, heard>> /\ KeepProgram

\* Code 10148: the cancel request of the position reconciliation for an exit
\* order (recovery.py:825) has met an order that is already finished.
CancelRace(i) ==
    /\ "cancelRace" \in Faults /\ ~down
    /\ leg[i] \in Child
    /\ broker[i] \in {"filled", "cancelled"} /\ "10148" \notin heard[i]
    /\ heard' = [heard EXCEPT ![i] = @ \cup {"10148"}]
    /\ RaiseError({i}, "retriable")
    /\ UNCHANGED <<broker, leg, parent, statusQ>> /\ KeepProgram

Broker == \E i \in Id : Report(i) \/ Fill(i) \/ Cancel(i) \/ Refuse(i) \/ CancelRace(i)

----------------------------------------------------------------------------
(* The callback tasks (callbacks.py) and the retry handler (retry.py).     *)

KeepElse == UNCHANGED <<orderId, brokerVars, workerVars, recVars, sessVars>>

\* Mutant: the rows are found by trade group instead of order id.
BookedGroup(i) == IF \E l \in Leg : orderId[l] = i THEN Leg ELSE {}

Booked(i) == {l \in Leg : orderId[l] = i}

\* _process_status_change of the oldest event of order i.
ProcessStatus(i) ==
    /\ statusQ[i] # <<>>
    /\ LET new == MapTwsStatus(Head(statusQ[i]), FALSE)
           hit == {l \in Booked(i) : ValidTransition(status[l], new, FALSE)}
       IN /\ status' = [l \in Leg |-> IF l \in hit THEN new ELSE status[l]]
          /\ notified' = IF hit = {} THEN notified
                         ELSE CASE new = "Filled"    -> notified \ {i}
                                [] new = "Cancelled" -> notified \cup {i}
                                [] OTHER             -> notified
    /\ statusQ' = [statusQ EXCEPT ![i] = Tail(@)]
    /\ UNCHANGED <<retryCount, queueVars, tasks>> /\ KeepElse

\* _fail_order_in_db
FailOrder(t) ==
    /\ t \in tasks /\ t.kind = "fatal"
    /\ status' = WithStatus(t.id, "Error")
    /\ tasks' = tasks \ {t}
    /\ UNCHANGED <<retryCount, queueVars, statusQ, notified>> /\ KeepElse

\* _cancel_order_in_db
CancelOrder(t) ==
    /\ t \in tasks /\ t.kind = "cancel"
    /\ status' = [l \in Leg |->
          IF l \in Booked(t.id) /\ t.id \notin notified /\ status[l] \notin Terminal
          THEN "Cancelled" ELSE status[l]]
    /\ notified' = notified \cup {t.id}
    /\ tasks' = tasks \ {t}
    /\ UNCHANGED <<retryCount, queueVars, statusQ>> /\ KeepElse

\* handle_retriable_error up to and including _fetch_order_retry_info
RetryRead(t) ==
    /\ t \in tasks /\ t.kind = "retriable"
    /\ tasks' = (tasks \ {t}) \cup
          {[kind |-> "retryWrite", id |-> t.id, n |-> retryCount[l]] : l \in Booked(t.id)}
    /\ UNCHANGED <<status, retryCount, queueVars, statusQ, notified>> /\ KeepElse

\* Mutants: the row gets its temporary id back; the group is not queued again.
RetryWriteTempId(t) ==
    /\ t \in tasks /\ t.kind = "retryWrite"
    /\ status' = WithStatus(t.id, IF t.n < MaxRetries THEN "Created" ELSE "Error")
    /\ retryCount' = [l \in Leg |-> IF l \in Booked(t.id) THEN t.n + 1
                                    ELSE retryCount[l]]
    /\ orderId' = [l \in Leg |-> IF l \in Booked(t.id) THEN TempId[l] ELSE orderId[l]]
    /\ backoff' = IF t.n < MaxRetries THEN backoff + 1 ELSE backoff
    /\ tasks' = tasks \ {t}
    /\ UNCHANGED <<queue, statusQ, notified, brokerVars, workerVars, recVars, sessVars>>
RetryWriteOnly(t) ==
    /\ t \in tasks /\ t.kind = "retryWrite"
    /\ status' = WithStatus(t.id, IF t.n < MaxRetries THEN "Created" ELSE "Error")
    /\ retryCount' = [l \in Leg |-> IF l \in Booked(t.id) THEN t.n + 1
                                    ELSE retryCount[l]]
    /\ tasks' = tasks \ {t}
    /\ UNCHANGED <<queueVars, statusQ, notified>> /\ KeepElse

\* _process_retry_backoff up to its sleep, _process_retry_limit_exceeded
RetryWrite(t) ==
    /\ t \in tasks /\ t.kind = "retryWrite"
    /\ IF t.n < MaxRetries
       THEN /\ status' = WithStatus(t.id, "Created")
            /\ retryCount' = [l \in Leg |-> IF l \in Booked(t.id) THEN t.n + 1
                                            ELSE retryCount[l]]
            /\ backoff' = backoff + 1
       ELSE /\ status' = WithStatus(t.id, "Error")
            /\ UNCHANGED <<retryCount, backoff>>
    /\ tasks' = tasks \ {t}
    /\ UNCHANGED <<queue, statusQ, notified>> /\ KeepElse

\* The sleep of _process_retry_backoff is over.
Requeue ==
    /\ backoff > 0
    /\ backoff' = backoff - 1 /\ queue' = queue + 1
    /\ UNCHANGED <<status, retryCount, taskVars>> /\ KeepElse

Tasks ==
    \/ \E i \in Id : ProcessStatus(i)
    \/ \E t \in tasks : \/ FailOrder(t) \/ CancelOrder(t)
                        \/ RetryRead(t) \/ RetryWrite(t)
    \/ Requeue

----------------------------------------------------------------------------
(* run_recovery (recovery.py), after a restart or a reconnection and, with *)
(* order_status_sync_loop, periodically beside the worker.                 *)

KeepOthers == UNCHANGED <<brokerVars, workerVars, taskVars, backoff, outages>>

\* The snapshot of openTrades() and trades() after the two requests; a request
\* that times out in a new session leaves it empty.
RecoveryStart ==
    /\ rpc = "off"
    /\ IF down THEN UNCHANGED recoveries
       ELSE recoveries < MaxRecoveries /\ recoveries' = recoveries + 1
    /\ \E all \in {TRUE} \cup (IF down /\ "timeout" \in Faults THEN {FALSE} ELSE {}) :
        /\ rActive' = {i \in Id : all /\ IsLive(i)}
        /\ rFilled' = {i \in Id : all /\ broker[i] = "filled"}
    /\ rpc' = "load" /\ down' = FALSE
    /\ UNCHANGED <<dbVars, queue, rSnap, rId, rTodo, rQueue>> /\ KeepOthers

\* _load_local_pending_orders
RecoveryLoad ==
    /\ rpc = "load"
    /\ rSnap' = status /\ rId' = orderId
    /\ rTodo' = {l \in Leg : status[l] \in Pending}
    /\ rQueue' = FALSE
    /\ rpc' = "work"
    /\ UNCHANGED <<dbVars, queue, rActive, rFilled, recoveries, down>> /\ KeepOthers

\* What _reconcile_orders writes into the row of loaded leg l; {} if nothing.
ActiveAs(i) == {"Submitted"} \cup ({"PreSubmitted"} \cap heard[i])

EntryFilledIndirectly(l) ==
    /\ l = Entry
    /\ \/ \E c \in Child : rSnap[c] \in Pending /\ rId[c] \in rActive
       \/ TRUE \in SeenPosition

GhostIsPossible(l) ==
    ~ (l = Entry /\ \E c \in Child : rSnap[c] \in Pending /\ rId[c] \in rActive)
    /\ (l = Entry => FALSE \in SeenPosition)

\* Mutant: an order TWS does not know is sent again instead of cancelled.
VerdictsResending(l) ==
    IF rId[l] < 0 THEN {}
    ELSE IF rId[l] \in rActive THEN ActiveAs(rId[l])
    ELSE IF rSnap[l] = "Created" THEN {}
    ELSE IF rId[l] \in rFilled THEN {"Filled"}
    ELSE IF EntryFilledIndirectly(l) THEN {"Filled"} ELSE {"Created"}

Verdicts(l) ==
    IF rId[l] < 0 THEN {}
    ELSE IF rId[l] \in rActive THEN ActiveAs(rId[l])
    ELSE IF rSnap[l] = "Created" THEN {}
    ELSE IF rId[l] \in rFilled THEN {"Filled"}
    ELSE (IF EntryFilledIndirectly(l) THEN {"Filled"} ELSE {})
         \cup (IF GhostIsPossible(l) THEN {"Cancelled"} ELSE {})

\* A verdict is written over whatever the row says now, unless it only repeats
\* what was loaded (perm_id unchanged).  Rows nobody knows are queued again.
RecoverRow(l) ==
    /\ rpc = "work" /\ l \in rTodo /\ Verdicts(l) # {}
    /\ \E s \in Verdicts(l) :
          status' \in {WithStatus(rId[l], s)} \cup
                      (IF rId[l] \in rActive /\ s = rSnap[l] THEN {status} ELSE {})
    /\ rTodo' = rTodo \ {l}
    /\ UNCHANGED <<orderId, retryCount, queue, rpc, rActive, rFilled, rSnap, rId,
                   rQueue, recoveries, down>> /\ KeepOthers

RequeueRow(l) ==
    /\ rpc = "work" /\ l \in rTodo /\ Verdicts(l) = {}
    /\ rTodo' = rTodo \ {l} /\ rQueue' = TRUE
    /\ UNCHANGED <<dbVars, queue, rpc, rActive, rFilled, rSnap, rId, recoveries,
                   down>> /\ KeepOthers

\* Mutant: the groups to queue again are forgotten.
RecoveryDoneSilently ==
    /\ rpc = "work" /\ rTodo = {}
    /\ rpc' = "off"
    /\ rActive' = {} /\ rFilled' = {} /\ rQueue' = FALSE
    /\ rSnap' = [l \in Leg |-> "Created"] /\ rId' = TempId
    /\ UNCHANGED <<dbVars, queue, rTodo, recoveries, down>> /\ KeepOthers

RecoveryDone ==
    /\ rpc = "work" /\ rTodo = {}
    /\ queue' = IF rQueue THEN queue + 1 ELSE queue
    /\ rpc' = "off"
    /\ rActive' = {} /\ rFilled' = {} /\ rQueue' = FALSE
    /\ rSnap' = [l \in Leg |-> "Created"] /\ rId' = TempId
    /\ UNCHANGED <<dbVars, rTodo, recoveries, down>> /\ KeepOthers

Recovery ==
    \/ RecoveryStart \/ RecoveryLoad \/ RecoveryDone
    \/ \E l \in Leg : RecoverRow(l) \/ RequeueRow(l)

----------------------------------------------------------------------------
(* Outages.                                                                *)

Disconnect ==
    /\ "disconnect" \in Faults /\ ~down /\ outages < MaxOutages
    /\ down' = TRUE /\ outages' = outages + 1
    /\ UNCHANGED <<dbVars, brokerVars, queueVars, workerVars, taskVars, recVars>>

\* Everything but the table is lost.
Crash ==
    /\ "crash" \in Faults /\ outages < MaxOutages
    /\ down' = TRUE /\ outages' = outages + 1
    /\ queue' = 0 /\ backoff' = 0
    /\ pc' = "idle" /\ cur' = Entry /\ todo' = {}
    /\ postFill' = FALSE /\ failAs' = "Error"
    /\ statusQ' = [i \in Id |-> <<>>] /\ tasks' = {} /\ notified' = {}
    /\ rpc' = "off" /\ rActive' = {} /\ rFilled' = {} /\ rTodo' = {}
    /\ rSnap' = [l \in Leg |-> "Created"] /\ rId' = TempId /\ rQueue' = FALSE
    /\ UNCHANGED <<dbVars, brokerVars, recoveries>>

Next == Worker \/ Broker \/ Tasks \/ Recovery \/ Disconnect \/ Crash

Spec == Init /\ [][Next]_vars

\* The program's own coroutines are scheduled fairly: the event loop runs every
\* ready task, the worker's waits are bounded, and a lost session is followed by
\* a reconnection and a recovery run.  TWS, faults and outages are not.
FairSpec ==
    /\ Spec
    /\ WF_vars(Worker)
    /\ \A i \in Id : WF_vars(ProcessStatus(i))
    /\ WF_vars(\E t \in tasks : FailOrder(t) \/ CancelOrder(t)
                                \/ RetryRead(t) \/ RetryWrite(t))
    /\ WF_vars(Requeue)
    /\ WF_vars(RecoveryLoad \/ RecoveryDone
               \/ \E l \in Leg : RecoverRow(l) \/ RequeueRow(l))
    /\ WF_vars(down /\ RecoveryStart)

----------------------------------------------------------------------------
(* Properties.                                                             *)

\* The row of a leg names the leg's live order: whatever the worker, the retry
\* handler and recovery do to the ids (_assign_order_id_in_db, retries, crashes),
\* no order at TWS is orphaned, so a leg never has two live orders either.
LiveOrdersBooked ==
    \A i \in Id : IsLive(i) => orderId[leg[i]] = i

\* A leg that still has its temporary id was never sent (recovery.py re-queues
\* such legs on that ground), and an id is never used for a second order.
TempIdNeverSent ==
    \A i \in Id : broker[i] # "none" => i <= orderId[leg[i]]

\* No leg is filled twice: neither a retry nor a recovery re-sends a leg whose
\* order was executed.
OneFillPerLeg ==
    \A i, j \in Id :
        /\ broker[i] = "filled" /\ broker[j] = "filled" /\ leg[i] = leg[j]
        => i = j

\* The entry becomes active at TWS only together with an attached exit: parents
\* go out with transmit = False and the last exit releases the bracket.
EntryHasExit ==
    \A i \in Id :
        leg[i] = Entry /\ broker[i] = "working"
        => \E j \in Id : leg[j] \in Child /\ parent[j] = i

\* Nothing of the program is running or waiting.
Quiet ==
    /\ pc = "idle" /\ queue = 0 /\ backoff = 0 /\ rpc = "off" /\ ~down
    /\ tasks = {} /\ \A i \in Id : statusQ[i] = <<>>

\* Once everything has been processed the table agrees with TWS about every order
\* that was sent: _process_status_change, the error tasks, the worker and the
\* retry handler may write the row in any order.
BookAgrees ==
    Quiet => \A l \in Leg : orderId[l] \in Id =>
        LET b == broker[orderId[l]] IN
        /\ b = "filled" <=> status[l] = "Filled"
        /\ IsLive(orderId[l]) => status[l] \in {"Submitted", "PreSubmitted"}
        /\ b \in {"cancelled"} \cup Refused => status[l] \in {"Cancelled", "Error"}

\* Once everything has been processed no bracket is left untransmitted.
BracketReleased ==
    Quiet => \A i \in Id : broker[i] # "held"

\* A row that says Cancelled has no live order at TWS.
CancelledIsDead ==
    \A l \in Leg : status[l] = "Cancelled" /\ orderId[l] \in Id
                   => ~IsLive(orderId[l])

\* A row that says Filled stays Filled: the exit's settlement rests on it.
FilledIsFinal ==
    [][\A l \in Leg : status[l] = "Filled" => status'[l] = "Filled"]_vars

\* A row never leaves a terminal state (callbacks.py:302, about every status
\* update the callbacks make).
TerminalIsFinal ==
    [][\A l \in Leg : status[l] \in Terminal => status'[l] = status[l]]_vars

\* A leg that is cancelled before it is sent is not sent afterwards.
CancelledIsNotSent ==
    [][\A l \in Leg : status[l] = "Cancelled" /\ orderId[l] < 0
                       => orderId'[l] = orderId[l]]_vars

\* Every imported leg is dealt with, through retries, crashes and lost sessions.
CreatedIsHandled ==
    \A l \in Leg : status[l] = "Created" ~> status[l] # "Created"

----------------------------------------------------------------------------
(* The inductive invariant behind LiveOrdersBooked and TempIdNeverSent.    *)

\* Orders that are active or may become active again.
Open == Live \cup {"locked"}

\* Legs the worker may give a new order id to, in its present job or a later one.
MayAssign(l) ==
    \/ status[l] = "Created"
    \/ l \in todo
    \/ l = cur /\ pc \in {"check", "reauth", "adjust", "assign"}

\* An order that may still be filled is the one its leg's row names.
OpenOrdersBooked == \A i \in Id : broker[i] \in Open => orderId[leg[i]] = i

\* order_id is the primary key.
IdsDistinct == \A l, m \in Leg : orderId[l] = orderId[m] => l = m

\* A leg is given a new id only when none of its orders is open.
ReassignedIsClosed ==
    \A i \in Id : MayAssign(leg[i]) => broker[i] \notin Open

\* From the assignment to placeOrder the new id is unused and the row not Created.
FreshBeforeSend ==
    pc \in {"guard", "send"} =>
        /\ orderId[cur] \in Id /\ broker[orderId[cur]] = "none"
        /\ \A i \in Id : leg[i] = cur => broker[i] \notin Open
        /\ \A l \in Leg \ {cur} : orderId[l] < orderId[cur]
        /\ status[cur] # "Created"

\* The worker waits for a token only on an order TWS refused for it.
LockedInRelock ==
    pc = "relock" => orderId[cur] \in Id /\ broker[orderId[cur]] = "locked"
PlacedInVerify ==
    pc = "verify" => orderId[cur] \in Id

\* The retry handler only acts on orders that are over.
RetriedIsOver ==
    \A t \in tasks : t.kind \in {"retriable", "retryWrite"} => broker[t.id] \in Dead

\* The worker's place fits the leg in hand.
JobShape ==
    /\ cur \notin todo
    /\ pc \in {"check", "reauth"} => cur = Entry

\* The inductive invariant: together they survive every step.
IndInv ==
    /\ TypeOK
    /\ OpenOrdersBooked /\ TempIdNeverSent /\ IdsDistinct
    /\ ReassignedIsClosed /\ FreshBeforeSend /\ LockedInRelock /\ PlacedInVerify
    /\ RetriedIsOver /\ JobShape

\* Once a leg is filled it is not sent again: its row keeps naming the filled
\* order and is never among those to be sent.
FilledNotResent ==
    \A i \in Id : broker[i] = "filled" =>
        orderId[leg[i]] = i /\ ~MayAssign(leg[i])

\* The retry handler only acts on orders TWS refused.
RetriedIsBounced ==
    \A t \in tasks : t.kind \in {"retriable", "retryWrite"} => broker[t.id] = "bounced"

----------------------------------------------------------------------------
(* The abstract specification.                                             *)

OpenOrders(l) == {i \in Id : leg[i] = l /\ broker[i] \in Open}

Book == INSTANCE OrderBook WITH
            open <- [l \in Leg |-> OpenOrders(l)],
            used <- {i \in Id : broker[i] # "none"}

\* The orders of the group at TWS behave as OrderBook promises: per leg one open
\* order at a time, ids only ever growing (_get_next_non_colliding_order_id).
ImplementsOrderBook == Book!Spec
==============================================================================
