-------------------------- MODULE CallbackGateway --------------------------
(***************************************************************************)
(* The Gateway's side of a WeCom callback: the durable inbound receipts    *)
(* (inbound_receipts.py), the queue, the poller and the dispatch tasks of  *)
(* callback_adapter.py, the maintenance drain gate (maintenance_drain.py)  *)
(* and the controller that waits for it (xiaoyou_wecom_callback_drain.py). *)
(*                                                                         *)
(* A message stands for one receipt key.  claimed_at is abstracted to one  *)
(* bit: whether the claim is at least 15 minutes old.  The queue is a      *)
(* multiset: how many entries of each message wait.                        *)
(***************************************************************************)
EXTENDS Integers, FiniteSets

CONSTANTS
    Msgs,               \* receipt keys
    NoMsg,              \* nothing at the poller
    MaxAttempts,        \* _MAX_DELIVERY_ATTEMPTS
    MaxClaims,          \* bound on accepted deliveries of one message
    MaxFaults,          \* bound on SQLite errors
    ClaimsStayFresh,    \* no claim turns stale while its message is queued or run
    StableCoversGate,   \* stable_seconds outlasts the poller's gate-to-mark step
    MayReconnect        \* whether the adapter is ever disconnected and reconnected

ASSUME GatewayConstants ==
    /\ NoMsg \notin Msgs
    /\ MaxAttempts \in Nat \ {0}
    /\ MaxClaims \in Nat \ {0}
    /\ MaxFaults \in Nat
    /\ ClaimsStayFresh \in BOOLEAN
    /\ StableCoversGate \in BOOLEAN
    /\ MayReconnect \in BOOLEAN

VARIABLES
    status,      \* inbound_receipts.status, "none" without a row
    attempts,    \* attempt_count
    processing,  \* rows with reply_status 'processing'
    stale,       \* rows whose claim is at least 15 minutes old
    foreign,     \* rows whose owner_id is another process
    waiting,     \* entries of the queue per message
    gate,        \* the message the poller holds at the drain gate
    passed,      \* the poller has seen the gate open, has not marked yet
    turns,       \* dispatch tasks running per message
    polling,     \* the poll loop is alive
    connected,   \* the HTTP intake is open
    up,          \* the process runs
    drain,       \* the drain file is present
    ctl,         \* the maintenance controller
    claims,      \* accepted deliveries per message (history)
    started,     \* turns started per message (history)
    faults       \* SQLite errors so far

receipts   == <<status, attempts, processing, stale, foreign>>
poller     == <<gate, passed>>
tasks      == <<waiting, turns>>
process    == <<polling, connected, up>>
controller == <<drain, ctl>>
history    == <<claims, started>>
vars == <<status, attempts, processing, stale, foreign, waiting, gate, passed,
          turns, polling, connected, up, drain, ctl, claims, started, faults>>

Statuses == {"none", "claimed", "processed", "failed"}

TypeOK ==
    /\ status \in [Msgs -> Statuses]
    /\ attempts \in [Msgs -> Nat]
    /\ processing \in SUBSET Msgs
    /\ stale \in SUBSET Msgs
    /\ foreign \in SUBSET Msgs
    /\ waiting \in [Msgs -> Nat]
    /\ gate \in Msgs \cup {NoMsg}
    /\ passed \in BOOLEAN
    /\ turns \in [Msgs -> Nat]
    /\ polling \in BOOLEAN
    /\ connected \in BOOLEAN
    /\ up \in BOOLEAN
    /\ drain \in BOOLEAN
    /\ ctl \in {"idle", "waiting", "quiesced"}
    /\ claims \in [Msgs -> Nat]
    /\ started \in [Msgs -> Nat]
    /\ faults \in 0..MaxFaults

Init ==
    /\ status = [m \in Msgs |-> "none"]
    /\ attempts = [m \in Msgs |-> 0]
    /\ processing = {}
    /\ stale = {}
    /\ foreign = {}
    /\ waiting = [m \in Msgs |-> 0]
    /\ gate = NoMsg
    /\ passed = FALSE
    /\ turns = [m \in Msgs |-> 0]
    /\ polling = TRUE
    /\ connected = TRUE
    /\ up = TRUE
    /\ drain = FALSE
    /\ ctl = "idle"
    /\ claims = [m \in Msgs |-> 0]
    /\ started = [m \in Msgs |-> 0]
    /\ faults = 0

-----------------------------------------------------------------------------
Queued(m) == waiting[m] + (IF gate = m THEN 1 ELSE 0)
Copies(m) == Queued(m) + turns[m]

Fault == faults < MaxFaults /\ faults' = faults + 1

-----------------------------------------------------------------------------
(* WecomInboundReceiptStore.                                               *)

\* claim accepts a new message, a failed one, or one whose claim is stale.
ClaimableIfOpen(m) == status[m] # "processed"                   \* seeded fault
Claimable(m) ==
    \/ status[m] \in {"none", "failed"}
    \/ status[m] = "claimed" /\ m \in stale

Claim(m) ==
    /\ status' = [status EXCEPT ![m] = "claimed"]
    /\ attempts' = [attempts EXCEPT ![m] = @ + 1]
    /\ processing' = processing \ {m}
    /\ stale' = stale \ {m}
    /\ foreign' = foreign \ {m}

\* The SELECT of recover_pending: rows of a set of owners, attempts left.
RecoverableAlways(rows) ==                                      \* seeded fault
    {m \in rows : status[m] \in {"claimed", "failed"}}
RecoverableFailed(rows) ==                                      \* seeded fault
    {m \in rows : status[m] = "failed" /\ attempts[m] < MaxAttempts}
Recoverable(rows) ==
    {m \in rows : status[m] \in {"claimed", "failed"} /\ attempts[m] < MaxAttempts}

\* mark_processed and mark_failed act on a claimed row only.
Finalize(m, outcome) ==
    /\ status' = IF status[m] = "claimed"
                   THEN [status EXCEPT ![m] = outcome]
                   ELSE status
    /\ processing' = IF status[m] = "claimed" THEN processing \ {m} ELSE processing
    /\ stale' = IF status[m] = "claimed" THEN stale \ {m} ELSE stale
    /\ UNCHANGED <<attempts, foreign>>

-----------------------------------------------------------------------------
(* _handle_callback.  A delivery that is not accepted is answered 200 and  *)
(* changes nothing.                                                        *)

HandleCallbackUnclaimed(m) ==                                   \* seeded fault
    /\ connected
    /\ claims[m] < MaxClaims
    /\ waiting' = [waiting EXCEPT ![m] = @ + 1]
    /\ claims' = [claims EXCEPT ![m] = @ + 1]
    /\ UNCHANGED <<receipts, poller, turns, process, controller, started, faults>>
HandleCallback(m) ==
    /\ connected
    /\ claims[m] < MaxClaims
    /\ Claimable(m)
    /\ Claim(m)
    /\ waiting' = [waiting EXCEPT ![m] = @ + 1]
    /\ claims' = [claims EXCEPT ![m] = @ + 1]
    /\ UNCHANGED <<poller, turns, process, controller, started, faults>>

\* A claim that raises is answered 400.
HandleCallbackFault(m) ==
    /\ connected
    /\ Fault
    /\ UNCHANGED <<receipts, tasks, poller, process, controller, history>>

-----------------------------------------------------------------------------
(* _poll_loop and _dispatch_claimed_message.                               *)

PollTake(m) ==
    /\ polling /\ gate = NoMsg
    /\ waiting[m] > 0
    /\ waiting' = [waiting EXCEPT ![m] = @ - 1]
    /\ gate' = m
    /\ UNCHANGED <<receipts, passed, turns, process, controller, history, faults>>

\* wait_until_open.  The file is another process's: it may appear again
\* before the next step.
WaitUntilOpen ==
    /\ gate # NoMsg /\ ~passed
    /\ ~drain
    /\ passed' = TRUE
    /\ UNCHANGED <<receipts, tasks, gate, process, controller, history, faults>>

LeaveGate ==
    /\ gate' = NoMsg
    /\ passed' = FALSE

DispatchUnmarked(m) ==                                          \* seeded fault
    /\ passed /\ gate = m
    /\ status[m] = "claimed"
    /\ turns' = [turns EXCEPT ![m] = @ + 1]
    /\ started' = [started EXCEPT ![m] = @ + 1]
    /\ LeaveGate
    /\ UNCHANGED <<receipts, waiting, process, controller, claims, faults>>
\* mark_processing, then create_task.
Dispatch(m) ==
    /\ passed /\ gate = m
    /\ status[m] = "claimed"
    /\ processing' = processing \cup {m}
    /\ turns' = [turns EXCEPT ![m] = @ + 1]
    /\ started' = [started EXCEPT ![m] = @ + 1]
    /\ LeaveGate
    /\ UNCHANGED <<status, attempts, stale, foreign, waiting, process,
                   controller, claims, faults>>

DispatchLost(m) ==                                              \* seeded fault
    /\ passed /\ gate = m
    /\ turns' = [turns EXCEPT ![m] = @ + 1]
    /\ started' = [started EXCEPT ![m] = @ + 1]
    /\ LeaveGate
    /\ UNCHANGED <<receipts, waiting, process, controller, claims, faults>>
\* "Refusing to dispatch receipt with lost claim".
RefuseLostClaim(m) ==
    /\ passed /\ gate = m
    /\ status[m] # "claimed"
    /\ LeaveGate
    /\ UNCHANGED <<receipts, tasks, process, controller, history, faults>>

\* mark_processing raises and mark_failed records it.
DispatchFault(m) ==
    /\ passed /\ gate = m
    /\ Fault
    /\ Finalize(m, "failed")
    /\ LeaveGate
    /\ UNCHANGED <<tasks, process, controller, history>>

\* mark_processing and then mark_failed raise: the exception ends the loop.
PollLoopDies(m) ==
    /\ passed /\ gate = m
    /\ faults + 1 < MaxFaults /\ faults' = faults + 2
    /\ polling' = FALSE
    /\ LeaveGate
    /\ UNCHANGED <<receipts, tasks, connected, up, controller, history>>

\* handle_message returns, or raises (a cancelled turn included).
EndTurn(m, outcome) ==
    /\ turns[m] > 0
    /\ turns' = [turns EXCEPT ![m] = @ - 1]
    /\ Finalize(m, outcome)
    /\ UNCHANGED <<waiting, poller, process, controller, history, faults>>

\* The final receipt write raises: the task ends, the row stays.
EndTurnFault(m) ==
    /\ turns[m] > 0
    /\ turns' = [turns EXCEPT ![m] = @ - 1]
    /\ Fault
    /\ UNCHANGED <<receipts, waiting, poller, process, controller, history>>

-----------------------------------------------------------------------------
(* connect, disconnect, crashes.                                           *)

\* recover_pending, then _recover_inbound_messages: a row whose app is gone or
\* whose payload does not parse is marked failed, the others are queued.
\* reply_status and processing_at keep their values.  The branch for an event
\* of None is dead: only payloads that gave an event are stored.  The rows of
\* left are not reached: an SQLite error of a mark_failed ends the loop.
Recover(rows, base, left) ==
    LET rec == Recoverable(rows)
    IN  \E broken \in SUBSET (rec \ left) :
          /\ status' = [m \in Msgs |->
                IF m \in broken THEN "failed"
                ELSE IF m \in rec THEN "claimed" ELSE status[m]]
          /\ attempts' = [m \in Msgs |->
                IF m \in rec THEN attempts[m] + 1 ELSE attempts[m]]
          /\ processing' = processing \ broken
          /\ stale' = stale \ rec
          /\ waiting' = [m \in Msgs |->
                IF m \in rec \ (broken \cup left) THEN base[m] + 1 ELSE base[m]]

\* disconnect: the poll task is cancelled, wherever it stands; the queue and
\* the dispatch tasks stay.
Disconnect ==
    /\ MayReconnect
    /\ connected
    /\ connected' = FALSE
    /\ polling' = FALSE
    /\ LeaveGate
    /\ UNCHANGED <<receipts, tasks, up, controller, history, faults>>

ReconnectForeignOnly ==                                         \* seeded fault
    /\ up /\ ~connected
    /\ connected' = TRUE
    /\ polling' = TRUE
    /\ Recover(foreign, waiting, {})
    /\ foreign' = foreign \ Recoverable(foreign)
    /\ UNCHANGED <<poller, turns, up, controller, history, faults>>
\* connect(is_reconnect=True) recovers the rows of its own process too.
Reconnect ==
    /\ up /\ ~connected
    /\ connected' = TRUE
    /\ polling' = TRUE
    /\ Recover(Msgs, waiting, {})
    /\ foreign' = foreign \ Recoverable(Msgs)
    /\ UNCHANGED <<poller, turns, up, controller, history, faults>>

Crash ==
    /\ up
    /\ up' = FALSE
    /\ connected' = FALSE
    /\ polling' = FALSE
    /\ LeaveGate
    /\ waiting' = [m \in Msgs |-> 0]
    /\ turns' = [m \in Msgs |-> 0]
    /\ UNCHANGED <<receipts, controller, history, faults>>

\* A new process has a new owner_id: every row is another process's.
Restart ==
    /\ ~up
    /\ up' = TRUE
    /\ connected' = TRUE
    /\ polling' = TRUE
    /\ Recover(Msgs, waiting, {})
    /\ foreign' = {m \in Msgs : status[m] # "none"} \ Recoverable(Msgs)
    /\ UNCHANGED <<poller, turns, controller, history, faults>>

\* connect raises in its recovery: recover_pending is rolled back, or it is
\* committed and some rows are not queued.  The intake is closed again and the
\* poll loop goes on; the loops of several failed attempts count as one.  The
\* next attempt is a Reconnect.
ConnectFails ==
    /\ MayReconnect /\ ~connected
    /\ Fault
    /\ up' = TRUE
    /\ polling' = TRUE
    /\ LET others == IF up THEN foreign ELSE {m \in Msgs : status[m] # "none"}
       IN  \/ /\ foreign' = others
              /\ UNCHANGED <<status, attempts, processing, stale, waiting>>
           \/ \E left \in (SUBSET Recoverable(Msgs)) \ {{}} :
                 /\ Recover(Msgs, waiting, left)
                 /\ foreign' = others \ Recoverable(Msgs)
    /\ UNCHANGED <<poller, turns, connected, controller, history>>

\* Fifteen minutes pass for a claim.
GrowStale(m) ==
    /\ status[m] = "claimed"
    /\ m \notin stale
    /\ ClaimsStayFresh => Copies(m) = 0
    /\ stale' = stale \cup {m}
    /\ UNCHANGED <<status, attempts, processing, foreign, tasks, poller, process,
                   controller, history, faults>>

-----------------------------------------------------------------------------
(* The maintenance controller: enter, wait, resume.                        *)

EnterDrain ==
    /\ ~drain
    /\ drain' = TRUE
    /\ ctl' = "waiting"
    /\ UNCHANGED <<receipts, tasks, poller, process, history, faults>>

\* _wait_for_quiesced returns quiesced: the processing count was zero for
\* stable_seconds while the drain was active.
DeclareQuiesced ==
    /\ ctl = "waiting" /\ drain
    /\ processing = {}
    /\ StableCoversGate => ~passed
    /\ ctl' = "quiesced"
    /\ UNCHANGED <<receipts, tasks, poller, process, drain, history, faults>>

ResumeDrain ==
    /\ drain
    /\ drain' = FALSE
    /\ ctl' = "idle"
    /\ UNCHANGED <<receipts, tasks, poller, process, history, faults>>

-----------------------------------------------------------------------------
Intake == \E m \in Msgs : HandleCallback(m) \/ HandleCallbackFault(m)

Poll ==
    \/ \E m \in Msgs : \/ PollTake(m)
                       \/ Dispatch(m)
                       \/ RefuseLostClaim(m)
                       \/ DispatchFault(m)
                       \/ PollLoopDies(m)
    \/ WaitUntilOpen

Turn ==
    \E m \in Msgs : \/ EndTurn(m, "processed")
                    \/ EndTurn(m, "failed")
                    \/ EndTurnFault(m)

Lifecycle == Disconnect \/ Reconnect \/ Crash \/ Restart \/ ConnectFails

Maintenance == EnterDrain \/ DeclareQuiesced \/ ResumeDrain

Next ==
    \/ Intake
    \/ Poll
    \/ Turn
    \/ Lifecycle
    \/ Maintenance
    \/ \E m \in Msgs : GrowStale(m)

Spec == Init /\ [][Next]_vars

-----------------------------------------------------------------------------
(* Fairness.  The poll loop keeps running and its gate is re-read every    *)
(* 0.1 s; reliable_handler bounds a turn by 1770 s.                        *)

TurnEnds(m) == EndTurn(m, "processed") \/ EndTurn(m, "failed")

Fairness ==
    /\ WF_vars(WaitUntilOpen)
    /\ \A m \in Msgs :
         /\ SF_vars(PollTake(m))
         /\ WF_vars(Dispatch(m) \/ RefuseLostClaim(m))
         /\ WF_vars(TurnEnds(m))

FairSpec == Spec /\ Fairness

-----------------------------------------------------------------------------
(* Properties.                                                             *)

\* The conditions under which the receipt alone decides who works on a
\* message: no claim turns stale under its worker, no reconnect.
Calm == ClaimsStayFresh /\ ~MayReconnect

\* One worker per receipt: a claimed message waits in the queue, stands at the
\* drain gate or is run, and never two of these, across crashes, failed turns
\* and repeated deliveries.
OneCopy == Calm => \A m \in Msgs : Copies(m) <= 1

\* The controller's proof of quiescence: when it has declared the Gateway
\* quiesced, no model turn runs until it resumes, although intake, restarts
\* and recovery go on.
QuiescedIsIdle ==
    Calm /\ StableCoversGate /\ ctl = "quiesced" => \A m \in Msgs : turns[m] = 0

\* A claimed receipt with attempts left always has a worker: nothing that was
\* acknowledged to WeCom is forgotten while the Gateway is connected.
ClaimHasWorker ==
    connected /\ faults = 0 =>
        \A m \in Msgs :
            status[m] = "claimed" /\ attempts[m] < MaxAttempts => Copies(m) > 0

\* Every model turn of a message is paid for by an attempt, and automatic
\* recovery adds at most MaxAttempts - 1 of them: a message that kills the
\* process is run a bounded number of times per delivery.
TurnsAreBounded ==
    \A m \in Msgs :
        /\ started[m] + Queued(m) <= attempts[m]
        /\ attempts[m] < claims[m] + MaxAttempts

\* A processed message is never run again.
ProcessedIsFinal ==
    [][\A m \in Msgs :
         status[m] = "processed" => status'[m] = "processed" /\ started'[m] = started[m]]_vars

\* Once the process stays up and undrained, a claimed message is processed or
\* marked failed, unless crashes have used up its attempts or the receipt
\* store itself fails.
ClaimIsFinished ==
    <>[](up /\ connected /\ ~drain) /\ [](faults = 0) =>
        \A m \in Msgs :
            (status[m] = "claimed") ~>
                (status[m] \in {"processed", "failed"} \/ attempts[m] >= MaxAttempts)
=============================================================================
