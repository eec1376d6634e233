----------------------- MODULE CallbackGatewayProofs -----------------------
(***************************************************************************)
(* Safety of the Gateway's callback intake for every set of messages and   *)
(* every value of the bounds and switches.                                 *)
(***************************************************************************)
EXTENDS CallbackGateway, TLAPS

USE GatewayConstants DEF GatewayConstants

\* The empty receipt table of a first start is well typed.
LEMMA GatewayTypeInitially == Init => TypeOK
<1> SUFFICES ASSUME Init PROVE TypeOK
  OBVIOUS
<1> USE DEF Init, Statuses
<1>1. status \in [Msgs -> Statuses] /\ attempts \in [Msgs -> Nat]
  OBVIOUS
<1>2. waiting \in [Msgs -> Nat] /\ turns \in [Msgs -> Nat]
  OBVIOUS
<1>3. claims \in [Msgs -> Nat] /\ started \in [Msgs -> Nat]
  OBVIOUS
<1>4. faults \in 0..MaxFaults
  OBVIOUS
<1>5. QED
  BY <1>1, <1>2, <1>3, <1>4 DEF TypeOK

\* recover_pending keeps the receipts and the queue well typed.
LEMMA RecoverType ==
  ASSUME TypeOK, NEW left, Recover(Msgs, waiting, left)
  PROVE  /\ status' \in [Msgs -> Statuses]
         /\ attempts' \in [Msgs -> Nat]
         /\ processing' \in SUBSET Msgs
         /\ stale' \in SUBSET Msgs
         /\ waiting' \in [Msgs -> Nat]
<1> DEFINE rec == Recoverable(Msgs)
<1>1. PICK broken \in SUBSET (rec \ left) :
        /\ status' = [m \in Msgs |->
              IF m \in broken THEN "failed"
              ELSE IF m \in rec THEN "claimed" ELSE status[m]]
        /\ attempts' = [m \in Msgs |->
              IF m \in rec THEN attempts[m] + 1 ELSE attempts[m]]
        /\ processing' = processing \ broken
        /\ stale' = stale \ rec
        /\ waiting' = [m \in Msgs |->
              IF m \in rec \ (broken \cup left) THEN waiting[m] + 1 ELSE waiting[m]]
  BY DEF Recover
<1> HIDE DEF rec
<1> QED
  BY <1>1 DEF TypeOK, Statuses

\* What recover_pending does to one message: nothing, or one more attempt that
\* is queued, marked failed or, when the recovery breaks off, neither.
LEMMA RecoverEffect ==
  ASSUME TypeOK, NEW left, Recover(Msgs, waiting, left), NEW m \in Msgs
  PROVE  \/ /\ status'[m] = status[m]
            /\ attempts'[m] = attempts[m]
            /\ waiting'[m] = waiting[m]
            /\ m \in processing' <=> m \in processing
            /\ m \in stale' <=> m \in stale
            /\ status[m] \in {"claimed", "failed"} => attempts[m] >= MaxAttempts
         \/ /\ status[m] \in {"claimed", "failed"}
            /\ attempts[m] < MaxAttempts
            /\ attempts'[m] = attempts[m] + 1
            /\ m \notin stale'
            /\ \/ status'[m] = "claimed" /\ waiting'[m] = waiting[m] + 1
               \/ status'[m] = "failed" /\ waiting'[m] = waiting[m]
               \/ /\ m \in left /\ status'[m] = "claimed"
                  /\ waiting'[m] = waiting[m]
<1> DEFINE rec == Recoverable(Msgs)
<1>1. PICK broken \in SUBSET (rec \ left) :
        /\ status' = [x \in Msgs |->
              IF x \in broken THEN "failed"
              ELSE IF x \in rec THEN "claimed" ELSE status[x]]
        /\ attempts' = [x \in Msgs |->
              IF x \in rec THEN attempts[x] + 1 ELSE attempts[x]]
        /\ processing' = processing \ broken
        /\ stale' = stale \ rec
        /\ waiting' = [x \in Msgs |->
              IF x \in rec \ (broken \cup left) THEN waiting[x] + 1 ELSE waiting[x]]
  BY DEF Recover
<1>2. m \in rec <=> status[m] \in {"claimed", "failed"} /\ attempts[m] < MaxAttempts
  BY DEF Recoverable
<1>3. status[m] \in Statuses /\ attempts[m] \in Nat /\ MaxAttempts \in Nat
  BY DEF TypeOK
<1> HIDE DEF rec
<1>4. CASE m \in rec
  BY <1>1, <1>2, <1>4
<1>5. CASE m \notin rec
  BY <1>1, <1>2, <1>3, <1>5
<1> QED
  BY <1>4, <1>5

\* Intake, poll loop, turns, lifecycle and drain controller keep the types.
LEMMA GatewayTypeStep == TypeOK /\ [Next]_vars => TypeOK'
<1> SUFFICES ASSUME TypeOK, [Next]_vars PROVE TypeOK'
  OBVIOUS
<1> USE DEF TypeOK, Statuses, Fault, receipts, poller, tasks, process, controller,
            history
<1>1. CASE UNCHANGED vars
  BY <1>1 DEF vars
<1>2. ASSUME NEW m \in Msgs, HandleCallback(m)
      PROVE  TypeOK'
  BY <1>2 DEF HandleCallback, Claimable, Claim
<1>3. ASSUME NEW m \in Msgs, HandleCallbackFault(m)
      PROVE  TypeOK'
  BY <1>3 DEF HandleCallbackFault
<1>4. ASSUME NEW m \in Msgs, PollTake(m)
      PROVE  TypeOK'
  BY <1>4 DEF PollTake
<1>5. ASSUME NEW m \in Msgs, Dispatch(m)
      PROVE  TypeOK'
  <2>1. turns' \in [Msgs -> Nat] /\ started' \in [Msgs -> Nat]
    BY <1>5 DEF Dispatch
  <2>2. processing' \in SUBSET Msgs /\ gate' \in Msgs \cup {NoMsg} /\ passed' \in BOOLEAN
    BY <1>5 DEF Dispatch, LeaveGate
  <2>3. QED
    BY <1>5, <2>1, <2>2 DEF Dispatch
<1>6. ASSUME NEW m \in Msgs, RefuseLostClaim(m)
      PROVE  TypeOK'
  BY <1>6 DEF RefuseLostClaim, LeaveGate
<1>7. ASSUME NEW m \in Msgs, DispatchFault(m)
      PROVE  TypeOK'
  <2>1. status' \in [Msgs -> Statuses] /\ faults' \in 0..MaxFaults
    BY <1>7 DEF DispatchFault, Finalize
  <2>2. processing' \in SUBSET Msgs /\ stale' \in SUBSET Msgs
    BY <1>7 DEF DispatchFault, Finalize
  <2>3. gate' \in Msgs \cup {NoMsg} /\ passed' \in BOOLEAN
    BY <1>7 DEF DispatchFault, LeaveGate
  <2>4. QED
    BY <1>7, <2>1, <2>2, <2>3 DEF DispatchFault, Finalize
<1>8. ASSUME NEW m \in Msgs, PollLoopDies(m)
      PROVE  TypeOK'
  <2>1. faults' \in 0..MaxFaults
    BY <1>8 DEF PollLoopDies
  <2>2. gate' \in Msgs \cup {NoMsg} /\ passed' \in BOOLEAN
    BY <1>8 DEF PollLoopDies, LeaveGate
  <2>3. QED
    BY <1>8, <2>1, <2>2 DEF PollLoopDies
<1>9. CASE WaitUntilOpen
  BY <1>9 DEF WaitUntilOpen
<1>10. ASSUME NEW m \in Msgs, NEW outcome \in {"processed", "failed"},
             EndTurn(m, outcome)
      PROVE  TypeOK'
  BY <1>10 DEF EndTurn, Finalize
<1>11. ASSUME NEW m \in Msgs, EndTurnFault(m)
      PROVE  TypeOK'
  BY <1>11 DEF EndTurnFault
<1>12. CASE Disconnect
  BY <1>12 DEF Disconnect, LeaveGate
<1>13. CASE Reconnect
  BY <1>13, RecoverType DEF Reconnect
<1>14. CASE Crash
  BY <1>14 DEF Crash, LeaveGate
<1>15. CASE Restart
  BY <1>15, RecoverType DEF Restart
<1>16. CASE EnterDrain
  BY <1>16 DEF EnterDrain
<1>17. CASE DeclareQuiesced
  BY <1>17 DEF DeclareQuiesced
<1>18. CASE ResumeDrain
  BY <1>18 DEF ResumeDrain
<1>19. ASSUME NEW m \in Msgs, GrowStale(m)
      PROVE  TypeOK'
  BY <1>19 DEF GrowStale
<1>20. CASE ConnectFails
  <2>1. CASE UNCHANGED <<status, attempts, processing, stale, waiting>>
    BY <1>20, <2>1 DEF ConnectFails
  <2>2. CASE \E left : Recover(Msgs, waiting, left)
    BY <1>20, <2>2, RecoverType DEF ConnectFails
  <2>3. QED
    BY <1>20, <2>1, <2>2 DEF ConnectFails
<1> QED
  BY <1>1, <1>2, <1>3, <1>4, <1>5, <1>6, <1>7, <1>8, <1>9, <1>10, <1>11, <1>12,
     <1>13, <1>14, <1>15, <1>16, <1>17, <1>18, <1>19, <1>20
  DEF Next, Intake, Poll, Turn, Lifecycle, Maintenance

\* The types of the Gateway's receipts, queue and tasks.
THEOREM GatewayTypeCorrect == Spec => []TypeOK
  BY GatewayTypeInitially, GatewayTypeStep, PTL DEF Spec

-----------------------------------------------------------------------------
(* Every turn is paid for by an attempt.                                   *)

\* A row exists only because a delivery was accepted.
RowsAreClaimed == \A m \in Msgs : status[m] # "none" => claims[m] > 0

PaidInv == TurnsAreBounded /\ RowsAreClaimed

\* No turn has started and no attempt is counted at first.
LEMMA PaidInitially == Init => PaidInv
  BY DEF Init, PaidInv, TurnsAreBounded, RowsAreClaimed, Queued, Copies

\* Every copy that enters the queue costs an attempt: claim and recover_pending
\* increment it, and a turn uses the copy up.
LEMMA PaidStep == TypeOK /\ PaidInv /\ [Next]_vars => PaidInv'
<1> SUFFICES ASSUME TypeOK, PaidInv, [Next]_vars PROVE PaidInv'
  OBVIOUS
<1> USE DEF TypeOK, Statuses, Fault, receipts, poller, tasks, process, controller,
            history, Queued, Copies,
            PaidInv, TurnsAreBounded, RowsAreClaimed
<1>1. CASE UNCHANGED vars
  BY <1>1 DEF vars
<1>2. ASSUME NEW m \in Msgs, HandleCallback(m)
      PROVE  PaidInv'
  BY <1>2 DEF HandleCallback, Claimable, Claim
<1>3. ASSUME NEW m \in Msgs, HandleCallbackFault(m)
      PROVE  PaidInv'
  BY <1>3 DEF HandleCallbackFault
<1>4. ASSUME NEW m \in Msgs, PollTake(m)
      PROVE  PaidInv'
  BY <1>4 DEF PollTake
<1>5. ASSUME NEW m \in Msgs, Dispatch(m)
      PROVE  PaidInv'
  BY <1>5 DEF Dispatch, LeaveGate
<1>6. ASSUME NEW m \in Msgs, RefuseLostClaim(m)
      PROVE  PaidInv'
  BY <1>6 DEF RefuseLostClaim, LeaveGate
<1>7. ASSUME NEW m \in Msgs, DispatchFault(m)
      PROVE  PaidInv'
  BY <1>7 DEF DispatchFault, Finalize, LeaveGate
<1>8. ASSUME NEW m \in Msgs, PollLoopDies(m)
      PROVE  PaidInv'
  BY <1>8 DEF PollLoopDies, LeaveGate
<1>9. CASE WaitUntilOpen
  BY <1>9 DEF WaitUntilOpen
<1>10. ASSUME NEW m \in Msgs, NEW outcome \in {"processed", "failed"},
             EndTurn(m, outcome)
      PROVE  PaidInv'
  BY <1>10 DEF EndTurn, Finalize
<1>11. ASSUME NEW m \in Msgs, EndTurnFault(m)
      PROVE  PaidInv'
  BY <1>11 DEF EndTurnFault
<1>12. CASE Disconnect
  BY <1>12 DEF Disconnect, LeaveGate
<1>13. CASE Reconnect
  BY <1>13, RecoverEffect, RecoverType DEF Reconnect
<1>14. CASE Crash
  BY <1>14 DEF Crash, LeaveGate
<1>15. CASE Restart
  BY <1>15, RecoverEffect, RecoverType DEF Restart
<1>16. CASE EnterDrain
  BY <1>16 DEF EnterDrain
<1>17. CASE DeclareQuiesced
  BY <1>17 DEF DeclareQuiesced
<1>18. CASE ResumeDrain
  BY <1>18 DEF ResumeDrain
<1>19. ASSUME NEW m \in Msgs, GrowStale(m)
      PROVE  PaidInv'
  BY <1>19 DEF GrowStale
<1>20. CASE ConnectFails
  <2>1. CASE UNCHANGED <<status, attempts, processing, stale, waiting>>
    BY <1>20, <2>1 DEF ConnectFails
  <2>2. CASE \E left : Recover(Msgs, waiting, left)
    BY <1>20, <2>2, RecoverEffect, RecoverType DEF ConnectFails
  <2>3. QED
    BY <1>20, <2>1, <2>2 DEF ConnectFails
<1> QED
  BY <1>1, <1>2, <1>3, <1>4, <1>5, <1>6, <1>7, <1>8, <1>9, <1>10, <1>11, <1>12,
     <1>13, <1>14, <1>15, <1>16, <1>17, <1>18, <1>19, <1>20
  DEF Next, Intake, Poll, Turn, Lifecycle, Maintenance

\* The bound on model turns per accepted delivery, crashes and reconnects
\* included.
THEOREM TurnsBounded == Spec => []TurnsAreBounded
<1>1. TypeOK /\ PaidInv /\ [Next]_vars => PaidInv'
  BY PaidStep
<1>2. PaidInv => TurnsAreBounded
  BY DEF PaidInv
<1>3. QED
  BY <1>1, <1>2, PaidInitially, GatewayTypeCorrect, PTL DEF Spec

-----------------------------------------------------------------------------
(* No acknowledged message is forgotten.                                   *)

WorkerInv == ClaimHasWorker

\* No receipt is open at first.
LEMMA WorkerInitially == Init => WorkerInv
  BY DEF Init, WorkerInv, ClaimHasWorker, Queued, Copies

\* A step that leaves a receipt open leaves a worker for it, or a process that
\* will recover it.
LEMMA WorkerStep == TypeOK /\ WorkerInv /\ [Next]_vars => WorkerInv'
<1> SUFFICES ASSUME TypeOK, WorkerInv, [Next]_vars PROVE WorkerInv'
  OBVIOUS
<1> USE DEF TypeOK, Statuses, Fault, receipts, poller, tasks, process, controller,
            history, Queued, Copies,
            WorkerInv, ClaimHasWorker
<1>1. CASE UNCHANGED vars
  BY <1>1 DEF vars
<1>2. ASSUME NEW m \in Msgs, HandleCallback(m)
      PROVE  WorkerInv'
  BY <1>2 DEF HandleCallback, Claimable, Claim
<1>3. ASSUME NEW m \in Msgs, HandleCallbackFault(m)
      PROVE  WorkerInv'
  BY <1>3 DEF HandleCallbackFault
<1>4. ASSUME NEW m \in Msgs, PollTake(m)
      PROVE  WorkerInv'
  BY <1>4 DEF PollTake
<1>5. ASSUME NEW m \in Msgs, Dispatch(m)
      PROVE  WorkerInv'
  BY <1>5 DEF Dispatch, LeaveGate
<1>6. ASSUME NEW m \in Msgs, RefuseLostClaim(m)
      PROVE  WorkerInv'
  BY <1>6 DEF RefuseLostClaim, LeaveGate
<1>7. ASSUME NEW m \in Msgs, DispatchFault(m)
      PROVE  WorkerInv'
  BY <1>7 DEF DispatchFault, Finalize, LeaveGate
<1>8. ASSUME NEW m \in Msgs, PollLoopDies(m)
      PROVE  WorkerInv'
  BY <1>8 DEF PollLoopDies, LeaveGate
<1>9. CASE WaitUntilOpen
  BY <1>9 DEF WaitUntilOpen
<1>10. ASSUME NEW m \in Msgs, NEW outcome \in {"processed", "failed"},
             EndTurn(m, outcome)
      PROVE  WorkerInv'
  BY <1>10 DEF EndTurn, Finalize
<1>11. ASSUME NEW m \in Msgs, EndTurnFault(m)
      PROVE  WorkerInv'
  BY <1>11 DEF EndTurnFault
<1>12. CASE Disconnect
  BY <1>12 DEF Disconnect, LeaveGate
<1>13. CASE Reconnect
  BY <1>13, RecoverEffect, RecoverType DEF Reconnect
<1>14. CASE Crash
  BY <1>14 DEF Crash, LeaveGate
<1>15. CASE Restart
  BY <1>15, RecoverEffect, RecoverType DEF Restart
<1>16. CASE EnterDrain
  BY <1>16 DEF EnterDrain
<1>17. CASE DeclareQuiesced
  BY <1>17 DEF DeclareQuiesced
<1>18. CASE ResumeDrain
  BY <1>18 DEF ResumeDrain
<1>19. ASSUME NEW m \in Msgs, GrowStale(m)
      PROVE  WorkerInv'
  BY <1>19 DEF GrowStale
<1>20. CASE ConnectFails
  <2>1. CASE UNCHANGED <<status, attempts, processing, stale, waiting>>
    BY <1>20, <2>1 DEF ConnectFails
  <2>2. CASE \E left : Recover(Msgs, waiting, left)
    BY <1>20, <2>2, RecoverEffect, RecoverType DEF ConnectFails
  <2>3. QED
    BY <1>20, <2>1, <2>2 DEF ConnectFails
<1> QED
  BY <1>1, <1>2, <1>3, <1>4, <1>5, <1>6, <1>7, <1>8, <1>9, <1>10, <1>11, <1>12,
     <1>13, <1>14, <1>15, <1>16, <1>17, <1>18, <1>19, <1>20
  DEF Next, Intake, Poll, Turn, Lifecycle, Maintenance

\* A claimed receipt with attempts left has a worker in every connected state
\* that no SQLite error preceded.
THEOREM ClaimsHaveWorkers == Spec => []ClaimHasWorker
<1>1. TypeOK /\ WorkerInv /\ [Next]_vars => WorkerInv'
  BY WorkerStep
<1>2. WorkerInv => ClaimHasWorker
  BY DEF WorkerInv
<1>3. QED
  BY <1>1, <1>2, WorkerInitially, GatewayTypeCorrect, PTL DEF Spec

-----------------------------------------------------------------------------
(* One worker per receipt, and the proof of quiescence.                    *)

\* Only a running process is connected, without reconnects it always is, and a
\* dead process has neither queue nor tasks.
LinkInv ==
    /\ ~MayReconnect /\ up => connected
    /\ connected => up
    /\ ~up => \A m \in Msgs : Copies(m) = 0

\* The worker of a message holds a fresh claim; a running one is visible as
\* 'processing' to the controller.
WorkerHoldsClaim ==
    Calm => \A m \in Msgs :
        /\ Copies(m) > 0 => status[m] = "claimed" /\ m \notin stale
        /\ turns[m] > 0 => m \in processing

\* A quiesced Gateway is drained and its poller is not past the gate.
QuiescedIsShut ==
    StableCoversGate /\ ctl = "quiesced" => drain /\ ~passed

CalmInv ==
    LinkInv /\ OneCopy /\ WorkerHoldsClaim /\ QuiescedIsShut /\ QuiescedIsIdle

\* No copy exists and the controller is idle at first.
LEMMA CalmInitially == Init => CalmInv
  BY DEF Init, CalmInv, LinkInv, OneCopy, WorkerHoldsClaim, QuiescedIsShut,
            QuiescedIsIdle, Calm, Queued, Copies

\* With fresh claims and no reconnect, claim never adds a copy beside another,
\* and mark_processing comes before the turn it counts.
LEMMA CalmStep == TypeOK /\ CalmInv /\ [Next]_vars => CalmInv'
<1> SUFFICES ASSUME TypeOK, CalmInv, [Next]_vars PROVE CalmInv'
  OBVIOUS
<1> USE DEF TypeOK, Statuses, Fault, receipts, poller, tasks, process, controller,
            history, Queued, Copies,
            CalmInv, LinkInv, OneCopy, WorkerHoldsClaim, QuiescedIsShut,
            QuiescedIsIdle, Calm
<1>1. CASE UNCHANGED vars
  BY <1>1 DEF vars
<1>2. ASSUME NEW m \in Msgs, HandleCallback(m)
      PROVE  CalmInv'
  BY <1>2 DEF HandleCallback, Claimable, Claim
<1>3. ASSUME NEW m \in Msgs, HandleCallbackFault(m)
      PROVE  CalmInv'
  BY <1>3 DEF HandleCallbackFault
<1>4. ASSUME NEW m \in Msgs, PollTake(m)
      PROVE  CalmInv'
  BY <1>4 DEF PollTake
<1>5. ASSUME NEW m \in Msgs, Dispatch(m)
      PROVE  CalmInv'
  BY <1>5 DEF Dispatch, LeaveGate
<1>6. ASSUME NEW m \in Msgs, RefuseLostClaim(m)
      PROVE  CalmInv'
  BY <1>6 DEF RefuseLostClaim, LeaveGate
<1>7. ASSUME NEW m \in Msgs, DispatchFault(m)
      PROVE  CalmInv'
  BY <1>7 DEF DispatchFault, Finalize, LeaveGate
<1>8. ASSUME NEW m \in Msgs, PollLoopDies(m)
      PROVE  CalmInv'
  BY <1>8 DEF PollLoopDies, LeaveGate
<1>9. CASE WaitUntilOpen
  BY <1>9 DEF WaitUntilOpen
<1>10. ASSUME NEW m \in Msgs, NEW outcome \in {"processed", "failed"},
             EndTurn(m, outcome)
      PROVE  CalmInv'
  BY <1>10 DEF EndTurn, Finalize
<1>11. ASSUME NEW m \in Msgs, EndTurnFault(m)
      PROVE  CalmInv'
  BY <1>11 DEF EndTurnFault
<1>12. CASE Disconnect
  BY <1>12 DEF Disconnect, LeaveGate
<1>13. CASE Reconnect
  BY <1>13, RecoverEffect, RecoverType DEF Reconnect
<1>14. CASE Crash
  BY <1>14 DEF Crash, LeaveGate
<1>15. CASE Restart
  <2>1. \A m \in Msgs : waiting[m] = 0 /\ turns[m] = 0 /\ gate # m
    BY <1>15 DEF Restart
  <2>2. ASSUME NEW m \in Msgs
        PROVE  /\ Copies(m)' <= 1
               /\ Copies(m)' > 0 => status'[m] = "claimed" /\ m \notin stale'
    BY <1>15, <2>1, RecoverEffect DEF Restart
  <2>3. LinkInv' /\ QuiescedIsShut' /\ QuiescedIsIdle'
    BY <1>15, <2>1 DEF Restart
  <2>4. \A m \in Msgs : turns'[m] = 0
    BY <1>15, <2>1 DEF Restart
  <2>5. QED
    BY <2>2, <2>3, <2>4
<1>16. CASE EnterDrain
  BY <1>16 DEF EnterDrain
<1>17. CASE DeclareQuiesced
  BY <1>17 DEF DeclareQuiesced
<1>18. CASE ResumeDrain
  BY <1>18 DEF ResumeDrain
<1>19. ASSUME NEW m \in Msgs, GrowStale(m)
      PROVE  CalmInv'
  BY <1>19 DEF GrowStale
<1>20. CASE ConnectFails
  <2>1. CASE UNCHANGED <<status, attempts, processing, stale, waiting>>
    BY <1>20, <2>1 DEF ConnectFails
  <2>2. CASE \E left : Recover(Msgs, waiting, left)
    BY <1>20, <2>2, RecoverEffect, RecoverType DEF ConnectFails
  <2>3. QED
    BY <1>20, <2>1, <2>2 DEF ConnectFails
<1> QED
  BY <1>1, <1>2, <1>3, <1>4, <1>5, <1>6, <1>7, <1>8, <1>9, <1>10, <1>11, <1>12,
     <1>13, <1>14, <1>15, <1>16, <1>17, <1>18, <1>19, <1>20
  DEF Next, Intake, Poll, Turn, Lifecycle, Maintenance

\* The invariant behind OneCopy and QuiescedIsIdle holds in every behaviour.
LEMMA CalmHolds == Spec => []CalmInv
  BY CalmInitially, CalmStep, GatewayTypeCorrect, PTL DEF Spec

\* One worker per receipt, over crashes, failed turns and repeated deliveries.
THEOREM OneWorker == Spec => []OneCopy
<1>1. CalmInv => OneCopy
  BY DEF CalmInv
<1>2. QED
  BY <1>1, CalmHolds, PTL

\* A declared quiescence is real and lasts until the drain is resumed.
THEOREM QuiescenceIsReal == Spec => []QuiescedIsIdle
<1>1. CalmInv => QuiescedIsIdle
  BY DEF CalmInv
<1>2. QED
  BY <1>1, CalmHolds, PTL
-----------------------------------------------------------------------------
(* A processed message is closed.                                          *)

\* No store operation reopens a processed row, and mark_processing, which
\* precedes every turn, refuses it.
LEMMA ProcessedStep ==
  ASSUME TypeOK, [Next]_vars, NEW m \in Msgs, status[m] = "processed"
  PROVE  status'[m] = "processed" /\ started'[m] = started[m]
<1> USE DEF TypeOK, receipts, poller, tasks, process, controller, history
<1>1. ASSUME NEW x \in Msgs, HandleCallback(x) \/ HandleCallbackFault(x)
      PROVE  status'[m] = "processed" /\ started'[m] = started[m]
  BY <1>1 DEF HandleCallback, HandleCallbackFault, Claimable, Claim
<1>2. ASSUME NEW x \in Msgs,
             PollTake(x) \/ Dispatch(x) \/ RefuseLostClaim(x) \/ PollLoopDies(x)
      PROVE  status'[m] = "processed" /\ started'[m] = started[m]
  BY <1>2 DEF PollTake, Dispatch, RefuseLostClaim, PollLoopDies
<1>3. ASSUME NEW x \in Msgs, DispatchFault(x)
      PROVE  status'[m] = "processed" /\ started'[m] = started[m]
  BY <1>3 DEF DispatchFault, Finalize
<1>4. ASSUME NEW x \in Msgs, NEW outcome \in {"processed", "failed"},
             EndTurn(x, outcome)
      PROVE  status'[m] = "processed" /\ started'[m] = started[m]
  BY <1>4 DEF EndTurn, Finalize
<1>5. ASSUME NEW x \in Msgs, EndTurnFault(x) \/ GrowStale(x)
      PROVE  status'[m] = "processed" /\ started'[m] = started[m]
  BY <1>5 DEF EndTurnFault, GrowStale
<1>6. CASE Reconnect \/ Restart \/ ConnectFails
  BY <1>6, RecoverEffect DEF Reconnect, Restart, ConnectFails
<1>7. CASE WaitUntilOpen \/ Disconnect \/ Crash \/ Maintenance \/ UNCHANGED vars
  BY <1>7 DEF WaitUntilOpen, Disconnect, Crash, Maintenance, EnterDrain,
     DeclareQuiesced, ResumeDrain, vars
<1> QED
  BY <1>1, <1>2, <1>3, <1>4, <1>5, <1>6, <1>7 DEF Next, Intake, Poll, Turn, Lifecycle

\* A receipt, once written, is never removed: the table has no DELETE, and
\* recovery only moves a row between claimed and failed.
LEMMA ReceiptsStay ==
  ASSUME TypeOK, [Next]_vars, NEW m \in Msgs, status[m] # "none"
  PROVE  status'[m] # "none"
<1> USE DEF TypeOK, receipts, Claim, Finalize
<1>1. CASE Intake
  BY <1>1 DEF Intake, HandleCallback, HandleCallbackFault
<1>2. CASE Poll
  BY <1>2 DEF Poll, PollTake, Dispatch, RefuseLostClaim, DispatchFault, PollLoopDies,
     WaitUntilOpen
<1>3. CASE Turn
  BY <1>3 DEF Turn, EndTurn, EndTurnFault
<1>4. CASE Reconnect \/ Restart \/ ConnectFails
  BY <1>4, RecoverEffect DEF Reconnect, Restart, ConnectFails
<1>5. CASE Disconnect \/ Crash \/ Maintenance \/ UNCHANGED vars
  BY <1>5 DEF Disconnect, Crash, Maintenance, EnterDrain, DeclareQuiesced, ResumeDrain,
     vars
<1>6. CASE \E x \in Msgs : GrowStale(x)
  BY <1>6 DEF GrowStale
<1> QED
  BY <1>1, <1>2, <1>3, <1>4, <1>5, <1>6 DEF Next, Lifecycle

\* A processed message is never run again: not by a repeated delivery, not by
\* a copy that was queued before, not by the recovery of a reconnect or restart.
THEOREM ProcessedStays == Spec => ProcessedIsFinal
<1>1. TypeOK /\ [Next]_vars =>
        [\A m \in Msgs : status[m] = "processed" =>
             status'[m] = "processed" /\ started'[m] = started[m]]_vars
  BY ProcessedStep
<1>2. QED
  BY <1>1, GatewayTypeCorrect, PTL DEF Spec, ProcessedIsFinal
=============================================================================
