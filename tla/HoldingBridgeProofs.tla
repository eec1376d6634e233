------------------------ MODULE HoldingBridgeProofs ------------------------
(***************************************************************************)
(* Safety of the holding bridge for every set of messages and handlers,    *)
(* every number of faults and both values of the two switches.             *)
(***************************************************************************)
EXTENDS HoldingBridge, TLAPS

USE BridgeConstants DEF BridgeConstants

\* An empty store, an idle replay task and no open requests are well typed.
LEMMA TypeInitially == Init => TypeOK
<1> SUFFICES ASSUME Init PROVE TypeOK
  OBVIOUS
<1> USE DEF Init, Senders, States, Live, Answers
<1>1. row \in [Msgs -> States] OBVIOUS
<1>2. carries \in [Senders -> Msgs \cup {NoMsg}] OBVIOUS
<1>3. answer \in [Senders -> Answers] OBVIOUS
<1>4. faults \in 0..MaxFaults  OBVIOUS
<1>5. hold \in BOOLEAN  OBVIOUS
<1>6. due \in SUBSET Msgs  OBVIOUS
<1>7. QED BY <1>1, <1>2, <1>3, <1>4, <1>5, <1>6 DEF TypeOK

\* prune_completed keeps the store well typed.
LEMMA PruneType ==
  ASSUME row \in [Msgs -> States], due \in SUBSET Msgs, PruneCompleted
  PROVE  row' \in [Msgs -> States] /\ due' \in SUBSET Msgs
<1> DEFINE old == {m \in Msgs : row[m] = "completed" /\ m \in due}
<1>1. row' = [m \in Msgs |-> IF m \in old THEN "absent" ELSE row[m]]
  BY DEF PruneCompleted
<1>2. due' = due \ old
  BY DEF PruneCompleted
<1> HIDE DEF old
<1> QED
  BY <1>1, <1>2 DEF States, Live

\* Every handler step, replay step, answer, crash and restart keeps the types.
LEMMA TypeStep == TypeOK /\ [Next]_vars => TypeOK'
<1> SUFFICES ASSUME TypeOK, [Next]_vars PROVE TypeOK'
  OBVIOUS
<1> USE DEF TypeOK, Senders, States, Live, Answers, store, senders, replay,
            observed, PutLater, PutNow, Fault, Awaiting, Answered, BeginForward, EndForward
<1>1. CASE UNCHANGED vars
  BY <1>1 DEF vars
<1>2. ASSUME NEW h \in Handlers, NEW m \in Msgs, PostPersistFailed(h, m)
      PROVE  TypeOK'
  BY <1>2 DEF PostPersistFailed
<1>3. ASSUME NEW h \in Handlers, NEW m \in Msgs, PostDuplicate(h, m)
      PROVE  TypeOK'
  BY <1>3 DEF PostDuplicate
<1>4. ASSUME NEW h \in Handlers, NEW m \in Msgs, PostHeld(h, m)
      PROVE  TypeOK'
  BY <1>4 DEF PostHeld, PersistPending
<1>5. ASSUME NEW h \in Handlers, NEW m \in Msgs, PostForward(h, m)
      PROVE  TypeOK'
  BY <1>5 DEF PostForward, PersistPending
<1>6. ASSUME NEW h \in Handlers, DirectTransportError(h)
      PROVE  TypeOK'
  BY <1>6 DEF DirectTransportError, Tolerating, ReleaseForReplay
<1>7. ASSUME NEW h \in Handlers, DirectSuccess(h)
      PROVE  TypeOK'
  BY <1>7 DEF DirectSuccess, Tolerating, MarkCompleted
<1>8. ASSUME NEW h \in Handlers, DirectTransient(h)
      PROVE  TypeOK'
  BY <1>8 DEF DirectTransient, Tolerating, ReleaseForReplay
<1>9. ASSUME NEW h \in Handlers, DirectReject(h)
      PROVE  TypeOK'
  BY <1>9 DEF DirectReject, Tolerating, DiscardPending
<1>10. ASSUME NEW h \in Handlers, DirectEscape(h)
      PROVE  TypeOK'
  BY <1>10 DEF DirectEscape
<1>11. CASE ReplayBegin
  BY <1>11 DEF ReplayBegin, Claimable
<1>12. ASSUME NEW m \in Msgs, ReplayAttempt(m)
      PROVE  TypeOK'
  BY <1>12 DEF ReplayAttempt, Claimable, MarkAttempt
<1>13. CASE ReplayTransportError
  BY <1>13 DEF ReplayTransportError, MarkReplayFailure
<1>14. CASE ReplaySuccess
  BY <1>14 DEF ReplaySuccess, MarkCompleted
<1>15. CASE ReplayRefused
  BY <1>15 DEF ReplayRefused, MarkReplayFailure
<1>16. CASE ReplayEnd
  <2>1. row' \in [Msgs -> States] /\ due' \in SUBSET Msgs
    BY <1>16, PruneType DEF ReplayEnd, Tolerating
  <2>2. faults' \in 0..MaxFaults
    BY <1>16 DEF ReplayEnd, Tolerating
  <2>3. QED
    BY <1>16, <2>1, <2>2 DEF ReplayEnd
<1>17. CASE ReplayWhileHeld
  BY <1>17, PruneType DEF ReplayWhileHeld
<1>18. CASE ReplayAbort
  <2>1. faults' \in 0..MaxFaults
    BY <1>18 DEF ReplayAbort
  <2>2. carries' \in [Senders -> Msgs \cup {NoMsg}] /\ answer' \in [Senders -> Answers]
    BY <1>18 DEF ReplayAbort
  <2>3. QED
    BY <1>18, <2>1, <2>2 DEF ReplayAbort
<1>19. ASSUME NEW s \in Senders, NEW a \in Answers \ {"none"}, UpstreamAnswers(s, a)
      PROVE  TypeOK'
  BY <1>19 DEF UpstreamAnswers
<1>20. ASSUME NEW m \in Msgs, Elapse(m)
      PROVE  TypeOK'
  BY <1>20 DEF Elapse
<1>21. CASE EnterHold
  BY <1>21 DEF EnterHold
<1>22. CASE Resume
  BY <1>22 DEF Resume
<1>23. CASE Crash
  BY <1>23 DEF Crash
<1>24. CASE Restart
  BY <1>24 DEF Restart, RecoverRows
<1> QED
  BY <1>1, <1>2, <1>3, <1>4, <1>5, <1>6, <1>7, <1>8, <1>9, <1>10, <1>11, <1>12, <1>13, <1>14, <1>15, <1>16, <1>17, <1>18, <1>19, <1>20, <1>21, <1>22, <1>23, <1>24
  DEF Next, HandlePost, ReplayLoop, Upstream, Environment

\* The bridge's store, its senders and the replay task keep their types, for
\* any number of messages and concurrent handle_post requests.
THEOREM TypeCorrect == Spec => []TypeOK
  BY TypeInitially, TypeStep, PTL DEF Spec

-----------------------------------------------------------------------------
(* Nothing acknowledged is lost.                                           *)

\* An answer 2xx at a sender comes from an upstream that has accepted.
OkIsAccepted ==
    \A s \in Senders : answer[s] = "ok" => carries[s] \in accepted

KeepInv == AckedIsKept /\ CompletedIsAccepted /\ OkIsAccepted

\* Nothing is acknowledged, stored or on the wire when the service first starts.
LEMMA KeepInitially == Init => KeepInv
  BY DEF Init, KeepInv, AckedIsKept, CompletedIsAccepted, OkIsAccepted

\* No store operation drops a row that a 2xx answer or a sender still relies on.
LEMMA KeepStep == TypeOK /\ KeepInv /\ [Next]_vars => KeepInv'
<1> SUFFICES ASSUME TypeOK, KeepInv, [Next]_vars PROVE KeepInv'
  OBVIOUS
<1> USE DEF TypeOK, KeepInv, AckedIsKept, CompletedIsAccepted, OkIsAccepted,
            Settled, Senders, States, Live, Answers, store, senders, replay,
            observed, PutLater, PutNow, Fault, Awaiting, Answered,
            BeginForward, EndForward, Fresh
<1>1. CASE UNCHANGED vars
  BY <1>1 DEF vars
<1>2. ASSUME NEW h \in Handlers, NEW m \in Msgs, PostPersistFailed(h, m)
      PROVE  KeepInv'
  BY <1>2 DEF PostPersistFailed
<1>3. ASSUME NEW h \in Handlers, NEW m \in Msgs, PostDuplicate(h, m)
      PROVE  KeepInv'
  BY <1>3 DEF PostDuplicate
<1>4. ASSUME NEW h \in Handlers, NEW m \in Msgs, PostHeld(h, m)
      PROVE  KeepInv'
  BY <1>4 DEF PostHeld, PersistPending
<1>5. ASSUME NEW h \in Handlers, NEW m \in Msgs, PostForward(h, m)
      PROVE  KeepInv'
  BY <1>5 DEF PostForward, PersistPending
<1>6. ASSUME NEW h \in Handlers, DirectTransportError(h)
      PROVE  KeepInv'
  BY <1>6 DEF DirectTransportError, Tolerating, ReleaseForReplay
<1>7. ASSUME NEW h \in Handlers, DirectSuccess(h)
      PROVE  KeepInv'
  BY <1>7 DEF DirectSuccess, Tolerating, MarkCompleted
<1>8. ASSUME NEW h \in Handlers, DirectTransient(h)
      PROVE  KeepInv'
  BY <1>8 DEF DirectTransient, Tolerating, ReleaseForReplay
<1>9. ASSUME NEW h \in Handlers, DirectReject(h)
      PROVE  KeepInv'
  BY <1>9 DEF DirectReject, Tolerating, DiscardPending
<1>10. ASSUME NEW h \in Handlers, DirectEscape(h)
      PROVE  KeepInv'
  BY <1>10 DEF DirectEscape
<1>11. CASE ReplayBegin
  BY <1>11 DEF ReplayBegin, Claimable
<1>12. ASSUME NEW m \in Msgs, ReplayAttempt(m)
      PROVE  KeepInv'
  BY <1>12 DEF ReplayAttempt, Claimable, MarkAttempt
<1>13. CASE ReplayTransportError
  BY <1>13 DEF ReplayTransportError, MarkReplayFailure
<1>14. CASE ReplaySuccess
  BY <1>14 DEF ReplaySuccess, MarkCompleted
<1>15. CASE ReplayRefused
  BY <1>15 DEF ReplayRefused, MarkReplayFailure
<1>16. CASE ReplayEnd
  BY <1>16 DEF ReplayEnd, Tolerating, PruneCompleted
<1>17. CASE ReplayWhileHeld
  BY <1>17 DEF ReplayWhileHeld, PruneCompleted
<1>18. CASE ReplayAbort
  BY <1>18 DEF ReplayAbort
<1>19. ASSUME NEW s \in Senders, NEW a \in Answers \ {"none"}, UpstreamAnswers(s, a)
      PROVE  KeepInv'
  BY <1>19 DEF UpstreamAnswers
<1>20. ASSUME NEW m \in Msgs, Elapse(m)
      PROVE  KeepInv'
  BY <1>20 DEF Elapse
<1>21. CASE EnterHold
  BY <1>21 DEF EnterHold
<1>22. CASE Resume
  BY <1>22 DEF Resume
<1>23. CASE Crash
  BY <1>23 DEF Crash
<1>24. CASE Restart
  BY <1>24 DEF Restart, RecoverRows
<1> QED
  BY <1>1, <1>2, <1>3, <1>4, <1>5, <1>6, <1>7, <1>8, <1>9, <1>10, <1>11, <1>12, <1>13, <1>14, <1>15, <1>16, <1>17, <1>18, <1>19, <1>20, <1>21, <1>22, <1>23, <1>24
  DEF Next, HandlePost, ReplayLoop, Upstream, Environment

\* What keeps acknowledged messages in the store holds in every behaviour.
LEMMA Keeps == Spec => []KeepInv
  BY KeepInitially, KeepStep, TypeCorrect, PTL DEF Spec

\* Nothing the bridge acknowledged or has on the wire is lost.
THEOREM NothingAckedIsLost == Spec => []AckedIsKept
<1>1. KeepInv => AckedIsKept
  BY DEF KeepInv
<1>2. QED
  BY <1>1, Keeps, PTL

\* A tombstone stands for a downstream 2xx, whoever wrote it and however late.
THEOREM TombstonesAreEarned == Spec => []CompletedIsAccepted
<1>1. KeepInv => CompletedIsAccepted
  BY DEF KeepInv
<1>2. QED
  BY <1>1, Keeps, PTL

-----------------------------------------------------------------------------
(* Who owns a row.                                                         *)

\* A stopped process has nothing in flight and no replay under way.
DownIsSilent == ~up => ~scanning /\ \A s \in Senders : carries[s] = NoMsg

\* While the lease holds, the sender of a message is told by its row: the
\* one handler that inserted it, or the replay task.
RowNamesSender ==
    LeaseCoversForward =>
        /\ \A h \in Handlers : Awaiting(h) =>
              row[carries[h]] = "direct" /\ carries[h] \notin due
        /\ Awaiting(Replayer) => row[carries[Replayer]] = "replaying"

OwnInv == DownIsSilent /\ RowNamesSender /\ OneSendPerMessage /\ NoStrandedReplay

\* No sender owns a row at first.
LEMMA OwnInitially == Init => OwnInv
  BY DEF Init, OwnInv, DownIsSilent, RowNamesSender, OneSendPerMessage,
         NoStrandedReplay, Awaiting, Senders

\* The lease of persist_pending and the recheck of mark_attempt hand a row from
\* one sender to the next without a moment with two.
LEMMA OwnStep == TypeOK /\ OwnInv /\ [Next]_vars => OwnInv'
<1> SUFFICES ASSUME TypeOK, OwnInv, [Next]_vars PROVE OwnInv'
  OBVIOUS
<1> USE DEF TypeOK, OwnInv, DownIsSilent, RowNamesSender, OneSendPerMessage,
            NoStrandedReplay, Senders, States, Live, Answers, store, senders,
            replay, observed, PutLater, PutNow, Fault, Awaiting, Answered,
            BeginForward, EndForward, Fresh
<1>1. CASE UNCHANGED vars
  BY <1>1 DEF vars
<1>2. ASSUME NEW h \in Handlers, NEW m \in Msgs, PostPersistFailed(h, m)
      PROVE  OwnInv'
  BY <1>2 DEF PostPersistFailed
<1>3. ASSUME NEW h \in Handlers, NEW m \in Msgs, PostDuplicate(h, m)
      PROVE  OwnInv'
  BY <1>3 DEF PostDuplicate
<1>4. ASSUME NEW h \in Handlers, NEW m \in Msgs, PostHeld(h, m)
      PROVE  OwnInv'
  BY <1>4 DEF PostHeld, PersistPending
<1>5. ASSUME NEW h \in Handlers, NEW m \in Msgs, PostForward(h, m)
      PROVE  OwnInv'
  BY <1>5 DEF PostForward, PersistPending
<1>6. ASSUME NEW h \in Handlers, DirectTransportError(h)
      PROVE  OwnInv'
  BY <1>6 DEF DirectTransportError, Tolerating, ReleaseForReplay
<1>7. ASSUME NEW h \in Handlers, DirectSuccess(h)
      PROVE  OwnInv'
  BY <1>7 DEF DirectSuccess, Tolerating, MarkCompleted
<1>8. ASSUME NEW h \in Handlers, DirectTransient(h)
      PROVE  OwnInv'
  BY <1>8 DEF DirectTransient, Tolerating, ReleaseForReplay
<1>9. ASSUME NEW h \in Handlers, DirectReject(h)
      PROVE  OwnInv'
  BY <1>9 DEF DirectReject, Tolerating, DiscardPending
<1>10. ASSUME NEW h \in Handlers, DirectEscape(h)
      PROVE  OwnInv'
  BY <1>10 DEF DirectEscape
<1>11. CASE ReplayBegin
  BY <1>11 DEF ReplayBegin, Claimable
<1>12. ASSUME NEW m \in Msgs, ReplayAttempt(m)
      PROVE  OwnInv'
  BY <1>12 DEF ReplayAttempt, Claimable, MarkAttempt
<1>13. CASE ReplayTransportError
  BY <1>13 DEF ReplayTransportError, MarkReplayFailure
<1>14. CASE ReplaySuccess
  BY <1>14 DEF ReplaySuccess, MarkCompleted
<1>15. CASE ReplayRefused
  BY <1>15 DEF ReplayRefused, MarkReplayFailure
<1>16. CASE ReplayEnd
  BY <1>16 DEF ReplayEnd, Tolerating, PruneCompleted
<1>17. CASE ReplayWhileHeld
  BY <1>17 DEF ReplayWhileHeld, PruneCompleted
<1>18. CASE ReplayAbort
  BY <1>18 DEF ReplayAbort
<1>19. ASSUME NEW s \in Senders, NEW a \in Answers \ {"none"}, UpstreamAnswers(s, a)
      PROVE  OwnInv'
  BY <1>19 DEF UpstreamAnswers
<1>20. ASSUME NEW m \in Msgs, Elapse(m)
      PROVE  OwnInv'
  BY <1>20 DEF Elapse
<1>21. CASE EnterHold
  BY <1>21 DEF EnterHold
<1>22. CASE Resume
  BY <1>22 DEF Resume
<1>23. CASE Crash
  BY <1>23 DEF Crash
<1>24. CASE Restart
  BY <1>24 DEF Restart, RecoverRows
<1> QED
  BY <1>1, <1>2, <1>3, <1>4, <1>5, <1>6, <1>7, <1>8, <1>9, <1>10, <1>11, <1>12, <1>13, <1>14, <1>15, <1>16, <1>17, <1>18, <1>19, <1>20, <1>21, <1>22, <1>23, <1>24
  DEF Next, HandlePost, ReplayLoop, Upstream, Environment

\* What ties a row to its sender holds in every behaviour.
LEMMA Owned == Spec => []OwnInv
  BY OwnInitially, OwnStep, TypeCorrect, PTL DEF Spec

\* One send at a time per message, while the direct lease covers the forward.
THEOREM SendersDoNotCollide == Spec => []OneSendPerMessage
<1>1. OwnInv => OneSendPerMessage
  BY DEF OwnInv
<1>2. QED
  BY <1>1, Owned, PTL

\* A live replay task leaves no row replaying behind.
THEOREM ReplaysAreAttended == Spec => []NoStrandedReplay
<1>1. OwnInv => NoStrandedReplay
  BY DEF OwnInv
<1>2. QED
  BY <1>1, Owned, PTL

-----------------------------------------------------------------------------
(* A tombstone is final.                                                   *)

\* persist_pending and mark_attempt are the only ways to a forward: every
\* other step leaves a sender its message or takes it away.
LEMMA ForwardsBegin ==
  ASSUME TypeOK, [Next]_vars, NEW s \in Senders, carries'[s] \notin {NoMsg, carries[s]}
  PROVE  \/ Fresh(carries'[s])
         \/ Claimable(carries'[s])
<1> USE DEF TypeOK, Senders, senders, BeginForward, EndForward
<1>1. ASSUME NEW h \in Handlers, NEW m \in Msgs, PostForward(h, m)
      PROVE  Fresh(carries'[s])
  BY <1>1 DEF PostForward
<1>2. ASSUME NEW m \in Msgs, ReplayAttempt(m)
      PROVE  Claimable(carries'[s])
  BY <1>2 DEF ReplayAttempt
<1>3. ASSUME NEW h \in Handlers, NEW m \in Msgs
      PROVE  ~PostPersistFailed(h, m) /\ ~PostDuplicate(h, m) /\ ~PostHeld(h, m)
  BY DEF PostPersistFailed, PostDuplicate, PostHeld
<1>4. ASSUME NEW h \in Handlers
      PROVE  /\ ~DirectTransportError(h) /\ ~DirectSuccess(h) /\ ~DirectTransient(h)
             /\ ~DirectReject(h) /\ ~DirectEscape(h)
  BY DEF DirectTransportError, DirectSuccess, DirectTransient, DirectReject, DirectEscape
<1>5. /\ ~ReplayBegin /\ ~ReplayTransportError /\ ~ReplaySuccess /\ ~ReplayRefused
      /\ ~ReplayEnd /\ ~ReplayWhileHeld /\ ~ReplayAbort
  BY DEF ReplayBegin, ReplayTransportError, ReplaySuccess, ReplayRefused, ReplayEnd,
         ReplayWhileHeld, ReplayAbort
<1>6. ~Upstream /\ ~Environment /\ ~UNCHANGED vars
  BY DEF Upstream, UpstreamAnswers, Environment, Elapse, EnterHold, Resume, Crash,
         Restart, vars
<1> QED
  BY <1>1, <1>2, <1>3, <1>4, <1>5, <1>6 DEF Next, HandlePost, ReplayLoop

\* No forward begins for a completed message: neither a repeated POST nor a
\* batch that pending() selected before the row was completed sends it again.
THEOREM CompletedIsNotSent == Spec => NoSendAfterCompletion
<1>1. TypeOK /\ [Next]_vars =>
        [\A s \in Senders :
           carries'[s] \notin {NoMsg, carries[s]} => row[carries'[s]] # "completed"]_vars
  BY ForwardsBegin DEF Fresh, Claimable
<1>2. QED
  BY <1>1, TypeCorrect, PTL DEF Spec, NoSendAfterCompletion

-----------------------------------------------------------------------------
(* The bridge implements DurableRelay.                                     *)

\* The empty store maps to the empty abstract relay.
LEMMA RelayInitially == Init => Relay!Init
  BY DEF Init, Relay!Init, Live

\* Every step of the bridge is a step of DurableRelay or leaves it alone.
LEMMA RelayStep ==
  TypeOK /\ KeepInv /\ [Next]_vars => [Relay!Next]_(Relay!relay)
<1> SUFFICES ASSUME TypeOK, KeepInv, [Next]_vars PROVE [Relay!Next]_(Relay!relay)
  OBVIOUS
<1> USE DEF TypeOK, KeepInv, AckedIsKept, CompletedIsAccepted, OkIsAccepted,
            Settled, Senders, States, Live, Answers, store, senders, replay,
            observed, PutLater, PutNow, Fault, Awaiting, Answered,
            BeginForward, EndForward, Fresh, Relay!Next, Relay!relay, Relay!Safe,
            Relay!MayAck, Relay!Take, Relay!Ack, Relay!Accept, Relay!Finish,
            Relay!Refuse
<1>1. CASE UNCHANGED vars
  BY <1>1 DEF vars
<1>2. ASSUME NEW h \in Handlers, NEW m \in Msgs, PostPersistFailed(h, m)
      PROVE  [Relay!Next]_(Relay!relay)
  BY <1>2 DEF PostPersistFailed
<1>3. ASSUME NEW h \in Handlers, NEW m \in Msgs, PostDuplicate(h, m)
      PROVE  [Relay!Next]_(Relay!relay)
  BY <1>3 DEF PostDuplicate
<1>4. ASSUME NEW h \in Handlers, NEW m \in Msgs, PostHeld(h, m)
      PROVE  [Relay!Next]_(Relay!relay)
  BY <1>4 DEF PostHeld, PersistPending
<1>5. ASSUME NEW h \in Handlers, NEW m \in Msgs, PostForward(h, m)
      PROVE  [Relay!Next]_(Relay!relay)
  BY <1>5 DEF PostForward, PersistPending
<1>6. ASSUME NEW h \in Handlers, DirectTransportError(h)
      PROVE  [Relay!Next]_(Relay!relay)
  BY <1>6 DEF DirectTransportError, Tolerating, ReleaseForReplay
<1>7. ASSUME NEW h \in Handlers, DirectSuccess(h)
      PROVE  [Relay!Next]_(Relay!relay)
  BY <1>7 DEF DirectSuccess, Tolerating, MarkCompleted
<1>8. ASSUME NEW h \in Handlers, DirectTransient(h)
      PROVE  [Relay!Next]_(Relay!relay)
  BY <1>8 DEF DirectTransient, Tolerating, ReleaseForReplay
<1>9. ASSUME NEW h \in Handlers, DirectReject(h)
      PROVE  [Relay!Next]_(Relay!relay)
  BY <1>9 DEF DirectReject, Tolerating, DiscardPending
<1>10. ASSUME NEW h \in Handlers, DirectEscape(h)
      PROVE  [Relay!Next]_(Relay!relay)
  BY <1>10 DEF DirectEscape
<1>11. CASE ReplayBegin
  BY <1>11 DEF ReplayBegin, Claimable
<1>12. ASSUME NEW m \in Msgs, ReplayAttempt(m)
      PROVE  [Relay!Next]_(Relay!relay)
  BY <1>12 DEF ReplayAttempt, Claimable, MarkAttempt
<1>13. CASE ReplayTransportError
  BY <1>13 DEF ReplayTransportError, MarkReplayFailure
<1>14. CASE ReplaySuccess
  BY <1>14 DEF ReplaySuccess, MarkCompleted
<1>15. CASE ReplayRefused
  BY <1>15 DEF ReplayRefused, MarkReplayFailure
<1>16. CASE ReplayEnd
  BY <1>16 DEF ReplayEnd, Tolerating, PruneCompleted
<1>17. CASE ReplayWhileHeld
  BY <1>17 DEF ReplayWhileHeld, PruneCompleted
<1>18. CASE ReplayAbort
  BY <1>18 DEF ReplayAbort
<1>19. ASSUME NEW s \in Senders, NEW a \in Answers \ {"none"}, UpstreamAnswers(s, a)
      PROVE  [Relay!Next]_(Relay!relay)
  BY <1>19 DEF UpstreamAnswers
<1>20. ASSUME NEW m \in Msgs, Elapse(m)
      PROVE  [Relay!Next]_(Relay!relay)
  BY <1>20 DEF Elapse
<1>21. CASE EnterHold
  BY <1>21 DEF EnterHold
<1>22. CASE Resume
  BY <1>22 DEF Resume
<1>23. CASE Crash
  BY <1>23 DEF Crash
<1>24. CASE Restart
  BY <1>24 DEF Restart, RecoverRows
<1> QED
  BY <1>1, <1>2, <1>3, <1>4, <1>5, <1>6, <1>7, <1>8, <1>9, <1>10, <1>11, <1>12, <1>13, <1>14, <1>15, <1>16, <1>17, <1>18, <1>19, <1>20, <1>21, <1>22, <1>23, <1>24
  DEF Next, HandlePost, ReplayLoop, Upstream, Environment

\* Every behaviour of the bridge is one of DurableRelay.
THEOREM BridgeImplementsRelay == Spec => ImplementsRelay
<1>1. TypeOK /\ KeepInv /\ [Next]_vars => KeepInv'
  BY KeepStep
<1>2. QED
  BY <1>1, KeepInitially, TypeCorrect, RelayInitially, RelayStep, PTL
  DEF Spec, ImplementsRelay, Relay!Spec
=============================================================================
