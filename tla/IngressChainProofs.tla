------------------------- MODULE IngressChainProofs -------------------------
(***************************************************************************)
(* Safety of the holding bridge in front of the Gateway, for every set of  *)
(* messages and handlers and every bound: what the two processes, their    *)
(* crashes and their repeated sends can do to one callback.                *)
(*                                                                         *)
(* The chain runs each component unchanged, so that whatever was proved of *)
(* the bridge and of the Gateway alone holds of them together; what is new *)
(* here is what relates the two stores.                                    *)
(***************************************************************************)
EXTENDS IngressChain, HoldingBridgeProofs

GP == INSTANCE CallbackGatewayProofs
        WITH up <- gup, faults <- gfaults, MaxFaults <- GatewayFaults,
             StableCoversGate <- TRUE, MayReconnect <- FALSE

-----------------------------------------------------------------------------
(* What the bridge does.                                                   *)

\* A step of the chain is a step of the bridge or leaves it alone.
LEMMA BridgeSteps == [ChainNext]_chain => [Next]_vars
<1>1. \A s \in Senders : Deliver(s) \/ HubUnavailable(s) => Next
  BY DEF Deliver, HubUnavailable, Next, Upstream, Answers
<1>2. BridgeAlone => Next
  BY DEF BridgeAlone, Next
<1>3. GatewayAlone \/ UNCHANGED chain => UNCHANGED vars
  BY DEF GatewayAlone, chain
<1>4. QED  BY <1>1, <1>2, <1>3 DEF ChainNext

\* In front of the real Gateway the bridge behaves as specified alone: the
\* answers HoldingBridge leaves open include every answer of the Gateway.
THEOREM ChainRunsTheBridge == ChainSpec => Spec
  BY BridgeSteps, PTL DEF ChainSpec, ChainInit, Spec

\* Nothing the bridge acknowledged is lost by the bridge.
LEMMA BridgeKeeps == ChainSpec => [](TypeOK /\ KeepInv)
  BY ChainRunsTheBridge, TypeCorrect, Keeps, PTL

-----------------------------------------------------------------------------
(* What the Gateway does.                                                  *)

USE BridgeConstants DEF BridgeConstants

\* The constants of the chain are constants of a Gateway.
LEMMA GatewayConstantsHold == GP!GatewayConstants
  BY ChainConstants DEF ChainConstants, GP!GatewayConstants

\* The two instances of the Gateway have the same next-state relation.
LEMMA SameNext == G!Next <=> GP!Next
<1> USE DEF G!receipts, GP!receipts, G!poller, GP!poller, G!tasks, GP!tasks,
            G!process, GP!process, G!controller, GP!controller, G!history, GP!history,
            G!Fault, GP!Fault, G!LeaveGate, GP!LeaveGate, G!Finalize, GP!Finalize
<1>1. G!Intake <=> GP!Intake
  BY DEF G!Intake, GP!Intake, G!HandleCallback, GP!HandleCallback, G!Claimable,
     GP!Claimable, G!Claim, GP!Claim, G!HandleCallbackFault, GP!HandleCallbackFault
<1>2. G!Poll <=> GP!Poll
  BY DEF G!Poll, GP!Poll, G!PollTake, GP!PollTake, G!Dispatch, GP!Dispatch,
     G!RefuseLostClaim, GP!RefuseLostClaim, G!DispatchFault, GP!DispatchFault,
     G!PollLoopDies, GP!PollLoopDies, G!WaitUntilOpen, GP!WaitUntilOpen
<1>3. G!Turn <=> GP!Turn
  BY DEF G!Turn, GP!Turn, G!EndTurn, GP!EndTurn, G!EndTurnFault, GP!EndTurnFault
<1>4. G!Lifecycle <=> GP!Lifecycle
  BY DEF G!Lifecycle, GP!Lifecycle, G!Disconnect, GP!Disconnect, G!Reconnect,
     GP!Reconnect, G!Crash, GP!Crash, G!Restart, GP!Restart, G!ConnectFails,
     GP!ConnectFails, G!Recover, GP!Recover, G!Recoverable, GP!Recoverable
<1>5. G!Maintenance <=> GP!Maintenance
  BY DEF G!Maintenance, GP!Maintenance, G!EnterDrain, GP!EnterDrain,
     G!DeclareQuiesced, GP!DeclareQuiesced, G!ResumeDrain, GP!ResumeDrain
<1>6. \A m \in Msgs : G!GrowStale(m) <=> GP!GrowStale(m)
  BY DEF G!GrowStale, GP!GrowStale, G!Copies, GP!Copies, G!Queued, GP!Queued
<1> QED
  BY <1>1, <1>2, <1>3, <1>4, <1>5, <1>6 DEF G!Next, GP!Next

\* A step of the chain is a step of the Gateway or leaves it alone.
LEMMA GatewaySteps == TypeOK /\ [ChainNext]_chain => [G!Next]_(G!vars)
<1> SUFFICES TypeOK /\ [ChainNext]_chain => [G!Next]_gvars
  BY DEF G!vars, gvars
<1>1. ASSUME TypeOK, NEW s \in Senders, Deliver(s)
      PROVE  [G!Next]_gvars
  <2>1. carries[s] \in Msgs
    BY <1>1 DEF TypeOK, Deliver, UpstreamAnswers, Answered, Awaiting
  <2>2. QED  BY <1>1, <2>1 DEF Deliver, G!Next, G!Intake
<1>2. \A s \in Senders : HubUnavailable(s) => UNCHANGED gvars
  BY DEF HubUnavailable
<1>3. BridgeAlone \/ UNCHANGED chain => UNCHANGED gvars
  BY DEF BridgeAlone, chain
<1>4. GatewayAlone => G!Next
  BY DEF GatewayAlone, G!Next
<1>5. QED  BY <1>1, <1>2, <1>3, <1>4 DEF ChainNext

\* Behind the bridge the Gateway behaves as specified alone: repeated and
\* delayed forwards are callbacks that CallbackGateway allows.
THEOREM ChainRunsTheGateway == ChainSpec => G!Spec
  BY GatewaySteps, BridgeKeeps, PTL DEF ChainSpec, ChainInit, G!Spec

\* The same in the terms of the Gateway's proofs.
LEMMA ChainRunsGP == ChainSpec => GP!Spec
<1>1. TypeOK /\ [ChainNext]_chain => [GP!Next]_(GP!vars)
  BY GatewaySteps, SameNext DEF G!vars, GP!vars
<1>2. ChainInit => GP!Init
  BY DEF ChainInit, G!Init, GP!Init
<1>3. QED  BY <1>1, <1>2, BridgeKeeps, PTL DEF ChainSpec, GP!Spec

\* The types and the one-worker invariant of the Gateway, behind the bridge.
LEMMA GatewayKeeps == ChainSpec => [](GP!TypeOK /\ GP!CalmInv)
<1>1. GP!Spec => []GP!TypeOK
  BY GP!GatewayTypeCorrect, GatewayConstantsHold
<1>2. GP!Spec => []GP!CalmInv
  BY GP!CalmHolds, GatewayConstantsHold
<1>3. QED  BY <1>1, <1>2, ChainRunsGP, PTL

-----------------------------------------------------------------------------
(* What relates the two stores.                                            *)

\* Only the answer to a delivery adds to what the Gateway is held to have.
LEMMA AcceptedKept ==
    ASSUME BridgeAlone \/ \E s \in Senders : HubUnavailable(s)
    PROVE  UNCHANGED accepted
  BY DEF BridgeAlone, HubUnavailable, UpstreamAnswers, HandlePost, ReplayLoop, Environment,
    observed, PostPersistFailed, PostDuplicate, PostHeld, PostForward, DirectTransportError,
    DirectSuccess, DirectTransient, DirectReject, DirectEscape, ReplayBegin, ReplayAttempt,
    ReplayTransportError, ReplaySuccess, ReplayRefused, ReplayEnd, ReplayWhileHeld,
    ReplayAbort, Elapse, EnterHold, Resume, Crash, Restart

\* A delivery that is answered 200 leaves a receipt: its own claim's, or the
\* one that made the claim fail.
LEMMA DeliveryLeavesReceipt ==
    ASSUME GP!TypeOK, TypeOK, NEW s \in Senders, Deliver(s), NEW m \in accepted' \ accepted
    PROVE  status'[m] # "none"
<1>1. /\ UpstreamAnswers(s, "ok")
      /\ \/ G!HandleCallback(carries[s])
         \/ ~G!Claimable(carries[s]) /\ UNCHANGED gvars
  BY DEF Deliver, UpstreamAnswers
<1>2. m = carries[s] /\ m \in Msgs
  BY <1>1 DEF UpstreamAnswers, TypeOK, Answered, Awaiting
<1>3. QED  BY <1>1, <1>2 DEF GP!TypeOK, G!HandleCallback, G!Claim, G!Claimable, gvars

\* Every step of bridge, Gateway and Hub keeps a receipt for what was accepted.
LEMMA ReceiptStep ==
  TypeOK /\ GP!TypeOK /\ AcceptedHasReceipt /\ [ChainNext]_chain => AcceptedHasReceipt'
<1> SUFFICES ASSUME TypeOK, GP!TypeOK, AcceptedHasReceipt, [ChainNext]_chain,
                    NEW m \in Msgs, m \in accepted'
             PROVE  status'[m] # "none"
  BY DEF AcceptedHasReceipt
<1>1. CASE m \in accepted
  <2>1. [GP!Next]_(GP!vars)
    BY GatewaySteps, SameNext DEF G!vars, GP!vars
  <2>2. QED  BY <1>1, <2>1, GP!ReceiptsStay, GatewayConstantsHold DEF AcceptedHasReceipt
<1>2. CASE m \notin accepted
  <2>1. PICK s \in Senders : Deliver(s)
    BY <1>2, AcceptedKept DEF ChainNext, GatewayAlone, chain, vars
  <2>2. QED  BY <1>2, <2>1, DeliveryLeavesReceipt
<1>3. QED  BY <1>1, <1>2

\* What the bridge counts as delivered has a receipt in the Gateway, for ever:
\* a claim is committed before the answer, and no recovery removes a row.
THEOREM DeliveredHasReceipt == ChainSpec => []AcceptedHasReceipt
<1>1. ChainInit => AcceptedHasReceipt
  BY DEF ChainInit, Init, AcceptedHasReceipt
<1>2. QED  BY <1>1, ReceiptStep, BridgeKeeps, GatewayKeeps, PTL DEF ChainSpec

\* A callback WeCom was answered 2xx for is in one of the two stores, whichever
\* of the two processes crashes and whichever answer is lost on the way.
THEOREM AckedIsNeverLost == ChainSpec => []AckedIsSomewhere
<1>1. KeepInv /\ AcceptedHasReceipt /\ TypeOK => AckedIsSomewhere
  BY DEF KeepInv, AckedIsKept, Settled, AcceptedHasReceipt, AckedIsSomewhere, TypeOK
<1>2. QED  BY <1>1, BridgeKeeps, DeliveredHasReceipt, PTL

\* The repeated sends of the bridge start no second worker in the Gateway.
THEOREM RepeatsDoNoHarm == ChainSpec => []RepeatsAreAbsorbed
<1>1. GP!TypeOK /\ GP!CalmInv => RepeatsAreAbsorbed
  BY DEF GP!TypeOK, GP!CalmInv, GP!OneCopy, GP!WorkerHoldsClaim, GP!Calm, GP!Copies,
     GP!Queued, RepeatsAreAbsorbed, G!Copies, G!Queued
<1>2. QED  BY <1>1, GatewayKeeps, PTL

-----------------------------------------------------------------------------
(* What the Gateway's proofs give the chain.                               *)

\* End to end, a message that kills the Gateway is run a bounded number of
\* times per delivery, however often the bridge replays it.
THEOREM ChainTurnsBounded == ChainSpec => []G!TurnsAreBounded
<1>1. GP!Spec => []GP!TurnsAreBounded
  BY GP!TurnsBounded, GatewayConstantsHold
<1>2. GP!TurnsAreBounded => G!TurnsAreBounded
  BY DEF G!TurnsAreBounded, GP!TurnsAreBounded, G!Queued, GP!Queued
<1>3. QED  BY <1>1, <1>2, ChainRunsGP, PTL

\* A replay of a message the Gateway has processed starts no turn, whatever
\* the bridge still believes of it.
THEOREM ChainProcessedStays == ChainSpec => G!ProcessedIsFinal
<1>1. GP!Spec => GP!ProcessedIsFinal
  BY GP!ProcessedStays, GatewayConstantsHold
<1>2. GP!ProcessedIsFinal => G!ProcessedIsFinal
  BY DEF G!ProcessedIsFinal, GP!ProcessedIsFinal, G!vars, GP!vars
<1>3. QED  BY <1>1, <1>2, ChainRunsGP, PTL

\* A declared quiescence holds while the bridge goes on forwarding.
THEOREM ChainQuiescence == ChainSpec => []G!QuiescedIsIdle
<1>1. GP!CalmInv => G!QuiescedIsIdle
  BY DEF GP!CalmInv, GP!QuiescedIsIdle, GP!Calm, G!QuiescedIsIdle, G!Calm
<1>2. QED  BY <1>1, GatewayKeeps, PTL
=============================================================================
