---------------------------- MODULE IngressChain ----------------------------
(***************************************************************************)
(* The holding bridge in front of the Gateway.  The upstream answers that  *)
(* HoldingBridge leaves open are here what the Gateway does: 200 for an    *)
(* accepted or a repeated callback, 400 when its claim raises, a transient *)
(* status from the Cloud Hub while the Gateway is not connected.  Every    *)
(* message of the model is a valid callback.                               *)
(***************************************************************************)
EXTENDS HoldingBridge

CONSTANTS MaxAttempts, MaxClaims, GatewayFaults, ClaimsStayFresh

ASSUME ChainConstants ==
    /\ MaxAttempts \in Nat \ {0}
    /\ MaxClaims \in Nat \ {0}
    /\ GatewayFaults \in Nat
    /\ ClaimsStayFresh \in BOOLEAN

VARIABLES status, attempts, processing, stale, foreign, waiting, gate, passed,
          turns, polling, connected, gup, drain, ctl, claims, started, gfaults

G == INSTANCE CallbackGateway
       WITH up <- gup, faults <- gfaults, MaxFaults <- GatewayFaults,
            StableCoversGate <- TRUE, MayReconnect <- FALSE

gvars == <<status, attempts, processing, stale, foreign, waiting, gate, passed,
           turns, polling, connected, gup, drain, ctl, claims, started, gfaults>>
chain == <<vars, gvars>>

ChainInit == Init /\ G!Init

\* _handle_callback runs and its answer reaches the bridge's await.
Deliver(s) ==
    \/ /\ UpstreamAnswers(s, "ok")
       /\ \/ G!HandleCallback(carries[s])
          \/ connected /\ ~G!Claimable(carries[s]) /\ UNCHANGED gvars
    \/ UpstreamAnswers(s, "reject") /\ G!HandleCallbackFault(carries[s])

\* The Hub's answer for a Gateway that is down.
HubUnavailable(s) ==
    /\ ~connected
    /\ UpstreamAnswers(s, "transient")
    /\ UNCHANGED gvars

BridgeAlone ==
    /\ (\E h \in Handlers : HandlePost(h)) \/ ReplayLoop \/ Environment
    /\ UNCHANGED gvars

GatewayAlone ==
    /\ G!Poll \/ G!Turn \/ G!Lifecycle \/ G!Maintenance
         \/ \E m \in Msgs : G!GrowStale(m)
    /\ UNCHANGED vars

ChainNext ==
    \/ \E s \in Senders : Deliver(s) \/ HubUnavailable(s)
    \/ BridgeAlone
    \/ GatewayAlone

ChainSpec == ChainInit /\ [][ChainNext]_chain

-----------------------------------------------------------------------------
(* Fairness: that of the two components, and a Gateway that is reachable   *)
(* infinitely often answers a message that is sent for ever.               *)

Reach(m) == \E s \in Senders : carries[s] = m /\ Deliver(s)

ChainFairness ==
    /\ \A h \in Handlers : WF_chain(DirectReturns(h) /\ UNCHANGED gvars)
    /\ WF_chain(ReplayBegin /\ UNCHANGED gvars)
    /\ WF_chain(\E m \in Msgs : ReplayAttempt(m) /\ UNCHANGED gvars)
    /\ WF_chain(ReplayReturns /\ UNCHANGED gvars)
    /\ WF_chain(ReplayEnd /\ UNCHANGED gvars)
    /\ WF_chain(G!WaitUntilOpen /\ UNCHANGED vars)
    /\ \A m \in Msgs :
         /\ WF_chain(Elapse(m) /\ UNCHANGED gvars)
         /\ SF_chain(Reach(m))
         /\ SF_chain(G!PollTake(m) /\ UNCHANGED vars)
         /\ WF_chain((G!Dispatch(m) \/ G!RefuseLostClaim(m)) /\ UNCHANGED vars)
         /\ WF_chain(G!TurnEnds(m) /\ UNCHANGED vars)

FairChainSpec == ChainSpec /\ ChainFairness

-----------------------------------------------------------------------------
\* What was accepted has a receipt: the bridge counts nothing as delivered that
\* the Gateway does not know, whoever crashes between the two.
AcceptedHasReceipt ==
    \A m \in Msgs : m \in accepted => status[m] # "none"

\* A callback WeCom was answered 2xx for is in the bridge's store or has a
\* receipt in the Gateway; the one exception is a 400 the bridge received.
AckedIsSomewhere ==
    \A m \in acked : row[m] \in Live \/ status[m] # "none" \/ m \in rejected

\* Every answer of the bridge that is lost is repaired by a repeated send, and
\* the repeats start no second worker: at most one, and none for a processed
\* message.
RepeatsAreAbsorbed ==
    ClaimsStayFresh =>
        \A m \in Msgs :
            G!Copies(m) <= 1 /\ (status[m] = "processed" => G!Copies(m) = 0)

\* End to end: once both processes stay up, forwarding and undrained, every
\* acknowledged callback gets its turn, unless the Gateway's store fails or
\* crashes have used up the attempts.
AckedIsRun ==
    <>[](up /\ ~hold /\ gup /\ ~drain) /\ [](gfaults = 0) =>
        \A m \in Msgs :
            (m \in acked) ~> \/ status[m] \in {"processed", "failed"}
                             \/ attempts[m] >= MaxAttempts
=============================================================================
