-------------------------- MODULE ReplyPathProofs --------------------------
(***************************************************************************)
(* Type correctness of ReplyPath and its safety properties, for any number *)
(* of operations, recovery turns and upsets.                               *)
(***************************************************************************)
EXTENDS ReplyPath, FiniteSetTheorems, TLAPS

Sending(o) == drain.pc = "sending" /\ drain.op = o
Claimed(o) == drain.pc = "claimed" /\ drain.op = o

-----------------------------------------------------------------------------
(* The inductive invariant.                                                *)

\* A turn that has not staged its reply has no row, and a row has a text as soon
\* as it is generated.
RowsAreStaged ==
    \A o \in Ops :
        /\ agent[o] \in {"idle", "running", "verified"} => gen[o] = "none"
        /\ gen[o] = "none" => o \notin hold /\ dlv[o] = "not_ready" /\ accepted[o] = 0
        /\ gen[o] = "generated" => text[o] # NoText
        /\ o \in torn => gen[o] # "none" /\ text[o] # NoText

\* A direct turn keeps its reply held until its marker comes back, an Agenda turn
\* until its own next step.
Holds ==
    \A o \in Ops :
        /\ (agent[o] \in {"linking", "marked", "posting", "settled"} /\ gen[o] # "none")
               => o \in hold
        /\ (agent[o] = "plain" /\ kind[o] = "direct") => o \in hold
        /\ (agent[o] = "idle") = (kind[o] = "none")

\* A held reply is neither due nor sent, and has a lease only for generation.
HeldIsIdle ==
    \A o \in hold : /\ dlv[o] \in {"not_ready", "leased", "suppressed"}
                    /\ gen[o] = "generated" => dlv[o] # "leased"
                    /\ ~Sending(o)
                    /\ accepted[o] = 0

\* The reply_id is written when nothing more is staged.
LinkedIsStaged ==
    /\ \A o \in linked : agent[o] \in {"marked", "plain", "done"}
    /\ session \subseteq linked

\* The text came from the turn itself, too late for the lease for generation: the
\* reply is held for good.
Overtaken(o) == gen[o] = "generated" /\ o \in hold /\ agent[o] \in {"plain", "done"}

\* What is generated again has no text yet, or it is out of reach, or its recovery
\* was recorded by half.
Regenerates ==
    /\ \A o \in session : \/ gen[o] \in {"pending_generation", "generation_failed"}
                          \/ Overtaken(o) \/ o \in torn
    /\ \A o \in Ops : Claimed(o) => gen[o] = "pending_generation" \/ Overtaken(o)
    /\ drain.pc \in {"claimed", "sending"} => drain.op \in Ops

\* What is being sent is not held, and has its text and its lease.  Only a reply
\* that is recorded by half may lose them.
SendsLeased ==
    /\ \A o \in Ops : Sending(o) =>
           /\ o \notin hold
           /\ dlv[o] \notin {"delivered", "unknown"}
           /\ dlv[o] = "leased" => gen[o] = "generated"
           /\ dlv[o] = "leased" \/ o \in torn
    /\ \A o \in Ops : (Sending(o) /\ drain.sent) => accepted[o] > 0
    /\ drain.sent => drain.pc = "sending"

\* What the channel has is recorded, about to be, or was cut off.
AcceptedIsKnown ==
    \A o \in Ops : accepted[o] > 0 =>
        /\ o \notin hold
        /\ \/ o \in torn
           \/ /\ gen[o] = "generated"
              /\ \/ o \in broken \/ dlv[o] \in {"delivered", "unknown"}
                 \/ Sending(o) /\ drain.sent

\* Only what has a text is delivered or left to the operator.
DeliveredWasGenerated ==
    \A o \in Ops : dlv[o] \in {"delivered", "unknown"} => gen[o] = "generated"

\* A turn that was answered with a text has no row or a held one, and is over.
ToldIsHeld == \A o \in told : agent[o] = "done" /\ (gen[o] = "none" \/ o \in hold)

\* As long as one turn of a reply runs at a time and note_tool_attempt succeeds,
\* its Tool attempt is on record.
ToolsAreFlagged ==
    /\ session \subseteq leasedRec
    /\ \A o \in Ops \ (overrun \cup unnoted) :
           /\ clean[o] + tooled[o] <= 1
           /\ (tooled[o] > 0 /\ o \in session) => o \in flagged

IInv ==
    /\ TypeOK /\ RowsAreStaged /\ Holds /\ HeldIsIdle /\ LinkedIsStaged /\ Regenerates
    /\ SendsLeased /\ AcceptedIsKnown /\ ToldIsHeld /\ ToolsAreFlagged
    /\ DeliveredWasGenerated /\ DeliveredWasAccepted /\ OneDelivery /\ RecoveredIsToolFree

-----------------------------------------------------------------------------
USE OutboxConstants, PathConstants
    DEF outbox, turnVars, recVars, ghosts, LoopFree, At, With, Sending, Claimed,
        AgentStates, DrainStates, Texts

\* The invariant holds before the first turn.
LEMMA InitEstablishes == Init => IInv
<1> SUFFICES ASSUME Init PROVE IInv
  OBVIOUS
<1> USE DEF Init, OutboxInit
<1>1. TypeOK
  <2>1. OutboxType  BY DEF OutboxType
  <2>2. drain \in [pc : DrainStates, op : Ops \cup {NoOp}, sent : BOOLEAN]
    OBVIOUS
  <2>3. clean \in [Ops -> Nat] /\ tooled \in [Ops -> Nat] /\ accepted \in [Ops -> Nat]
    OBVIOUS
  <2>4. /\ kind \in [Ops -> {"none", "direct", "agenda", "notice"}]
        /\ agent \in [Ops -> AgentStates]
    OBVIOUS
  <2>5. ported \in BOOLEAN
    OBVIOUS
  <2>6. upsets \in 0 .. MaxUpsets
    OBVIOUS
  <2>7. QED  BY <2>1, <2>2, <2>3, <2>4, <2>5, <2>6 DEF TypeOK
<1>2. RowsAreStaged /\ Holds /\ HeldIsIdle /\ LinkedIsStaged
  BY DEF RowsAreStaged, Holds, HeldIsIdle, LinkedIsStaged
<1>3. Regenerates /\ SendsLeased /\ AcceptedIsKnown /\ ToldIsHeld
  BY DEF Regenerates, SendsLeased, AcceptedIsKnown, ToldIsHeld
<1>4. ToolsAreFlagged /\ DeliveredWasGenerated /\ DeliveredWasAccepted /\ OneDelivery
  /\ RecoveredIsToolFree
  BY DEF ToolsAreFlagged, DeliveredWasGenerated, DeliveredWasAccepted, OneDelivery,
    RecoveredIsToolFree
<1>5. QED  BY <1>1, <1>2, <1>3, <1>4 DEF IInv

\* A new row gets a rank.
LEMMA JobsCount == Cardinality(Jobs) \in Nat
  BY FS_Subset, FS_CardinalityType DEF Jobs

\* recover changes leased rows alone, and never makes a held one due.
LEMMA RecoveredIs ==
    ASSUME TypeOK
    PROVE  /\ Recovered \in [Ops -> {"not_ready", "pending", "leased", "delivered",
                                     "blocked", "unknown", "suppressed"}]
           /\ \A o \in Ops : dlv[o] # "leased" => Recovered[o] = dlv[o]
           /\ \A o \in hold : Recovered[o] = dlv[o] \/ Recovered[o] = "not_ready"
  BY DEF TypeOK, OutboxType, Recovered, Ready

\* Between two deliveries, what the channel has is recorded or was cut off.
LEMMA IdleDrain ==
    ASSUME IInv, drain.pc # "sending"
    PROVE  \A o \in Ops : accepted[o] > 0 =>
               /\ o \notin hold
               /\ \/ o \in torn
                  \/ /\ gen[o] = "generated"
                     /\ o \in broken \/ dlv[o] \in {"delivered", "unknown"}
  BY DEF IInv, AcceptedIsKnown

\* The threads of the turns keep the invariant, their stagings of a reply first.
LEMMA StagingKeeps ==
    ASSUME IInv, NEW o \in Ops,
           \/ StageArtifact(o) \/ StagePost(o) \/ NoticeAgenda(o) \/ StageNotice(o)
           \/ \E t \in {"terminal", NoText} : StageTerminal(o, t) \/ SettleAgenda(o, t)
    PROVE  IInv'
<1> USE DEF IInv
<1>1. CASE StageArtifact(o)
  <2> USE <1>1 DEF StageArtifact, Goto, ObserveNotice, Insert, Ready
  <2>1. TypeOK'
    BY JobsCount DEF TypeOK, OutboxType
  <2>2. RowsAreStaged' /\ Holds'
    BY DEF TypeOK, OutboxType, RowsAreStaged, Holds, HeldIsIdle
  <2>3. HeldIsIdle' /\ SendsLeased'
    BY DEF TypeOK, OutboxType, HeldIsIdle, RowsAreStaged, Holds, SendsLeased
  <2>4. LinkedIsStaged' /\ Regenerates'
    BY DEF TypeOK, OutboxType, LinkedIsStaged, Regenerates, Overtaken, HeldIsIdle,
      RowsAreStaged, Holds
  <2>5. AcceptedIsKnown' /\ OneDelivery'
    BY DEF TypeOK, OutboxType, AcceptedIsKnown, RowsAreStaged, SendsLeased, HeldIsIdle,
      OneDelivery
  <2>6. ToldIsHeld' /\ ToolsAreFlagged'
    BY DEF TypeOK, OutboxType, ToldIsHeld, ToolsAreFlagged
  <2>7. DeliveredWasGenerated' /\ DeliveredWasAccepted' /\ RecoveredIsToolFree'
    BY DEF TypeOK, OutboxType, DeliveredWasGenerated, DeliveredWasAccepted,
      RecoveredIsToolFree
  <2>8. QED  BY <2>1, <2>2, <2>3, <2>4, <2>5, <2>6, <2>7
<1>2. CASE StagePost(o)
  <2> USE <1>2 DEF StagePost, Goto, ObserveTerminal, Insert, SetFirstText, Ready
  <2>1. TypeOK'
    BY JobsCount DEF TypeOK, OutboxType
  <2>2. RowsAreStaged' /\ Holds'
    BY DEF TypeOK, OutboxType, RowsAreStaged, Holds, HeldIsIdle
  <2>3. HeldIsIdle' /\ SendsLeased'
    BY DEF TypeOK, OutboxType, HeldIsIdle, RowsAreStaged, Holds, SendsLeased
  <2>4. LinkedIsStaged' /\ Regenerates'
    BY DEF TypeOK, OutboxType, LinkedIsStaged, Regenerates, Overtaken, HeldIsIdle,
      RowsAreStaged, Holds
  <2>5. AcceptedIsKnown' /\ OneDelivery'
    BY DEF TypeOK, OutboxType, AcceptedIsKnown, RowsAreStaged, SendsLeased, HeldIsIdle,
      OneDelivery
  <2>6. ToldIsHeld' /\ ToolsAreFlagged'
    BY DEF TypeOK, OutboxType, ToldIsHeld, ToolsAreFlagged
  <2>7. DeliveredWasGenerated' /\ DeliveredWasAccepted' /\ RecoveredIsToolFree'
    BY DEF TypeOK, OutboxType, DeliveredWasGenerated, DeliveredWasAccepted,
      RecoveredIsToolFree
  <2>8. QED  BY <2>1, <2>2, <2>3, <2>4, <2>5, <2>6, <2>7
<1>3. CASE NoticeAgenda(o)
  <2> USE <1>3 DEF NoticeAgenda, Goto, ObserveNotice, Insert, Ready
  <2>1. TypeOK'
    BY JobsCount DEF TypeOK, OutboxType
  <2>2. RowsAreStaged' /\ Holds'
    BY DEF TypeOK, OutboxType, RowsAreStaged, Holds, HeldIsIdle
  <2>3. HeldIsIdle' /\ SendsLeased'
    BY DEF TypeOK, OutboxType, HeldIsIdle, RowsAreStaged, Holds, SendsLeased
  <2>4. LinkedIsStaged' /\ Regenerates'
    BY DEF TypeOK, OutboxType, LinkedIsStaged, Regenerates, Overtaken, HeldIsIdle,
      RowsAreStaged, Holds
  <2>5. AcceptedIsKnown' /\ OneDelivery'
    BY DEF TypeOK, OutboxType, AcceptedIsKnown, RowsAreStaged, SendsLeased, HeldIsIdle,
      OneDelivery
  <2>6. ToldIsHeld' /\ ToolsAreFlagged'
    BY DEF TypeOK, OutboxType, ToldIsHeld, ToolsAreFlagged
  <2>7. DeliveredWasGenerated' /\ DeliveredWasAccepted' /\ RecoveredIsToolFree'
    BY DEF TypeOK, OutboxType, DeliveredWasGenerated, DeliveredWasAccepted,
      RecoveredIsToolFree
  <2>8. QED  BY <2>1, <2>2, <2>3, <2>4, <2>5, <2>6, <2>7
<1>4. CASE StageNotice(o)
  <2> USE <1>4 DEF StageNotice, Goto, ObserveNotice, Insert, Ready
  <2>1. TypeOK'
    BY JobsCount DEF TypeOK, OutboxType
  <2>2. RowsAreStaged' /\ Holds'
    BY DEF TypeOK, OutboxType, RowsAreStaged, Holds, HeldIsIdle
  <2>3. HeldIsIdle' /\ SendsLeased'
    BY DEF TypeOK, OutboxType, HeldIsIdle, RowsAreStaged, Holds, SendsLeased
  <2>4. LinkedIsStaged' /\ Regenerates'
    BY DEF TypeOK, OutboxType, LinkedIsStaged, Regenerates, Overtaken, HeldIsIdle,
      RowsAreStaged, Holds
  <2>5. AcceptedIsKnown' /\ OneDelivery'
    BY DEF TypeOK, OutboxType, AcceptedIsKnown, RowsAreStaged, SendsLeased, HeldIsIdle,
      OneDelivery
  <2>6. ToldIsHeld' /\ ToolsAreFlagged'
    BY DEF TypeOK, OutboxType, ToldIsHeld, ToolsAreFlagged
  <2>7. DeliveredWasGenerated' /\ DeliveredWasAccepted' /\ RecoveredIsToolFree'
    BY DEF TypeOK, OutboxType, DeliveredWasGenerated, DeliveredWasAccepted,
      RecoveredIsToolFree
  <2>8. QED  BY <2>1, <2>2, <2>3, <2>4, <2>5, <2>6, <2>7
<1>5. ASSUME NEW t \in {"terminal", NoText}, StageTerminal(o, t) PROVE IInv'
  <2> USE <1>5 DEF StageTerminal, ObserveTerminal, Insert, SetFirstText, Ready
  <2>1. TypeOK'
    BY JobsCount DEF TypeOK, OutboxType
  <2>2. RowsAreStaged' /\ Holds'
    BY DEF TypeOK, OutboxType, RowsAreStaged, Holds, HeldIsIdle
  <2>3. HeldIsIdle' /\ SendsLeased'
    BY DEF TypeOK, OutboxType, HeldIsIdle, RowsAreStaged, Holds, SendsLeased
  <2>4. LinkedIsStaged' /\ Regenerates'
    BY DEF TypeOK, OutboxType, LinkedIsStaged, Regenerates, Overtaken, HeldIsIdle,
      RowsAreStaged, Holds
  <2>5. AcceptedIsKnown' /\ OneDelivery'
    BY DEF TypeOK, OutboxType, AcceptedIsKnown, RowsAreStaged, SendsLeased, HeldIsIdle,
      OneDelivery
  <2>6. ToldIsHeld' /\ ToolsAreFlagged'
    BY DEF TypeOK, OutboxType, ToldIsHeld, ToolsAreFlagged
  <2>7. DeliveredWasGenerated' /\ DeliveredWasAccepted' /\ RecoveredIsToolFree'
    BY DEF TypeOK, OutboxType, DeliveredWasGenerated, DeliveredWasAccepted,
      RecoveredIsToolFree
  <2>8. QED  BY <2>1, <2>2, <2>3, <2>4, <2>5, <2>6, <2>7
<1>6. ASSUME NEW t \in {"terminal", NoText}, SettleAgenda(o, t) PROVE IInv'
  <2> USE <1>6 DEF SettleAgenda, Goto, ObserveTerminal, Insert, SetFirstText, Ready
  <2>1. TypeOK'
    BY JobsCount DEF TypeOK, OutboxType
  <2>2. RowsAreStaged' /\ Holds'
    BY DEF TypeOK, OutboxType, RowsAreStaged, Holds, HeldIsIdle
  <2>3. HeldIsIdle' /\ SendsLeased'
    BY DEF TypeOK, OutboxType, HeldIsIdle, RowsAreStaged, Holds, SendsLeased
  <2>4. LinkedIsStaged' /\ Regenerates'
    BY DEF TypeOK, OutboxType, LinkedIsStaged, Regenerates, Overtaken, HeldIsIdle,
      RowsAreStaged, Holds
  <2>5. AcceptedIsKnown' /\ OneDelivery'
    BY DEF TypeOK, OutboxType, AcceptedIsKnown, RowsAreStaged, SendsLeased, HeldIsIdle,
      OneDelivery
  <2>6. ToldIsHeld' /\ ToolsAreFlagged'
    BY DEF TypeOK, OutboxType, ToldIsHeld, ToolsAreFlagged
  <2>7. DeliveredWasGenerated' /\ DeliveredWasAccepted' /\ RecoveredIsToolFree'
    BY DEF TypeOK, OutboxType, DeliveredWasGenerated, DeliveredWasAccepted,
      RecoveredIsToolFree
  <2>8. QED  BY <2>1, <2>2, <2>3, <2>4, <2>5, <2>6, <2>7
<1>7. QED  BY <1>1, <1>2, <1>3, <1>4, <1>5, <1>6

\* The steps of the turn threads keep the invariant.
LEMMA TurnStepKeeps ==
    ASSUME IInv, NEW o \in Ops, TurnStep(o)
    PROVE  IInv'
<1> USE DEF IInv, TypeOK, OutboxType, RowsAreStaged, Holds, HeldIsIdle, LinkedIsStaged,
  Regenerates, Overtaken, SendsLeased, AcceptedIsKnown, ToldIsHeld, ToolsAreFlagged,
  DeliveredWasGenerated, DeliveredWasAccepted, OneDelivery, RecoveredIsToolFree
<1>1. CASE ObserveReceipt(o)
  BY <1>1 DEF ObserveReceipt, Goto
<1>2. CASE StageFails(o)
  BY <1>2 DEF StageFails, Goto, Upset
<1>3. CASE LinkReply(o)
  BY <1>3 DEF LinkReply, Goto
<1>4. CASE SendPlain(o)
  BY <1>4 DEF SendPlain, Goto
<1>5. CASE HandOff(o)
  BY <1>5 DEF HandOff, Goto, ReleaseHold, Ready
<1>6. CASE MarkerLost(o)
  BY <1>6 DEF MarkerLost, Goto
<1>7. CASE ReleaseAgenda(o)
  BY <1>7 DEF ReleaseAgenda, Goto, ReleaseHold, Ready
<1>8. CASE LinkAgenda(o)
  BY <1>8 DEF LinkAgenda, Goto
<1>9. CASE EndAgenda(o)
  BY <1>9 DEF EndAgenda, Goto
<1>10. CASE FinishNotice(o)
  BY <1>10 DEF FinishNotice, Goto, Suppress, Suppressible
<1>11. CASE \E k \in {"direct", "agenda"} : StartTurn(o, k)
  BY <1>11 DEF StartTurn, Goto
<1>12. QED
  BY <1>1, <1>2, <1>3, <1>4, <1>5, <1>6, <1>7, <1>8, <1>9, <1>10, <1>11, StagingKeeps DEF
    TurnStep

\* The drain loop keeps the invariant: the claim of a delivery first.
LEMMA NothingToDeliverKeeps ==
    ASSUME IInv, NothingToDeliver
    PROVE  IInv'
<1> USE DEF IInv, NothingToDeliver, AtDelivery, Recover
<1>1. \A o \in Ops : dlv[o] \in {"delivered", "unknown"} => dlv'[o] = dlv[o]
  BY RecoveredIs
<1>2. AcceptedIsKnown'
  BY <1>1, IdleDrain DEF AcceptedIsKnown
<1>3. TypeOK'
  BY DEF TypeOK, OutboxType, Recovered, Ready
<1>4. RowsAreStaged'
  BY DEF TypeOK, OutboxType, RowsAreStaged, Holds, HeldIsIdle, Recovered, Ready
<1>5. Holds'
  BY DEF TypeOK, OutboxType, Holds, RowsAreStaged, Recovered, Ready
<1>6. HeldIsIdle'
  BY DEF TypeOK, OutboxType, HeldIsIdle, RowsAreStaged, Holds, SendsLeased, Recovered, Ready
<1>7. SendsLeased'
  BY DEF TypeOK, OutboxType, SendsLeased, HeldIsIdle, RowsAreStaged, Recovered, Ready
<1>8. LinkedIsStaged' /\ Regenerates'
  BY DEF TypeOK, OutboxType, LinkedIsStaged, Regenerates, Overtaken, HeldIsIdle,
    RowsAreStaged, Holds, Recovered, Ready
<1>9. OneDelivery'
  BY DEF TypeOK, OutboxType, OneDelivery, AcceptedIsKnown, SendsLeased, Recovered, Ready
<1>10. ToldIsHeld' /\ ToolsAreFlagged'
  BY DEF TypeOK, OutboxType, ToldIsHeld, ToolsAreFlagged, Recovered, Ready
<1>11. DeliveredWasGenerated' /\ DeliveredWasAccepted'
  BY DEF TypeOK, OutboxType, DeliveredWasGenerated, DeliveredWasAccepted, Recovered, Ready
<1>12. RecoveredIsToolFree'
  BY DEF TypeOK, OutboxType, RecoveredIsToolFree, Recovered, Ready
<1>13. QED  BY <1>2, <1>3, <1>4, <1>5, <1>6, <1>7, <1>8, <1>9, <1>10, <1>11, <1>12

\* A reply parked for want of a port keeps the invariant.
LEMMA ClaimUnportedKeeps ==
    ASSUME IInv, NEW o \in Ops, ClaimUnported(o)
    PROVE  IInv'
<1> USE DEF IInv, ClaimUnported, AtDelivery
<1>1. \A p \in Ops : dlv[p] \in {"delivered", "unknown"} => dlv'[p] = dlv[p]
  BY RecoveredIs DEF Oldest, Deliverable
<1>2. AcceptedIsKnown'
  BY <1>1, IdleDrain DEF AcceptedIsKnown
<1>3. TypeOK'
  BY DEF TypeOK, OutboxType, Oldest, Deliverable, Recovered, Ready
<1>4. RowsAreStaged'
  BY DEF TypeOK, OutboxType, RowsAreStaged, Holds, HeldIsIdle, Oldest, Deliverable,
    Recovered, Ready
<1>5. Holds'
  BY DEF TypeOK, OutboxType, Holds, RowsAreStaged, Oldest, Deliverable, Recovered, Ready
<1>6. HeldIsIdle'
  BY DEF TypeOK, OutboxType, HeldIsIdle, RowsAreStaged, Holds, SendsLeased, Oldest,
    Deliverable, Recovered, Ready
<1>7. SendsLeased'
  BY DEF TypeOK, OutboxType, SendsLeased, HeldIsIdle, RowsAreStaged, Oldest, Deliverable,
    Recovered, Ready
<1>8. LinkedIsStaged' /\ Regenerates'
  BY DEF TypeOK, OutboxType, LinkedIsStaged, Regenerates, Overtaken, HeldIsIdle,
    RowsAreStaged, Holds, Oldest, Deliverable, Recovered, Ready
<1>9. OneDelivery'
  BY DEF TypeOK, OutboxType, OneDelivery, AcceptedIsKnown, SendsLeased, Oldest, Deliverable,
    Recovered, Ready
<1>10. ToldIsHeld' /\ ToolsAreFlagged'
  BY DEF TypeOK, OutboxType, ToldIsHeld, ToolsAreFlagged, Oldest, Deliverable, Recovered,
    Ready
<1>11. DeliveredWasGenerated' /\ DeliveredWasAccepted'
  BY DEF TypeOK, OutboxType, DeliveredWasGenerated, DeliveredWasAccepted, Oldest,
    Deliverable, Recovered, Ready
<1>12. RecoveredIsToolFree'
  BY DEF TypeOK, OutboxType, RecoveredIsToolFree, Oldest, Deliverable, Recovered, Ready
<1>13. QED  BY <1>2, <1>3, <1>4, <1>5, <1>6, <1>7, <1>8, <1>9, <1>10, <1>11, <1>12

\* A reply claimed for delivery was released, has a text and is not held.
LEMMA ClaimDeliveryKeeps ==
    ASSUME IInv, NEW o \in Ops, ClaimDelivery(o)
    PROVE  IInv'
<1> USE DEF IInv, ClaimDelivery, Claim, AtDelivery
<1>1. \A p \in Ops : dlv[p] \in {"delivered", "unknown"} => dlv'[p] = dlv[p]
  BY RecoveredIs DEF Oldest, Deliverable
<1>2. AcceptedIsKnown'
  BY <1>1, IdleDrain DEF AcceptedIsKnown
<1>3. TypeOK'
  BY DEF TypeOK, OutboxType, Oldest, Deliverable, Recovered, Ready
<1>4. RowsAreStaged'
  BY DEF TypeOK, OutboxType, RowsAreStaged, Holds, HeldIsIdle, Oldest, Deliverable,
    Recovered, Ready
<1>5. Holds'
  BY DEF TypeOK, OutboxType, Holds, RowsAreStaged, Oldest, Deliverable, Recovered, Ready
<1>6. HeldIsIdle'
  BY DEF TypeOK, OutboxType, HeldIsIdle, RowsAreStaged, Holds, SendsLeased, Oldest,
    Deliverable, Recovered, Ready
<1>7. SendsLeased'
  BY DEF TypeOK, OutboxType, SendsLeased, HeldIsIdle, RowsAreStaged, Oldest, Deliverable,
    Recovered, Ready
<1>8. LinkedIsStaged' /\ Regenerates'
  BY DEF TypeOK, OutboxType, LinkedIsStaged, Regenerates, Overtaken, HeldIsIdle,
    RowsAreStaged, Holds, Oldest, Deliverable, Recovered, Ready
<1>9. OneDelivery'
  BY DEF TypeOK, OutboxType, OneDelivery, AcceptedIsKnown, SendsLeased, Oldest, Deliverable,
    Recovered, Ready
<1>10. ToldIsHeld' /\ ToolsAreFlagged'
  BY DEF TypeOK, OutboxType, ToldIsHeld, ToolsAreFlagged, Oldest, Deliverable, Recovered,
    Ready
<1>11. DeliveredWasGenerated' /\ DeliveredWasAccepted'
  BY DEF TypeOK, OutboxType, DeliveredWasGenerated, DeliveredWasAccepted, Oldest,
    Deliverable, Recovered, Ready
<1>12. RecoveredIsToolFree'
  BY DEF TypeOK, OutboxType, RecoveredIsToolFree, Oldest, Deliverable, Recovered, Ready
<1>13. QED  BY <1>2, <1>3, <1>4, <1>5, <1>6, <1>7, <1>8, <1>9, <1>10, <1>11, <1>12

\* A claimed reply without its reply_id: the lease is its own, or nothing is
\* written.  Had its turn staged a text meanwhile, the lease would be gone.
LEMMA AbandonKeeps ==
    ASSUME IInv, NEW o \in Ops, AbandonUnlinked(o)
    PROVE  IInv'
<1>1. CASE UNCHANGED outbox /\ drain' = At("generate")
  BY <1>1 DEF IInv, TypeOK, OutboxType, RowsAreStaged, Holds, HeldIsIdle, LinkedIsStaged,
    Regenerates, Overtaken, SendsLeased, AcceptedIsKnown, ToldIsHeld, ToolsAreFlagged,
    DeliveredWasGenerated, DeliveredWasAccepted, OneDelivery, RecoveredIsToolFree,
    AbandonUnlinked
<1>2. CASE CompleteGeneration(o, FALSE) /\ drain' = At("deliver")
  <2>1. /\ gen' = [gen EXCEPT ![o] = "generation_failed"]
        /\ dlv' = [dlv EXCEPT ![o] = "not_ready"]
        /\ text' = [text EXCEPT ![o] = text[o]]
        /\ unported' = unported \ {o} /\ lapsed' = lapsed \ {o}
        /\ dlv[o] = "leased"
        /\ UNCHANGED <<hold, born>>
    BY <1>2 DEF CompleteGeneration, Finish
  <2>2. gen[o] = "pending_generation"
    BY <2>1 DEF IInv, Regenerates, Overtaken, AbandonUnlinked, HeldIsIdle
  <2>3. accepted[o] = 0 \/ (o \in torn /\ o \notin hold)
    BY <2>2 DEF IInv, AcceptedIsKnown, TypeOK
  <2>4. TypeOK'
    <3>1. OutboxType'  BY <2>1 DEF IInv, TypeOK, OutboxType
    <3>2. QED  BY <1>2, <3>1 DEF IInv, TypeOK, AbandonUnlinked
  <2>5. \A p \in Ops \ {o} : gen'[p] = gen[p] /\ dlv'[p] = dlv[p]
    BY <2>1 DEF IInv, TypeOK, OutboxType
  <2>6. AcceptedIsKnown'
    BY <2>1, <2>3, <2>5, IdleDrain DEF IInv, AcceptedIsKnown, AbandonUnlinked
  <2>7. ToldIsHeld'
    BY <2>1, <2>2, <2>5 DEF IInv, ToldIsHeld, AbandonUnlinked, TypeOK
  <2>8. QED
    BY <1>2, <2>1, <2>2, <2>3, <2>4, <2>6, <2>7 DEF IInv, TypeOK, OutboxType, RowsAreStaged,
      Holds, HeldIsIdle, LinkedIsStaged, Regenerates, Overtaken, SendsLeased,
      AcceptedIsKnown, ToldIsHeld, ToolsAreFlagged, DeliveredWasGenerated,
      DeliveredWasAccepted, OneDelivery,
      RecoveredIsToolFree, AbandonUnlinked
<1>3. QED  BY <1>1, <1>2 DEF AbandonUnlinked

\* The steps of the drain loop keep the invariant.
LEMMA DrainKeeps ==
    ASSUME IInv, DrainStep
    PROVE  IInv'
<1> USE DEF IInv, TypeOK, OutboxType, RowsAreStaged, Holds, HeldIsIdle, LinkedIsStaged,
  Regenerates, Overtaken, SendsLeased, AcceptedIsKnown, ToldIsHeld, ToolsAreFlagged,
  DeliveredWasGenerated, DeliveredWasAccepted, OneDelivery, RecoveredIsToolFree
<1>1. ASSUME NEW o \in Ops, ClaimRecovery(o) PROVE IInv'
  BY <1>1 DEF ClaimRecovery, Generable, Claim, Oldest, Recovered, Ready
<1>2. ASSUME NEW o \in Ops, BeginRecovery(o) PROVE IInv'
  BY <1>2 DEF BeginRecovery, Correlate
<1>3. ASSUME NEW o \in Ops, DeliveryReturns(o) PROVE IInv'
  BY <1>3 DEF DeliveryReturns, Outcomes, CompleteDelivery, Finish
<1>4. ASSUME NEW o \in Ops, OutcomeRefused(o) PROVE IInv'
  BY <1>4 DEF OutcomeRefused
<1>5. QED
  BY <1>1, <1>2, <1>3, <1>4, NothingToDeliverKeeps, ClaimUnportedKeeps, ClaimDeliveryKeeps,
    AbandonKeeps DEF DrainStep

\* The channel accepts what is being sent.
LEMMA ChannelKeeps ==
    ASSUME IInv, NEW o \in Ops, ChannelAccepts(o)
    PROVE  IInv'
<1> USE DEF IInv, ChannelAccepts
<1>1. TypeOK'
  <2>1. OutboxType'  BY DEF TypeOK, OutboxType
  <2>2. accepted' \in [Ops -> Nat]  BY DEF TypeOK
  <2>3. drain' \in [pc : DrainStates, op : Ops \cup {NoOp}, sent : BOOLEAN]
    BY DEF TypeOK
  <2>4. QED  BY <2>1, <2>2, <2>3 DEF TypeOK
<1>2. RowsAreStaged'
  <2>1. gen[o] # "none"  BY DEF SendsLeased, RowsAreStaged
  <2>2. \A p \in Ops : p # o => accepted'[p] = accepted[p]  BY DEF TypeOK
  <2>3. QED  BY <2>1, <2>2 DEF RowsAreStaged
<1>3. Holds'
  BY DEF TypeOK, OutboxType, Holds, RowsAreStaged
<1>4. HeldIsIdle'
  BY DEF TypeOK, OutboxType, HeldIsIdle, RowsAreStaged, Holds, SendsLeased
<1>5. SendsLeased'
  BY DEF TypeOK, OutboxType, SendsLeased, HeldIsIdle, RowsAreStaged
<1>6. LinkedIsStaged' /\ Regenerates'
  BY DEF TypeOK, OutboxType, LinkedIsStaged, Regenerates, Overtaken, HeldIsIdle,
    RowsAreStaged, Holds
<1>7. AcceptedIsKnown'
  BY DEF TypeOK, OutboxType, AcceptedIsKnown, RowsAreStaged, SendsLeased, HeldIsIdle
<1>8. OneDelivery'
  BY DEF TypeOK, OutboxType, OneDelivery, AcceptedIsKnown, SendsLeased
<1>9. ToldIsHeld' /\ ToolsAreFlagged'
  BY DEF TypeOK, OutboxType, ToldIsHeld, ToolsAreFlagged
<1>10. DeliveredWasGenerated' /\ DeliveredWasAccepted'
  BY DEF TypeOK, OutboxType, DeliveredWasGenerated, DeliveredWasAccepted
<1>11. RecoveredIsToolFree'
  BY DEF TypeOK, OutboxType, RecoveredIsToolFree
<1>12. QED  BY <1>1, <1>2, <1>3, <1>4, <1>5, <1>6, <1>7, <1>8, <1>9, <1>10, <1>11

\* A crash ends every turn and the drain loop, and leaves the outbox.
LEMMA CrashKeeps ==
    ASSUME IInv, Crash
    PROVE  IInv'
<1> USE DEF IInv, Crash
<1>1. TypeOK'
  <2>1. OutboxType'  BY DEF TypeOK, OutboxType
  <2>2. agent' \in [Ops -> {"idle", "done"}]  BY DEF TypeOK
  <2>3. drain' \in [pc : DrainStates, op : Ops \cup {NoOp}, sent : BOOLEAN]
    BY DEF TypeOK
  <2>4. broken' \in SUBSET Ops /\ upsets' \in 0 .. MaxUpsets
    BY DEF TypeOK, CutOff, Upset, Regenerates
  <2>5. clean' \in [Ops -> Nat] /\ tooled' \in [Ops -> Nat]
    OBVIOUS
  <2>6. QED  BY <2>1, <2>2, <2>3, <2>4, <2>5 DEF TypeOK
<1>2. RowsAreStaged'
  BY DEF TypeOK, OutboxType, RowsAreStaged, Holds, HeldIsIdle, CutOff
<1>3. Holds'
  BY DEF TypeOK, OutboxType, Holds, RowsAreStaged, CutOff
<1>4. HeldIsIdle'
  BY DEF TypeOK, OutboxType, HeldIsIdle, RowsAreStaged, Holds, SendsLeased, CutOff
<1>5. SendsLeased'
  BY DEF TypeOK, OutboxType, SendsLeased, HeldIsIdle, RowsAreStaged, CutOff
<1>6. LinkedIsStaged' /\ Regenerates'
  BY DEF TypeOK, OutboxType, LinkedIsStaged, Regenerates, Overtaken, HeldIsIdle,
    RowsAreStaged, Holds, CutOff
<1>7. AcceptedIsKnown'
  BY DEF TypeOK, OutboxType, AcceptedIsKnown, RowsAreStaged, SendsLeased, HeldIsIdle, CutOff
<1>8. OneDelivery'
  BY DEF TypeOK, OutboxType, OneDelivery, AcceptedIsKnown, SendsLeased, CutOff
<1>9. ToldIsHeld' /\ ToolsAreFlagged'
  BY DEF TypeOK, OutboxType, ToldIsHeld, ToolsAreFlagged, CutOff
<1>10. DeliveredWasGenerated' /\ DeliveredWasAccepted'
  BY DEF TypeOK, OutboxType, DeliveredWasGenerated, DeliveredWasAccepted, CutOff
<1>11. RecoveredIsToolFree'
  BY DEF TypeOK, OutboxType, RecoveredIsToolFree, CutOff
<1>12. QED  BY <1>1, <1>2, <1>3, <1>4, <1>5, <1>6, <1>7, <1>8, <1>9, <1>10, <1>11

\* Recovery turns, time and the operator keep the invariant.
LEMMA RecoveryKeeps ==
    ASSUME IInv, NEW o \in Ops,
           TryTool(o) \/ TurnEnds(o) \/ TurnErrs(o) \/ OutcomeUnwritten(o) \/ Lapse(o)
               \/ Reconcile(o) \/ Requeue(o)
    PROVE  IInv'
<1> USE DEF IInv, TypeOK, OutboxType, RowsAreStaged, Holds, HeldIsIdle, LinkedIsStaged,
  Regenerates, Overtaken, SendsLeased, AcceptedIsKnown, ToldIsHeld, ToolsAreFlagged,
  DeliveredWasGenerated, DeliveredWasAccepted, OneDelivery, RecoveredIsToolFree
<1>1. CASE TryTool(o)
  BY <1>1 DEF TryTool
<1>2. CASE OutcomeUnwritten(o)
  BY <1>2 DEF OutcomeUnwritten, Upset
<1>3. CASE Lapse(o)
  BY <1>3 DEF Lapse
<1>4. CASE Reconcile(o)
  BY <1>4 DEF Reconcile, ReconcileUnknown, Upset
<1>5. CASE Requeue(o)
  BY <1>5 DEF Requeue, RequeueGeneration, Upset
<1>6. ASSUME NEW b \in BOOLEAN, ReplyRecovered(o, b) PROVE IInv'
  BY <1>6 DEF ReplyRecovered, Uncorrelate, EndTurn, CompleteGeneration, Finish, Ready
<1>7. ASSUME NEW b \in BOOLEAN, RecoveryFailed(o, b) PROVE IInv'
  BY <1>7 DEF RecoveryFailed, Uncorrelate, EndTurn, CompleteGeneration, Finish, Ready
<1>8. ASSUME NEW b \in BOOLEAN, RecoveryDropped(o, b) PROVE IInv'
  BY <1>8 DEF RecoveryDropped, EndTurn
<1>9. CASE TryToolUnnoted(o)
  BY <1>9 DEF TryToolUnnoted, Upset
<1>10. ASSUME NEW b \in BOOLEAN, ReplyHalfRecovered(o, b) PROVE IInv'
  BY <1>10 DEF ReplyHalfRecovered, EndTurn, CompleteGeneration, Finish, Ready, Upset
<1>11. ASSUME NEW b \in BOOLEAN, RecoveryHalfFailed(o, b) PROVE IInv'
  BY <1>11 DEF RecoveryHalfFailed, EndTurn, CompleteGeneration, Finish, Ready, Upset
<1>12. QED
  BY <1>1, <1>2, <1>3, <1>4, <1>5, <1>6, <1>7, <1>8, <1>9, <1>10, <1>11 DEF TurnEnds,
    TurnErrs

\* Every step keeps the invariant.
LEMMA NextKeeps == IInv /\ [Next]_vars => IInv'
<1> SUFFICES ASSUME IInv, [Next]_vars PROVE IInv'
  OBVIOUS
<1>1. CASE Connect
  BY <1>1 DEF Connect, IInv, TypeOK, OutboxType, RowsAreStaged, Holds, HeldIsIdle,
    LinkedIsStaged, Regenerates, Overtaken, SendsLeased, AcceptedIsKnown, ToldIsHeld,
    ToolsAreFlagged, DeliveredWasGenerated, DeliveredWasAccepted, OneDelivery,
    RecoveredIsToolFree
<1>2. CASE RegisterPort
  BY <1>2 DEF RegisterPort, RequeueBlocked, IInv, TypeOK, OutboxType, RowsAreStaged, Holds,
    HeldIsIdle, LinkedIsStaged, Regenerates, Overtaken, SendsLeased, AcceptedIsKnown,
    ToldIsHeld, ToolsAreFlagged, DeliveredWasGenerated, DeliveredWasAccepted, OneDelivery,
    RecoveredIsToolFree
<1>3. CASE Disconnect
  <2> USE <1>3 DEF IInv, Disconnect, Upset, CutOff
  <2>1. TypeOK'
    <3>1. OutboxType'  BY DEF TypeOK, OutboxType
    <3>2. drain' \in [pc : DrainStates, op : Ops \cup {NoOp}, sent : BOOLEAN]
      BY DEF TypeOK
    <3>3. broken' \in SUBSET Ops /\ upsets' \in 0 .. MaxUpsets
      BY DEF TypeOK, Regenerates
    <3>4. QED  BY <3>1, <3>2, <3>3 DEF TypeOK
  <2>2. RowsAreStaged'
    BY DEF TypeOK, OutboxType, RowsAreStaged, Holds, HeldIsIdle
  <2>3. Holds'
    BY DEF TypeOK, OutboxType, Holds, RowsAreStaged
  <2>4. HeldIsIdle'
    BY DEF TypeOK, OutboxType, HeldIsIdle, RowsAreStaged, Holds, SendsLeased
  <2>5. SendsLeased'
    BY DEF TypeOK, OutboxType, SendsLeased, HeldIsIdle, RowsAreStaged
  <2>6. LinkedIsStaged' /\ Regenerates'
    BY DEF TypeOK, OutboxType, LinkedIsStaged, Regenerates, Overtaken, HeldIsIdle,
      RowsAreStaged, Holds
  <2>7. AcceptedIsKnown'
    BY DEF TypeOK, OutboxType, AcceptedIsKnown, RowsAreStaged, SendsLeased, HeldIsIdle
  <2>8. OneDelivery'
    BY DEF TypeOK, OutboxType, OneDelivery, AcceptedIsKnown, SendsLeased
  <2>9. ToldIsHeld' /\ ToolsAreFlagged'
    BY DEF TypeOK, OutboxType, ToldIsHeld, ToolsAreFlagged
  <2>10. DeliveredWasGenerated' /\ DeliveredWasAccepted'
    BY DEF TypeOK, OutboxType, DeliveredWasGenerated, DeliveredWasAccepted
  <2>11. RecoveredIsToolFree'
    BY DEF TypeOK, OutboxType, RecoveredIsToolFree
  <2>12. QED  BY <2>1, <2>2, <2>3, <2>4, <2>5, <2>6, <2>7, <2>8, <2>9, <2>10, <2>11
<1>4. CASE UNCHANGED vars
  BY <1>4 DEF vars, IInv, TypeOK, OutboxType, RowsAreStaged, Holds, HeldIsIdle,
    LinkedIsStaged, Regenerates, Overtaken, SendsLeased, AcceptedIsKnown, ToldIsHeld,
    ToolsAreFlagged, DeliveredWasGenerated, DeliveredWasAccepted, OneDelivery,
    RecoveredIsToolFree
<1>5. CASE IterationFails
  BY <1>5 DEF IterationFails, Correlate, Upset, IInv, TypeOK, OutboxType, RowsAreStaged,
    Holds, HeldIsIdle, LinkedIsStaged, Regenerates, Overtaken, SendsLeased,
    AcceptedIsKnown, ToldIsHeld, ToolsAreFlagged, DeliveredWasGenerated,
    DeliveredWasAccepted, OneDelivery,
    RecoveredIsToolFree
<1>6. QED
  BY <1>1, <1>2, <1>3, <1>4, <1>5, DrainKeeps, CrashKeeps, TurnStepKeeps, RecoveryKeeps,
    ChannelKeeps DEF Next

\* The inductive invariant of the reply path holds in every behaviour.
LEMMA Invariance == Spec => []IInv
  BY InitEstablishes, NextKeeps, PTL DEF Spec

-----------------------------------------------------------------------------
(* The theorems.                                                           *)

\* Every variable keeps its type, the reply_id of a turn and the phases of its
\* thread, the drain loop and the recovery turns included.
THEOREM TypeCorrect == Spec => []TypeOK
<1>1. IInv => TypeOK  BY DEF IInv
<1>2. QED  BY <1>1, Invariance, PTL

\* A reply held for the marker of its turn never reaches the channel: recover and
\* complete_generation leave it not_ready, and a staging that overwrites the
\* lease for generation leaves it not_ready too.
THEOREM HeldStays == Spec => []HeldIsNotSent
<1>1. IInv => HeldIsNotSent  BY DEF IInv, HeldIsIdle, HeldIsNotSent
<1>2. QED  BY <1>1, Invariance, PTL

\* A user who got a text of the gateway gets no reply of the outbox: a late or
\* lost marker leaves its reply held for good.
THEOREM OneAnswer == Spec => []OneVisibleReply
<1>1. IInv => OneVisibleReply
  BY DEF IInv, TypeOK, ToldIsHeld, HeldIsIdle, RowsAreStaged, OneVisibleReply
<1>2. QED  BY <1>1, Invariance, PTL

\* The channel accepts a reply once, unless the outcome of a send was lost with
\* the drain loop or finish_recovery wrote one of its two records alone.
THEOREM DeliversOnce == Spec => []OneDelivery
<1>1. IInv => OneDelivery  BY DEF IInv
<1>2. QED  BY <1>1, Invariance, PTL

\* What is recorded as delivered was accepted by the channel.
THEOREM DeliveryIsReal == Spec => []DeliveredWasAccepted
<1>1. IInv => DeliveredWasAccepted  BY DEF IInv
<1>2. QED  BY <1>1, Invariance, PTL

\* No late recovery turn, staging or release takes the lease of a reply that is
\* being sent, unless finish_recovery wrote one of its two records alone.
THEOREM LeaseOutlivesSend == Spec => []SendingKeepsLease
<1>1. IInv => SendingKeepsLease
  BY DEF IInv, Regenerates, SendsLeased, SendingKeepsLease
<1>2. QED  BY <1>1, Invariance, PTL

\* A staging finds its reply held or without a row: nothing was accepted yet.
LEMMA StagingKeepsText ==
    ASSUME IInv, NEW o \in Ops,
           \/ StageArtifact(o) \/ StagePost(o) \/ NoticeAgenda(o) \/ StageNotice(o)
           \/ \E t \in {"terminal", NoText} : StageTerminal(o, t) \/ SettleAgenda(o, t)
    PROVE  \A p \in Ops \ torn :
               accepted[p] > 0 => text'[p] = text[p] /\ gen'[p] = gen[p]
<1>1. \/ UNCHANGED <<gen, text>>
      \/ /\ accepted[o] = 0
         /\ \A p \in Ops : p # o => text'[p] = text[p] /\ gen'[p] = gen[p]
  <2>1. agent[o] \in {"idle", "running", "verified", "posting"}
    BY DEF StageArtifact, StagePost, NoticeAgenda, StageNotice, StageTerminal, SettleAgenda,
      Goto
  <2>2. accepted[o] = 0
    BY <2>1 DEF IInv, RowsAreStaged, Holds, HeldIsIdle
  <2>3. \/ UNCHANGED <<gen, text>>
        \/ \A p \in Ops : p # o => text'[p] = text[p] /\ gen'[p] = gen[p]
    BY DEF IInv, TypeOK, OutboxType, StageArtifact, StagePost, NoticeAgenda, StageNotice,
      StageTerminal, SettleAgenda, ObserveTerminal, ObserveNotice, Insert, SetFirstText
  <2>4. QED  BY <2>2, <2>3
<1>2. QED  BY <1>1

\* What writes an outcome finds a reply in its hands that was not accepted, or
\* leaves its text.
LEMMA OutcomesKeepText ==
    ASSUME IInv, NEW o \in Ops,
           \/ AbandonUnlinked(o) \/ DeliveryReturns(o) \/ Requeue(o) \/ TurnEnds(o)
           \/ TurnErrs(o)
    PROVE  \A p \in Ops \ torn :
               accepted[p] > 0 => text'[p] = text[p] /\ gen'[p] = gen[p]
<1> USE DEF IInv, TypeOK, OutboxType
<1>1. CASE AbandonUnlinked(o)
  BY <1>1 DEF AbandonUnlinked, CompleteGeneration, Finish, Regenerates, Overtaken,
    HeldIsIdle, AcceptedIsKnown
<1>2. CASE DeliveryReturns(o)
  BY <1>2 DEF DeliveryReturns, CompleteDelivery, Finish, SendsLeased
<1>3. CASE Requeue(o)
  BY <1>3 DEF Requeue, RequeueGeneration, AcceptedIsKnown
<1>4. ASSUME NEW b \in BOOLEAN,
             \/ ReplyRecovered(o, b) \/ RecoveryFailed(o, b)
             \/ ReplyHalfRecovered(o, b) \/ RecoveryHalfFailed(o, b)
      PROVE  /\ accepted[o] = 0 \/ o \in torn
             /\ \A p \in Ops : p # o => text'[p] = text[p] /\ gen'[p] = gen[p]
  BY <1>4 DEF ReplyRecovered, RecoveryFailed, ReplyHalfRecovered, RecoveryHalfFailed,
    CompleteGeneration, Finish, Regenerates, Overtaken, HeldIsIdle, AcceptedIsKnown
<1>5. ASSUME NEW b \in BOOLEAN, RecoveryDropped(o, b) PROVE UNCHANGED <<gen, text>>
  BY <1>5 DEF RecoveryDropped
<1>6. CASE TryToolUnnoted(o)
  BY <1>6 DEF TryToolUnnoted
<1>7. QED  BY <1>1, <1>2, <1>3, <1>4, <1>5, <1>6 DEF TurnEnds, TurnErrs

\* Once the channel may have a reply, no late turn, staging or operator call
\* changes its text or generates it again, unless its recovery was recorded by
\* half.
THEOREM TextStays == Spec => TextIsFinal
<1>1. ASSUME IInv, Next
      PROVE  \A o \in Ops \ torn :
                 accepted[o] > 0 => text'[o] = text[o] /\ gen'[o] = gen[o]
  <2>1. CASE \/ Connect \/ RegisterPort \/ Disconnect \/ Crash \/ NothingToDeliver
             \/ IterationFails
    BY <2>1 DEF IterationFails, Connect, RegisterPort, RequeueBlocked, Disconnect, Crash,
      NothingToDeliver,
      Recover
  <2>2. ASSUME NEW o \in Ops,
               \/ ClaimRecovery(o) \/ BeginRecovery(o) \/ ClaimDelivery(o) \/
                 ClaimUnported(o)
               \/ TryTool(o) \/ ChannelAccepts(o) \/ OutcomeUnwritten(o) \/ Lapse(o)
               \/ Reconcile(o) \/ OutcomeRefused(o)
        PROVE  UNCHANGED <<gen, text>>
    BY <2>2 DEF OutcomeRefused, ClaimRecovery, BeginRecovery, ClaimDelivery,
      ClaimUnported, Claim, TryTool,
      ChannelAccepts, OutcomeUnwritten, Lapse, Reconcile, ReconcileUnknown
  <2>3. ASSUME NEW o \in Ops,
               \/ \E k \in {"direct", "agenda"} : StartTurn(o, k)
               \/ ObserveReceipt(o) \/ StageFails(o) \/ LinkReply(o) \/ SendPlain(o)
               \/ HandOff(o) \/ MarkerLost(o) \/ ReleaseAgenda(o) \/ LinkAgenda(o)
               \/ EndAgenda(o) \/ FinishNotice(o)
        PROVE  UNCHANGED <<gen, text>>
    BY <2>3 DEF StartTurn, ObserveReceipt, StageFails, LinkReply, SendPlain, HandOff,
      ReleaseHold, MarkerLost, ReleaseAgenda, LinkAgenda, EndAgenda, FinishNotice, Suppress
  <2>4. QED
    BY <1>1, <2>1, <2>2, <2>3, StagingKeepsText, OutcomesKeepText DEF Next, DrainStep,
      TurnStep
<1>2. IInv /\ [Next]_vars =>
          [\A o \in Ops \ torn :
               accepted[o] > 0 => text'[o] = text[o] /\ gen'[o] = gen[o]]_vars
  BY <1>1
<1>3. QED  BY <1>2, Invariance, PTL DEF Spec, TextIsFinal

\* A recovered text comes from a turn without a Tool attempt, unless a turn of
\* the same reply outlived its lease or note_tool_attempt failed.
THEOREM RecoveryIsToolFree == Spec => []RecoveredIsToolFree
<1>1. IInv => RecoveredIsToolFree  BY DEF IInv
<1>2. QED  BY <1>1, Invariance, PTL
-----------------------------------------------------------------------------
(* ReplyPath implements ReplyPromise: the state that the promise speaks of. *)

Open      == {o \in Ops : gen[o] # "none" /\ o \notin hold}
Confirmed == {o \in Ops : dlv[o] = "delivered"}

\* Nothing of the promise changes.
Silent == UNCHANGED <<text, Open, told, accepted, broken, torn, Confirmed>>

\* A staging writes a reply that nobody has seen, and releases it only if it is
\* held for no marker, when its turn is not over and its user has no answer yet.
LEMMA StagingWrites ==
    ASSUME IInv, NEW o \in Ops,
           \/ StageArtifact(o) \/ StagePost(o) \/ NoticeAgenda(o) \/ StageNotice(o)
           \/ \E t \in {"terminal", NoText} : StageTerminal(o, t) \/ SettleAgenda(o, t)
    PROVE  Promise!Next
<1>1. /\ agent[o] \in {"idle", "running", "verified", "posting"}
      /\ UNCHANGED <<told, accepted, broken, torn>>
  BY DEF StageArtifact, StagePost, NoticeAgenda, StageNotice, StageTerminal, SettleAgenda,
    Goto
<1>2. accepted[o] = 0 /\ o \notin told /\ dlv[o] # "delivered"
  BY <1>1 DEF IInv, TypeOK, RowsAreStaged, Holds, HeldIsIdle, ToldIsHeld,
    DeliveredWasAccepted
<1>3. /\ \A p \in Ops \ {o} : text'[p] = text[p] /\ gen'[p] = gen[p] /\ dlv'[p] = dlv[p]
      /\ dlv'[o] # "delivered"
  BY <1>2 DEF IInv, TypeOK, OutboxType, StageArtifact, StagePost, NoticeAgenda,
    StageNotice, StageTerminal, SettleAgenda, ObserveTerminal, ObserveNotice, Insert,
    SetFirstText, Ready
<1>4. Confirmed' = Confirmed
  BY <1>2, <1>3 DEF Confirmed
<1>5. Promise!Write(o)
  BY <1>1, <1>2, <1>3, <1>4 DEF Promise!Write, Confirmed
<1>6. Open' = Open \/ Open' = Open \cup {o}
  <2>1. hold' = hold \/ hold' = hold \cup {o}
    BY DEF StageArtifact, StagePost, NoticeAgenda, StageNotice, StageTerminal,
      SettleAgenda, ObserveTerminal, ObserveNotice, Insert, SetFirstText
  <2>2. hold' # hold => gen[o] = "none"
    BY DEF StageArtifact, StagePost, NoticeAgenda, StageNotice, StageTerminal,
      SettleAgenda, ObserveTerminal, ObserveNotice, Insert, SetFirstText
  <2>3. gen[o] # "none" => gen'[o] # "none"
    BY DEF IInv, TypeOK, OutboxType, StageArtifact, StagePost, NoticeAgenda, StageNotice,
      StageTerminal, SettleAgenda, ObserveTerminal, ObserveNotice, Insert, SetFirstText
  <2>4. QED  BY <1>3, <2>1, <2>2, <2>3 DEF Open
<1>7. QED  BY <1>2, <1>5, <1>6 DEF Promise!Next, Promise!Release, Open

\* A hold is released by a thread whose turn is not over: nobody else answered.
LEMMA HandOffReleases ==
    ASSUME IInv, NEW o \in Ops, HandOff(o) \/ ReleaseAgenda(o)
    PROVE  Promise!Next
<1>1. /\ agent[o] # "done" /\ o \in hold /\ hold' = hold \ {o}
      /\ UNCHANGED <<gen, text, told, accepted, broken, torn>>
      /\ dlv' = [dlv EXCEPT ![o] = Ready(gen[o] # "generated")]
  BY DEF HandOff, ReleaseAgenda, Goto, ReleaseHold
<1>2. accepted[o] = 0 /\ o \notin told /\ dlv[o] # "delivered" /\ gen[o] # "none"
  BY <1>1 DEF IInv, HeldIsIdle, ToldIsHeld, RowsAreStaged
<1>3. Confirmed' = Confirmed
  BY <1>1, <1>2 DEF IInv, TypeOK, OutboxType, Confirmed, Ready
<1>4. Open' = Open \cup {o}
  BY <1>1, <1>2 DEF Open
<1>5. Promise!Write(o)
  BY <1>1, <1>2, <1>3 DEF Promise!Write, Confirmed
<1>6. QED  BY <1>2, <1>4, <1>5 DEF Promise!Next, Promise!Release, Open

\* The gateway answers on its own only a turn whose reply is held or missing.
LEMMA GatewayTells ==
    ASSUME IInv, NEW o \in Ops, SendPlain(o) \/ MarkerLost(o)
    PROVE  Promise!Next
<1>1. /\ kind[o] = "direct" /\ agent[o] \in {"running", "plain", "marked"}
      /\ told' = told \cup {o}
      /\ UNCHANGED <<outbox, accepted, broken, torn>>
  BY DEF SendPlain, MarkerLost, Goto
<1>2. o \notin Open
  BY <1>1 DEF IInv, RowsAreStaged, Holds, Open
<1>3. Promise!Tell(o)
  BY <1>1, <1>2 DEF Promise!Tell, Open
<1>4. QED  BY <1>3 DEF Promise!Next

\* What the channel accepts is released, unconfirmed and has a text, and the
\* channel does not have it yet, unless a send of it was cut off or its recovery
\* was recorded by half.
LEMMA ChannelSends ==
    ASSUME IInv, NEW o \in Ops, ChannelAccepts(o)
    PROVE  Promise!Next
<1>1. /\ Sending(o) /\ ~drain.sent
      /\ accepted' = [accepted EXCEPT ![o] = @ + 1]
      /\ UNCHANGED <<outbox, told, broken, torn>>
  BY DEF ChannelAccepts
<1>2. gen[o] # "none" /\ dlv[o] \notin {"delivered", "unknown"} /\ o \notin hold
  BY <1>1 DEF IInv, SendsLeased, RowsAreStaged
<1>3. text[o] # NoText
  BY <1>1 DEF IInv, SendsLeased, RowsAreStaged
<1>4. accepted[o] = 0 \/ o \in broken \cup torn
  BY <1>1, <1>2 DEF IInv, TypeOK, AcceptedIsKnown
<1>5. Promise!Send(o)
  BY <1>1, <1>2, <1>3, <1>4 DEF Promise!Send
<1>6. QED  BY <1>5 DEF Promise!Next

\* A send is cut off by a crash, a disconnect or an outcome that is not written.
LEMMA UpsetsCut ==
    ASSUME IInv, Disconnect \/ Crash \/ (\E o \in Ops : OutcomeUnwritten(o))
    PROVE  Promise!Next \/ Silent
<1>1. /\ UNCHANGED <<outbox, told, accepted, torn>>
      /\ broken' = CutOff
  BY DEF Disconnect, Crash, OutcomeUnwritten, CutOff
<1>2. CASE drain.pc # "sending"
  BY <1>1, <1>2 DEF CutOff, Silent, Open, Confirmed
<1>3. CASE drain.pc = "sending"
  <2>1. PICK o \in Ops : o = drain.op
    BY <1>3 DEF IInv, Regenerates
  <2>2. gen[o] # "none" /\ dlv[o] # "delivered" /\ o \notin hold
    BY <1>3, <2>1 DEF IInv, SendsLeased, RowsAreStaged
  <2>3. Promise!Cut(o)
    BY <1>1, <1>3, <2>1, <2>2 DEF Promise!Cut, CutOff
  <2>4. QED  BY <2>3 DEF Promise!Next
<1>4. QED  BY <1>2, <1>3

\* The outcome of a send and the evidence of the operator confirm a reply only if
\* the channel has it.
LEMMA OutcomesConfirm ==
    ASSUME IInv, NEW o \in Ops, DeliveryReturns(o) \/ Reconcile(o)
    PROVE  Promise!Next \/ Silent
<1>1. UNCHANGED <<hold, told, accepted, broken, torn>>
  BY DEF DeliveryReturns, CompleteDelivery, Finish, Reconcile, ReconcileUnknown
<1>2. UNCHANGED <<gen, text>>
  BY DEF IInv, TypeOK, OutboxType, DeliveryReturns, CompleteDelivery, Finish, SendsLeased,
    Reconcile, ReconcileUnknown
<1>3. /\ dlv[o] # "delivered" /\ \A p \in Ops \ {o} : dlv'[p] = dlv[p]
      /\ dlv'[o] = "delivered" => accepted[o] > 0
  BY DEF IInv, TypeOK, OutboxType, SendsLeased, DeliveryReturns, Outcomes,
    CompleteDelivery, Finish, Reconcile, ReconcileUnknown
<1>4. CASE dlv'[o] = "delivered"
  <2>1. Confirmed' = Confirmed \cup {o}  BY <1>3, <1>4 DEF Confirmed
  <2>2. Promise!Confirm(o)
    BY <1>1, <1>2, <1>3, <1>4, <2>1 DEF Promise!Confirm, Confirmed
  <2>3. QED  BY <2>2 DEF Promise!Next
<1>5. CASE dlv'[o] # "delivered"
  <2>1. Confirmed' = Confirmed  BY <1>3, <1>5 DEF Confirmed
  <2>2. Open' = Open  BY <1>1, <1>2 DEF Open
  <2>3. QED  BY <1>1, <1>2, <2>1, <2>2 DEF Silent
<1>6. QED  BY <1>4, <1>5

\* A recovery turn and the loss of one write a reply that the channel has not, or
\* one that is recorded by half.
LEMMA RecoveryWrites ==
    ASSUME IInv, NEW o \in Ops,
           AbandonUnlinked(o) \/ Requeue(o) \/ TurnEnds(o) \/ TurnErrs(o)
    PROVE  Promise!Next \/ Silent
<1> USE DEF IInv, TypeOK, OutboxType
<1>1. ASSUME NEW ok \in BOOLEAN, CompleteGeneration(o, ok),
             \/ gen[o] \in {"pending_generation", "generation_failed"}
             \/ Overtaken(o) \/ o \in torn,
             torn' \in {torn, torn \cup {o}},
             UNCHANGED <<told, accepted, broken>>
      PROVE  Promise!Next
  <2>1. /\ accepted[o] = 0 \/ o \in torn
        /\ gen[o] # "none" /\ gen'[o] # "none" /\ hold' = hold
    BY <1>1 DEF CompleteGeneration, Finish, Overtaken, HeldIsIdle, AcceptedIsKnown,
      RowsAreStaged
  <2>2. /\ \A p \in Ops \ {o} : text'[p] = text[p] /\ gen'[p] = gen[p] /\ dlv'[p] = dlv[p]
        /\ dlv[o] # "delivered" /\ dlv'[o] # "delivered"
    BY <1>1 DEF CompleteGeneration, Finish, Ready
  <2>3. Open' = Open /\ Confirmed' = Confirmed
    BY <2>1, <2>2 DEF Open, Confirmed
  <2>4. Promise!Write(o)
    BY <1>1, <2>1, <2>2, <2>3 DEF Promise!Write, Confirmed
  <2>5. QED  BY <2>3, <2>4 DEF Promise!Next, Open
<1>2. CASE AbandonUnlinked(o)
  <2>1. CASE CompleteGeneration(o, FALSE)
    <3>1. /\ gen[o] = "pending_generation" \/ Overtaken(o)
          /\ UNCHANGED <<told, accepted, broken, torn>>
      BY <1>2 DEF AbandonUnlinked, Regenerates
    <3>2. QED  BY <1>1, <2>1, <3>1
  <2>2. CASE UNCHANGED outbox
    BY <1>2, <2>2 DEF AbandonUnlinked, Silent, Open, Confirmed
  <2>3. QED  BY <1>2, <2>1, <2>2 DEF AbandonUnlinked
<1>3. CASE Requeue(o)
  <2>1. /\ gen[o] # "none" /\ gen'[o] # "none"
        /\ \A p \in Ops \ {o} : gen'[p] = gen[p] /\ dlv'[p] = dlv[p]
        /\ UNCHANGED <<hold, text, told, accepted, broken, torn>>
    BY <1>3 DEF Requeue, RequeueGeneration
  <2>2. CASE dlv[o] = "delivered"
    BY <1>3, <2>2 DEF Requeue, RequeueGeneration, DeliveredWasGenerated
  <2>3. CASE dlv[o] # "delivered"
    BY <1>3, <2>1, <2>3 DEF Requeue, RequeueGeneration, Silent, Open, Confirmed
  <2>4. QED  BY <2>2, <2>3
<1>4. ASSUME NEW b \in BOOLEAN, ReplyRecovered(o, b) \/ ReplyHalfRecovered(o, b)
      PROVE  Promise!Next
  <2>1. /\ CompleteGeneration(o, TRUE) /\ o \in session
        /\ torn' \in {torn, torn \cup {o}}
        /\ UNCHANGED <<told, accepted, broken>>
    BY <1>4 DEF ReplyRecovered, ReplyHalfRecovered
  <2>2. QED  BY <1>1, <2>1 DEF Regenerates
<1>5. ASSUME NEW b \in BOOLEAN, RecoveryFailed(o, b) \/ RecoveryHalfFailed(o, b)
      PROVE  Promise!Next
  <2>1. /\ CompleteGeneration(o, FALSE) /\ o \in session
        /\ UNCHANGED <<told, accepted, broken, torn>>
    BY <1>5 DEF RecoveryFailed, RecoveryHalfFailed
  <2>2. QED  BY <1>1, <2>1 DEF Regenerates
<1>6. ASSUME NEW b \in BOOLEAN, RecoveryDropped(o, b) PROVE Silent
  BY <1>6 DEF RecoveryDropped, Silent, Open, Confirmed
<1>7. CASE TryToolUnnoted(o)
  BY <1>7 DEF TryToolUnnoted, Silent, Open, Confirmed
<1>8. QED  BY <1>2, <1>3, <1>4, <1>5, <1>6, <1>7 DEF TurnEnds, TurnErrs

\* Claims, recover, ports, lapses, suppression and the steps of a turn that stage
\* nothing leave what the user sees and what counts as delivered.
LEMMA OthersAreSilent ==
    ASSUME IInv,
           \/ Connect \/ RegisterPort \/ NothingToDeliver \/ IterationFails
           \/ \E o \in Ops :
                 \/ \E k \in {"direct", "agenda"} : StartTurn(o, k)
                 \/ ObserveReceipt(o) \/ StageFails(o) \/ LinkReply(o) \/ LinkAgenda(o)
                 \/ EndAgenda(o) \/ FinishNotice(o) \/ ClaimRecovery(o) \/ BeginRecovery(o)
                 \/ ClaimDelivery(o) \/ ClaimUnported(o) \/ TryTool(o) \/ Lapse(o)
                 \/ OutcomeRefused(o)
    PROVE  Silent
<1>1. UNCHANGED <<gen, hold, text, told, accepted, broken, torn>>
  BY DEF IterationFails, OutcomeRefused, Connect, RegisterPort, RequeueBlocked,
    NothingToDeliver, Recover, StartTurn,
    ObserveReceipt, StageFails, LinkReply, LinkAgenda, EndAgenda, FinishNotice, Suppress,
    ClaimRecovery, Claim, BeginRecovery, ClaimDelivery, ClaimUnported, TryTool, Lapse
<1>2. Confirmed' = Confirmed
  <2>1. CASE UNCHANGED dlv  BY <2>1 DEF Confirmed
  <2>2. CASE RegisterPort
    BY <2>2 DEF RegisterPort, RequeueBlocked, IInv, TypeOK, OutboxType, Confirmed
  <2>3. \A o \in Ops : (Recovered[o] = "delivered") = (dlv[o] = "delivered")
    BY DEF Recovered, Ready
  <2>4. CASE NothingToDeliver
    BY <2>3, <2>4 DEF NothingToDeliver, Recover, Confirmed
  <2>5. ASSUME NEW o \in Ops, ClaimRecovery(o) \/ ClaimDelivery(o) \/ ClaimUnported(o)
        PROVE  Confirmed' = Confirmed
    <3>1. Recovered[o] # "delivered"
      BY <2>5 DEF ClaimRecovery, ClaimDelivery, ClaimUnported, Claim, Oldest, Generable,
        Deliverable
    <3>2. /\ dlv'[o] # "delivered"
          /\ \A p \in Ops \ {o} : dlv'[p] = Recovered[p]
      BY <2>5, RecoveredIs DEF IInv, ClaimRecovery, ClaimDelivery, ClaimUnported, Claim
    <3>3. QED  BY <2>3, <3>1, <3>2 DEF Confirmed
  <2>6. ASSUME NEW o \in Ops, FinishNotice(o) PROVE Confirmed' = Confirmed
    BY <2>6 DEF FinishNotice, Suppress, Suppressible, IInv, TypeOK, OutboxType, Confirmed
  <2>7. QED
    BY <2>1, <2>2, <2>4, <2>5, <2>6 DEF Connect, StartTurn, ObserveReceipt, StageFails,
      LinkReply, LinkAgenda, EndAgenda, BeginRecovery, TryTool, Lapse, IterationFails,
      OutcomeRefused
<1>3. Open' = Open  BY <1>1 DEF Open
<1>4. QED  BY <1>1, <1>2, <1>3 DEF Silent

\* Every step of the reply path is a step of the promise or leaves it alone.
LEMMA PromiseStep == IInv /\ [Next]_vars => [Promise!Next]_(Promise!promise)
<1> SUFFICES ASSUME IInv, [Next]_vars PROVE Promise!Next \/ Silent
  BY DEF Silent, Open, Confirmed, Promise!promise
<1>1. CASE UNCHANGED vars
  BY <1>1 DEF vars, Silent, Open, Confirmed
<1>2. CASE Connect \/ RegisterPort \/ IterationFails \/ Disconnect \/ Crash
  BY <1>2, OthersAreSilent, UpsetsCut
<1>3. CASE DrainStep
  BY <1>3, OthersAreSilent, OutcomesConfirm, RecoveryWrites DEF DrainStep
<1>4. ASSUME NEW o \in Ops, TurnStep(o) PROVE Promise!Next \/ Silent
  BY <1>4, OthersAreSilent, StagingWrites, HandOffReleases, GatewayTells DEF TurnStep
<1>5. ASSUME NEW o \in Ops,
             \/ TryTool(o) \/ TurnEnds(o) \/ TurnErrs(o) \/ ChannelAccepts(o)
             \/ OutcomeUnwritten(o) \/ Lapse(o) \/ Reconcile(o) \/ Requeue(o)
      PROVE  Promise!Next \/ Silent
  BY <1>5, OthersAreSilent, RecoveryWrites, ChannelSends, UpsetsCut, OutcomesConfirm
<1>6. QED  BY <1>1, <1>2, <1>3, <1>4, <1>5 DEF Next

\* The reply path keeps the promise of ReplyPromise: the user of a turn gets one
\* answer, from the gateway or from the outbox, sent once unless the record of a
\* send was cut off or that of its recovery written by half, with one text but for
\* the latter, and confirmed only if the channel accepted it.
THEOREM PathKeepsPromise == Spec => ImplementsPromise
<1>1. Init => Promise!Init
  BY DEF Init, OutboxInit, Promise!Init
<1>2. QED
  BY <1>1, PromiseStep, Invariance, PTL DEF Spec, ImplementsPromise, Promise!Spec

=============================================================================
