----------------------------- MODULE ReplyPath -----------------------------
(***************************************************************************)
(* The way of a reply from the end of a turn to the channel:               *)
(*                                                                         *)
(*  - the Agent threads of direct, Agenda and notice turns, whose hooks    *)
(*    stage the reply in the outbox (direct_reply_recovery.py and the      *)
(*    hooks of tuoguan_core/__init__.py);                                  *)
(*  - the gateway, which gets a control marker instead of a text and       *)
(*    releases the held reply;                                             *)
(*  - the drain loop of ReplyRecoveryAdapter, which starts zero-Tool turns *)
(*    for replies without a text and sends the replies that are due.       *)
(*                                                                         *)
(* direct_reply_turns lies in a database of its own: the reply_id of a     *)
(* turn is written after the outbox has committed the job.  What runs in   *)
(* the event loop without an await is one step unless it spans a           *)
(* transaction of another thread that matters.  The robot channel, which   *)
(* releases a held reply also when a client asks again, and an Agenda turn *)
(* that ends while its timeout is being handled are left out.              *)
(***************************************************************************)
EXTENDS ReplyOutbox

CONSTANTS
    NoOp,               \* no job in the hands of the drain loop
    Sources,            \* what may stage each operation
    MaxTurns,           \* recovery turns of one reply that run at a time
    MaxUpsets,          \* crashes, disconnects, SQLite errors, operator calls
    AuthorityDenies     \* whether proactive messages lack their authorization

ASSUME PathConstants ==
    /\ NoOp \notin Ops
    /\ Sources \in [Ops -> SUBSET {"direct", "agenda", "notice"}]
    /\ MaxTurns \in Nat \ {0}
    /\ MaxUpsets \in Nat
    /\ AuthorityDenies \in BOOLEAN

VARIABLES
    kind,       \* what staged an operation: "direct", "agenda", "notice"
    agent,      \* where the thread of its turn is
    linked,     \* rows of direct_reply_turns with their reply_id
    leasedRec,  \* rows with recovery_state = 'leased'
    flagged,    \* rows with tool_attempted = 1
    session,    \* chats in _session_for_chat of the recovery adapter
    clean,      \* recovery turns that run and have tried no Tool
    tooled,     \* recovery turns that run and have tried one
    drain,      \* where the drain loop is, and with which job
    ported,     \* whether a delivery port is registered
    upsets,     \* upsets so far
    told,       \* direct turns answered with a text of their own
    accepted,   \* how often the channel has accepted the reply
    broken,     \* replies whose sending was cut off by a crash or disconnect
    torn,       \* replies recovered without the second of the two records
    overrun,    \* replies with a recovery turn that outlived its lease
    unnoted,    \* replies with a Tool attempt that could not be recorded
    soiled      \* replies recovered by a turn that had tried a Tool

turnVars  == <<kind, agent, linked>>
recVars   == <<leasedRec, flagged, session, clean, tooled>>
ghosts    == <<told, accepted, broken, torn, overrun, unnoted, soiled>>
vars      == <<outbox, turnVars, recVars, drain, ported, upsets, ghosts>>

AgentStates == {"idle", "running", "verified", "linking", "marked", "posting",
                "plain", "settled", "released", "done"}
DrainStates == {"off", "generate", "claimed", "deliver", "sending"}

At(pc)     == [pc |-> pc, op |-> NoOp, sent |-> FALSE]
With(pc, o) == [pc |-> pc, op |-> o, sent |-> FALSE]

TypeOK ==
    /\ OutboxType
    /\ kind \in [Ops -> {"none", "direct", "agenda", "notice"}]
    /\ agent \in [Ops -> AgentStates]
    /\ linked \in SUBSET Ops
    /\ leasedRec \in SUBSET Ops
    /\ flagged \in SUBSET Ops
    /\ session \in SUBSET Ops
    /\ clean \in [Ops -> Nat]
    /\ tooled \in [Ops -> Nat]
    /\ drain \in [pc : DrainStates, op : Ops \cup {NoOp}, sent : BOOLEAN]
    /\ ported \in BOOLEAN
    /\ upsets \in 0 .. MaxUpsets
    /\ told \in SUBSET Ops
    /\ accepted \in [Ops -> Nat]
    /\ broken \in SUBSET Ops
    /\ torn \in SUBSET Ops
    /\ overrun \in SUBSET Ops
    /\ unnoted \in SUBSET Ops
    /\ soiled \in SUBSET Ops

Init ==
    /\ OutboxInit
    /\ kind = [o \in Ops |-> "none"]
    /\ agent = [o \in Ops |-> "idle"]
    /\ linked = {}
    /\ leasedRec = {}
    /\ flagged = {}
    /\ session = {}
    /\ clean = [o \in Ops |-> 0]
    /\ tooled = [o \in Ops |-> 0]
    /\ drain = At("off")
    /\ ported = FALSE
    /\ upsets = 0
    /\ told = {}
    /\ accepted = [o \in Ops |-> 0]
    /\ broken = {}
    /\ torn = {}
    /\ overrun = {}
    /\ unnoted = {}
    /\ soiled = {}

Upset == upsets < MaxUpsets /\ upsets' = upsets + 1

\* claim_recovery does not await: what else runs in the event loop waits.
LoopFree == drain.pc # "claimed"

Goto(o, from, to) == agent[o] = from /\ agent' = [agent EXCEPT ![o] = to]

-----------------------------------------------------------------------------
(* The threads of the turns.                                               *)

\* capture_direct_turn and capture_agenda_turn: the row of the turn exists
\* before any Tool result.
StartTurn(o, k) ==
    /\ k \in Sources[o]
    /\ Goto(o, "idle", "running")
    /\ kind' = [kind EXCEPT ![o] = k]
    /\ UNCHANGED <<outbox, linked, recVars, drain, ported, upsets, ghosts>>

\* observe_verified_receipt.
ObserveReceipt(o) ==
    /\ Goto(o, "running", "verified")
    /\ UNCHANGED <<outbox, kind, linked, recVars, drain, ported, upsets, ghosts>>

\* stage_tool_delivery_artifact: the text of the Tool is held and linked; its
\* marker is returned by the transform hook instead of any other reply.
StageArtifact(o) ==
    /\ kind[o] = "direct"
    /\ Goto(o, "running", "linking")
    /\ ObserveNotice(o, "terminal", TRUE)
    /\ UNCHANGED <<kind, linked, recVars, drain, ported, upsets, ghosts>>

\* Seeded fault: the reply of a direct turn is staged without its hold.
StageTerminalUnheld(o, t) ==
    /\ kind[o] = "direct"
    /\ agent[o] = "verified"
    /\ \/ agent' = [agent EXCEPT ![o] = "linking"]
       \/ t = NoText /\ agent' = [agent EXCEPT ![o] = "posting"]
    /\ ObserveTerminal(o, t, FALSE)
    /\ UNCHANGED <<kind, linked, recVars, drain, ported, upsets, ghosts>>

\* stage_terminal, called by the transform hook with a usable text or none: a
\* marker is returned, unless a framework notice or a provider failure ended
\* the turn, which has a visible text of its own.
StageTerminal(o, t) ==
    /\ kind[o] = "direct"
    /\ agent[o] = "verified"
    /\ \/ agent' = [agent EXCEPT ![o] = "linking"]
       \/ t = NoText /\ agent' = [agent EXCEPT ![o] = "posting"]
    /\ ObserveTerminal(o, t, TRUE)
    /\ UNCHANGED <<kind, linked, recVars, drain, ported, upsets, ghosts>>

\* stage_terminal again, from the post hook, when no marker was returned.
StagePost(o) ==
    /\ Goto(o, "posting", "plain")
    /\ ObserveTerminal(o, "terminal", TRUE)
    /\ linked' = linked \cup {o}
    /\ UNCHANGED <<kind, recVars, drain, ported, upsets, ghosts>>

\* _stage_direct_reply_terminal swallows an SQLite error: the text goes out as
\* it is, and the post hook stages it once more.
StageFails(o) ==
    /\ kind[o] = "direct"
    /\ Upset
    /\ Goto(o, "verified", "posting") \/ Goto(o, "linking", "posting")
    /\ UNCHANGED <<outbox, kind, linked, recVars, drain, ported, ghosts>>

\* The UPDATE of direct_reply_turns.reply_id that follows the staging.
LinkReply(o) ==
    /\ Goto(o, "linking", "marked")
    /\ linked' = linked \cup {o}
    /\ UNCHANGED <<outbox, kind, recVars, drain, ported, upsets, ghosts>>

\* The gateway sends a text that is no marker.
SendPlain(o) ==
    /\ LoopFree
    /\ kind[o] = "direct"
    /\ Goto(o, "running", "done") \/ Goto(o, "plain", "done")
    /\ told' = told \cup {o}
    /\ UNCHANGED <<outbox, kind, linked, recVars, drain, ported, upsets,
                   accepted, broken, torn, overrun, unnoted, soiled>>

\* send of the WeCom adapter with a marker: release_wecom_callback_handoff.
HandOff(o) ==
    /\ LoopFree
    /\ Goto(o, "marked", "done")
    /\ ReleaseHold(o)
    /\ UNCHANGED <<kind, linked, recVars, drain, ported, upsets, ghosts>>

\* The callback timed out: the user got the failure reply, and the marker of
\* the late turn reaches nobody.
MarkerLost(o) ==
    /\ LoopFree
    /\ kind[o] = "direct"
    /\ Goto(o, "marked", "done")
    /\ told' = told \cup {o}
    /\ UNCHANGED <<outbox, kind, linked, recVars, drain, ported, upsets,
                   accepted, broken, torn, overrun, unnoted, soiled>>

\* stage_agenda_ticket_terminal with a verified receipt: the prepared message
\* or none, held, and released by the next transaction of the same thread.
SettleAgenda(o, t) ==
    /\ kind[o] = "agenda"
    /\ Goto(o, "verified", "settled")
    /\ ObserveTerminal(o, t, TRUE)
    /\ UNCHANGED <<kind, linked, recVars, drain, ported, upsets, ghosts>>

ReleaseAgenda(o) ==
    /\ Goto(o, "settled", "released")
    /\ ReleaseHold(o)
    /\ UNCHANGED <<kind, linked, recVars, drain, ported, upsets, ghosts>>

LinkAgenda(o) ==
    /\ Goto(o, "released", "done")
    /\ linked' = linked \cup {o}
    /\ UNCHANGED <<outbox, kind, recVars, drain, ported, upsets, ghosts>>

\* Without a receipt an Agenda turn leaves its prepared message, or nothing.
NoticeAgenda(o) ==
    /\ kind[o] = "agenda"
    /\ Goto(o, "running", "released")
    /\ ObserveNotice(o, "terminal", FALSE)
    /\ UNCHANGED <<kind, linked, recVars, drain, ported, upsets, ghosts>>

EndAgenda(o) ==
    /\ kind[o] = "agenda"
    /\ Goto(o, "running", "done")
    /\ UNCHANGED <<outbox, kind, linked, recVars, drain, ported, upsets, ghosts>>

\* stage_proactive_notice and stage_human_command_notice.
StageNotice(o) ==
    /\ "notice" \in Sources[o]
    /\ Goto(o, "idle", "plain")
    /\ kind' = [kind EXCEPT ![o] = "notice"]
    /\ ObserveNotice(o, "terminal", FALSE)
    /\ UNCHANGED <<linked, recVars, drain, ported, upsets, ghosts>>

\* The state of the candidate is written and verified, or the notice is
\* suppressed, which fails once its delivery has begun.
FinishNotice(o) ==
    /\ kind[o] = "notice"
    /\ Goto(o, "plain", "done")
    /\ UNCHANGED outbox \/ Suppress(o)
    /\ UNCHANGED <<kind, linked, recVars, drain, ported, upsets, ghosts>>

-----------------------------------------------------------------------------
(* The drain loop of ReplyRecoveryAdapter.                                 *)

\* connect starts the loop; a port may be registered before or later, by
\* this adapter or by the WeCom adapter.
Connect ==
    /\ drain.pc = "off"
    /\ drain' = At("generate")
    /\ UNCHANGED <<outbox, turnVars, recVars, ported, upsets, ghosts>>

\* register_delivery_port.
RegisterPort ==
    /\ LoopFree
    /\ ~ported
    /\ ported' = TRUE
    /\ RequeueBlocked
    /\ UNCHANGED <<turnVars, recVars, drain, upsets, ghosts>>

\* claim_recovery, up to the lease.
ClaimRecovery(o) ==
    /\ drain.pc = "generate"
    /\ Claim(o, Generable)
    /\ drain' = With("claimed", o)
    /\ UNCHANGED <<turnVars, recVars, ported, upsets, ghosts>>

\* claim_recovery is done, or it found nothing and deliver_next follows at once.
AtDelivery == drain.pc = "deliver" \/ (drain.pc = "generate" /\ Generable = {})

\* The row of direct_reply_turns is leased anew and its chat is correlated.
Correlate(o) ==
    /\ leasedRec' = leasedRec \cup {o}
    /\ flagged' = flagged \ {o}
    /\ session' = session \cup {o}
    /\ overrun' = IF clean[o] + tooled[o] > 0 THEN overrun \cup {o} ELSE overrun

\* The rest of claim_recovery: a turn is started for the linked row.
BeginRecovery(o) ==
    /\ drain.pc = "claimed" /\ drain.op = o
    /\ o \in linked
    /\ Correlate(o)
    /\ clean' = [clean EXCEPT ![o] = @ + 1]
    /\ drain' = At("deliver")
    /\ UNCHANGED <<outbox, turnVars, tooled, ported, upsets,
                   told, accepted, broken, torn, unnoted, soiled>>

\* No row has this reply_id yet: the generation is given up, or its lease has
\* been overwritten in the meantime and the iteration ends with an exception.
AbandonUnlinked(o) ==
    /\ drain.pc = "claimed" /\ drain.op = o
    /\ o \notin linked
    /\ \/ CompleteGeneration(o, FALSE) /\ drain' = At("deliver")
       \/ dlv[o] # "leased" /\ UNCHANGED outbox /\ drain' = At("generate")
    /\ UNCHANGED <<turnVars, recVars, ported, upsets, ghosts>>

\* An SQLite error in claim_recovery or deliver_next, or handle_message raises
\* once the row is leased: the iteration ends and the lease of the job stays.
IterationFails ==
    /\ drain.pc \in {"claimed", "deliver"}
    /\ Upset
    /\ drain' = At("generate")
    /\ \/ UNCHANGED <<leasedRec, flagged, session, overrun>>
       \/ \E o \in linked : drain = With("claimed", o) /\ Correlate(o)
    /\ UNCHANGED <<outbox, turnVars, clean, tooled, ported,
                   told, accepted, broken, torn, unnoted, soiled>>

\* deliver_next, up to the await of send_reply.
ClaimDelivery(o) ==
    /\ AtDelivery /\ ported
    /\ Claim(o, Deliverable)
    /\ drain' = With("sending", o)
    /\ UNCHANGED <<turnVars, recVars, ported, upsets, ghosts>>

\* deliver_next without a port: the claimed reply is parked.
ClaimUnported(o) ==
    /\ AtDelivery /\ ~ported
    /\ Oldest(o, Deliverable)
    /\ dlv' = [Recovered EXCEPT ![o] = "blocked"]
    /\ lapsed' = {p \in lapsed : Recovered[p] = "leased"}
    /\ unported' = unported \cup {o}
    /\ drain' = At("generate")
    /\ UNCHANGED <<gen, hold, text, born, turnVars, recVars, ported, upsets, ghosts>>

NothingToDeliver ==
    /\ AtDelivery
    /\ Deliverable = {}
    /\ Recover
    /\ drain' = At("generate")
    /\ UNCHANGED <<turnVars, recVars, ported, upsets, ghosts>>

\* ProactiveDeliveryAuthority.decide refuses before anything is sent.
Denied(o) == AuthorityDenies /\ kind[o] \in {"agenda", "notice"}

\* The channel accepts the message; its answer is still on the way.
ChannelAccepts(o) ==
    /\ drain.pc = "sending" /\ drain.op = o /\ ~drain.sent
    /\ ~Denied(o)
    /\ drain' = [drain EXCEPT !.sent = TRUE]
    /\ accepted' = [accepted EXCEPT ![o] = @ + 1]
    /\ UNCHANGED <<outbox, turnVars, recVars, ported, upsets,
                   told, broken, torn, overrun, unnoted, soiled>>

\* What send_reply may return: a transport error leaves it unknown whether the
\* channel has the message, a structured answer does not.
Outcomes(o) ==
    IF drain.sent THEN {"delivered", "unknown"}
    ELSE IF Denied(o) THEN {"failed"}
    ELSE {"failed", "rejected", "unknown"}

\* send_reply returns and its outcome is recorded under the lease.
DeliveryReturns(o) ==
    /\ drain.pc = "sending" /\ drain.op = o
    /\ \E outcome \in Outcomes(o) : CompleteDelivery(o, outcome)
    /\ drain' = At("generate")
    /\ UNCHANGED <<turnVars, recVars, ported, upsets, ghosts>>

\* send_reply returned, but SQLite refuses the transaction that records it: the
\* iteration ends and the lease stays.
OutcomeUnwritten(o) ==
    /\ drain.pc = "sending" /\ drain.op = o
    /\ Upset
    /\ drain' = At("generate")
    /\ broken' = broken \cup {o}
    /\ UNCHANGED <<outbox, turnVars, recVars, ported,
                   told, accepted, torn, overrun, unnoted, soiled>>

\* send_reply returned, but the lease is gone: WorkLeaseLost ends the iteration,
\* and what a recovery turn made of the row stays.
OutcomeRefused(o) ==
    /\ drain.pc = "sending" /\ drain.op = o
    /\ dlv[o] # "leased"
    /\ drain' = At("generate")
    /\ UNCHANGED <<outbox, turnVars, recVars, ported, upsets, ghosts>>

-----------------------------------------------------------------------------
(* Recovery turns: normal Hermes turns of the reply_recovery platform.     *)

\* _on_pre_tool_call blocks the Tool and note_tool_attempt records it.
TryTool(o) ==
    /\ clean[o] > 0
    /\ clean' = [clean EXCEPT ![o] = @ - 1]
    /\ tooled' = [tooled EXCEPT ![o] = @ + 1]
    /\ flagged' = IF o \in leasedRec THEN flagged \cup {o} ELSE flagged
    /\ UNCHANGED <<outbox, turnVars, leasedRec, session, drain, ported, upsets, ghosts>>

\* is_recovery_session or note_tool_attempt raises, which _on_pre_tool_call
\* swallows: the attempt of a leased row is not on record.
TryToolUnnoted(o) ==
    /\ clean[o] > 0 /\ o \in leasedRec
    /\ Upset
    /\ clean' = [clean EXCEPT ![o] = @ - 1]
    /\ tooled' = [tooled EXCEPT ![o] = @ + 1]
    /\ unnoted' = unnoted \cup {o}
    /\ UNCHANGED <<outbox, turnVars, leasedRec, flagged, session, drain, ported,
                   told, accepted, broken, torn, overrun, soiled>>

\* One running turn of o ends; it has tried a Tool or not.
EndTurn(o, tried) ==
    /\ LoopFree
    /\ IF tried THEN tooled[o] > 0 ELSE clean[o] > 0
    /\ clean' = [clean EXCEPT ![o] = IF tried THEN @ ELSE @ - 1]
    /\ tooled' = [tooled EXCEPT ![o] = IF tried THEN @ - 1 ELSE @]

\* The second write of finish_recovery and fail_recovery, and the chat is popped.
Uncorrelate(o) ==
    /\ leasedRec' = leasedRec \ {o}
    /\ session' = session \ {o}

\* Seeded fault: the flag of the Tool attempt is not read.
ReplyRecoveredUnread(o, tried) ==
    /\ EndTurn(o, tried)
    /\ o \in session
    /\ CompleteGeneration(o, TRUE)
    /\ Uncorrelate(o)
    /\ soiled' = IF tried THEN soiled \cup {o} ELSE soiled
    /\ UNCHANGED <<turnVars, flagged, drain, ported, upsets,
                   told, accepted, broken, torn, overrun, unnoted>>

\* Seeded fault: the chat stays correlated once its reply is recorded.
ReplyRecoveredCorrelated(o, tried) ==
    /\ EndTurn(o, tried)
    /\ o \in session /\ o \notin flagged
    /\ CompleteGeneration(o, TRUE)
    /\ leasedRec' = leasedRec \ {o}
    /\ soiled' = IF tried THEN soiled \cup {o} ELSE soiled
    /\ UNCHANGED <<turnVars, flagged, session, drain, ported, upsets,
                   told, accepted, broken, torn, overrun, unnoted>>

\* send of the recovery adapter with the reply of a turn: finish_recovery.
ReplyRecovered(o, tried) ==
    /\ EndTurn(o, tried)
    /\ o \in session /\ o \notin flagged
    /\ CompleteGeneration(o, TRUE)
    /\ Uncorrelate(o)
    /\ soiled' = IF tried THEN soiled \cup {o} ELSE soiled
    /\ UNCHANGED <<turnVars, flagged, drain, ported, upsets,
                   told, accepted, broken, torn, overrun, unnoted>>

\* finish_recovery with an SQLite error in its second write, which send swallows:
\* the reply is in the outbox, its row stays leased and its chat correlated, so
\* that a second turn of the same reply may finish it again.
ReplyHalfRecovered(o, tried) ==
    /\ EndTurn(o, tried)
    /\ o \in session /\ o \notin flagged
    /\ CompleteGeneration(o, TRUE)
    /\ Upset
    /\ torn' = torn \cup {o}
    /\ soiled' = IF tried THEN soiled \cup {o} ELSE soiled
    /\ UNCHANGED <<turnVars, leasedRec, flagged, session, drain, ported,
                   told, accepted, broken, overrun, unnoted>>

\* send with a diagnostic of the framework: fail_recovery.
RecoveryFailed(o, tried) ==
    /\ EndTurn(o, tried)
    /\ o \in session
    /\ CompleteGeneration(o, FALSE)
    /\ Uncorrelate(o)
    /\ UNCHANGED <<turnVars, flagged, drain, ported, upsets, ghosts>>

\* fail_recovery with an SQLite error in its second write.
RecoveryHalfFailed(o, tried) ==
    /\ EndTurn(o, tried)
    /\ o \in session
    /\ CompleteGeneration(o, FALSE)
    /\ Upset
    /\ UNCHANGED <<turnVars, leasedRec, flagged, session, drain, ported, ghosts>>

\* Nothing comes of the turn: nobody waits for its result, a Tool was tried, the
\* lease is gone, SQLite refuses the first write or the turn ends without a send.
\* The lease and the correlation stay as they are.
RecoveryDropped(o, tried) ==
    /\ EndTurn(o, tried)
    /\ UNCHANGED <<outbox, turnVars, leasedRec, flagged, session, drain, ported,
                   upsets, ghosts>>

-----------------------------------------------------------------------------
(* Time, faults and the operator.                                          *)

\* The 30 seconds of a lease pass.
Lapse(o) ==
    /\ dlv[o] = "leased" /\ o \notin lapsed
    /\ clean[o] + tooled[o] < MaxTurns
    /\ lapsed' = lapsed \cup {o}
    /\ UNCHANGED <<gen, dlv, hold, text, unported, born, turnVars, recVars,
                   drain, ported, upsets, ghosts>>

CutOff == IF drain.pc = "sending" THEN broken \cup {drain.op} ELSE broken

\* disconnect cancels the loop, an outstanding send included.
Disconnect ==
    /\ LoopFree
    /\ drain.pc # "off"
    /\ Upset
    /\ drain' = At("off")
    /\ broken' = CutOff
    /\ UNCHANGED <<outbox, turnVars, recVars, ported,
                   told, accepted, torn, overrun, unnoted, soiled>>

\* The Gateway dies with its threads, its turns and its registrations.
Crash ==
    /\ Upset
    /\ agent' = [o \in Ops |-> IF agent[o] = "idle" THEN "idle" ELSE "done"]
    /\ session' = {}
    /\ clean' = [o \in Ops |-> 0]
    /\ tooled' = [o \in Ops |-> 0]
    /\ drain' = At("off")
    /\ ported' = FALSE
    /\ broken' = CutOff
    /\ UNCHANGED <<outbox, kind, linked, leasedRec, flagged,
                   told, accepted, torn, overrun, unnoted, soiled>>

\* The operator settles an unknown delivery from evidence.
Reconcile(o) ==
    /\ Upset
    /\ ReconcileUnknown(o, accepted[o] > 0)
    /\ UNCHANGED <<turnVars, recVars, drain, ported, ghosts>>

\* The operator asks for another generation.
Requeue(o) ==
    /\ Upset
    /\ RequeueGeneration(o)
    /\ UNCHANGED <<turnVars, recVars, drain, ported, ghosts>>

-----------------------------------------------------------------------------
TurnStep(o) ==
    \/ \E k \in {"direct", "agenda"} : StartTurn(o, k)
    \/ ObserveReceipt(o) \/ StageArtifact(o)
    \/ \E t \in {"terminal", NoText} : StageTerminal(o, t) \/ SettleAgenda(o, t)
    \/ StagePost(o) \/ StageFails(o) \/ LinkReply(o)
    \/ SendPlain(o) \/ HandOff(o) \/ MarkerLost(o)
    \/ ReleaseAgenda(o) \/ LinkAgenda(o) \/ NoticeAgenda(o) \/ EndAgenda(o)
    \/ StageNotice(o) \/ FinishNotice(o)

DrainStep ==
    \/ NothingToDeliver
    \/ \E o \in Ops : \/ ClaimRecovery(o) \/ BeginRecovery(o) \/ AbandonUnlinked(o)
                      \/ ClaimDelivery(o) \/ ClaimUnported(o) \/ DeliveryReturns(o)
                      \/ OutcomeRefused(o)

TurnEnds(o) ==
    \E tried \in BOOLEAN : \/ ReplyRecovered(o, tried)
                           \/ RecoveryFailed(o, tried)
                           \/ RecoveryDropped(o, tried)

\* The errors a recovery turn may meet on its way.
TurnErrs(o) ==
    \/ TryToolUnnoted(o)
    \/ \E tried \in BOOLEAN : ReplyHalfRecovered(o, tried) \/ RecoveryHalfFailed(o, tried)

Next ==
    \/ Connect \/ RegisterPort \/ DrainStep \/ IterationFails \/ Disconnect \/ Crash
    \/ \E o \in Ops : \/ TurnStep(o) \/ TryTool(o) \/ TurnEnds(o) \/ TurnErrs(o)
                      \/ ChannelAccepts(o) \/ OutcomeUnwritten(o) \/ Lapse(o)
                      \/ Reconcile(o) \/ Requeue(o)

Spec == Init /\ [][Next]_vars

(* Fairness: the adapter connects again, a port is registered, the drain   *)
(* loop runs, an await of the HTTP client ends, the clock advances and     *)
(* recovery turns end.  A channel that is tried again and again accepts a  *)
(* message, and of the turns that are shown no Tool one answers without,   *)
(* sooner or later.  Nothing is assumed of any single reply, nor of the    *)
(* threads of the other turns.                                             *)
Fairness ==
    /\ WF_vars(Connect) /\ WF_vars(RegisterPort) /\ WF_vars(DrainStep)
    /\ WF_vars(\E o \in Ops : TurnEnds(o))
    /\ WF_vars(\E o \in Ops : Lapse(o))
    /\ SF_vars(\E o \in Ops : ChannelAccepts(o))
    /\ SF_vars(\E o \in Ops : ReplyRecovered(o, FALSE))

FairSpec == Spec /\ Fairness

-----------------------------------------------------------------------------
(* Properties.                                                             *)

\* A reply that is held for the marker of its turn is not sent and has not been
\* sent, whatever recover, a recovery turn or a second staging did to its row.
HeldIsNotSent ==
    \A o \in hold : accepted[o] = 0 /\ ~(drain.pc = "sending" /\ drain.op = o)

\* The user of a direct turn sees one answer: the text of the gateway or the
\* reply of the outbox, never both.
OneVisibleReply == \A o \in told : accepted[o] = 0

\* The channel gets a reply once, over lapsed leases, lost answers, parked
\* replies and reconciled ones.  Only a send whose result could not be written
\* (a crash, a disconnect, an SQLite error) is repeated, or a reply of which
\* finish_recovery wrote only one of its two records.
OneDelivery == \A o \in Ops : accepted[o] <= 1 \/ o \in broken \cup torn

\* A reply that is being sent keeps its lease until the outcome is recorded: the
\* lease is of the same state as one for generation and every recovery turn is
\* of the same worker, yet no late turn and no release takes it away, as long as
\* the second record of finish_recovery, which ends the correlation, was written.
SendingKeepsLease ==
    drain.pc = "sending" => dlv[drain.op] = "leased" \/ drain.op \in torn

\* What the outbox counts as delivered has been accepted by the channel.
DeliveredWasAccepted == \A o \in Ops : dlv[o] = "delivered" => accepted[o] > 0

\* The text of a reply is fixed with its first delivery attempt: no late turn,
\* staging or operator call changes a reply that the channel may have, unless its
\* recovery was recorded by half.
TextIsFinal ==
    [][\A o \in Ops \ torn :
           accepted[o] > 0 => text'[o] = text[o] /\ gen'[o] = gen[o]]_vars

\* A recovered reply comes from a turn that tried no Tool, as long as no turn of
\* the same reply outlived its lease and every attempt could be recorded.
RecoveredIsToolFree == soiled \subseteq overrun \cup unnoted

\* Every released reply is settled in the end: delivered, left to the operator
\* or given up.
Parked == {"delivered", "blocked", "unknown", "suppressed"}

ReleasedIsSettled ==
    \A o \in Ops : (gen[o] # "none" /\ o \notin hold) ~>
                      (dlv[o] \in Parked \/ gen[o] = "generation_failed")

\* What from_environment says of a port without a proactive authority: "a current
\* direct reply remains deliverable".  A released direct reply with a text does
\* not stay pending for good.
DirectStaysDeliverable ==
    \A o \in Ops : (kind[o] = "direct" /\ gen[o] = "generated" /\ dlv[o] = "pending") ~>
                      (dlv[o] \in Parked)

Promise == INSTANCE ReplyPromise
             WITH Replies <- Ops,
                  open <- {o \in Ops : gen[o] # "none" /\ o \notin hold},
                  confirmed <- {o \in Ops : dlv[o] = "delivered"}

\* Agent threads, hooks, recovery turns and the drain loop together keep the
\* promise of ReplyPromise: what the user of a turn gets to see is one answer,
\* sent once, with one text, and delivered only if the channel says so.
ImplementsPromise == Promise!Spec
=============================================================================
