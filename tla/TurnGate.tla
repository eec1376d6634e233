----------------------------- MODULE TurnGate -----------------------------
(***************************************************************************)
(* What stands between a turn and the business Tools: the turn fence and   *)
(* the Runtime Contract, as the hooks of tuoguan_core/__init__.py use them *)
(* in the threads of the turns, the WeCom callback handler, which gives a  *)
(* turn up at its timeout, and the robot adapter, which admits one turn of *)
(* the device at a time.                                                   *)
(*                                                                         *)
(* Hermes runs the turns of a session one after the other, in any order,   *)
(* and a thread it has started goes on when its caller has given up.  Only *)
(* the business Tools, named tuoguan_..., are modelled: for no others does *)
(* the hook ask the contract.  A call that finds no record is refused and  *)
(* changes nothing.                                                        *)
(*                                                                         *)
(* It is assumed that the turn_id Hermes gives the hooks of a WeCom turn   *)
(* is the id of its message.  The code allows for another id: bind_session *)
(* then finds no fence and returns False, and the fence of that turn       *)
(* blocks nothing until the callback gives up on it.                       *)
(***************************************************************************)
EXTENDS TurnFence, TrustedTurns

CONSTANTS
    Wecom,      \* the turns of the WeCom callback; the others are the robot's
    Arrivals    \* the sets of messages and submissions that may come

ASSUME GateConstants ==
    /\ Wecom \subseteq Turns
    /\ Arrivals \subseteq SUBSET Turns
    /\ \A t \in Wecom, u \in Turns \ Wecom : ChatOf[t] # ChatOf[u]

Robot == Turns \ Wecom

VARIABLES
    coming,     \* the messages and submissions that come
    pc,         \* where the thread of a turn is
    wait,       \* what the caller of a turn does
    live,       \* chats with an entry in _ACTIVE_MODEL_TURNS
    owed,       \* the robot's _futures: submissions stored as processing
    asking,     \* submissions whose repetition awaits the future
    kept,       \* submissions handed to the outbox that keep the device busy
    actsFor,    \* the message under whose record a turn acts
    lateStart,  \* turns that started a Tool when they were late
    refused,    \* turns that were refused a Tool as late and were not
    raised      \* turns for which the contract raised an exception

ghosts   == <<actsFor, lateStart, refused, raised>>
robotVars == <<owed, asking, kept>>
gateVars == <<coming, robotVars, pc, wait, live>>
vars     == <<fenceVars, contractVars, gateVars, ghosts>>

TypeOK ==
    /\ FenceType /\ ContractType
    /\ coming \in SUBSET Turns
    /\ pc \in [Turns -> {"none", "queued", "model", "tool", "done", "silent", "dropped"}]
    /\ wait \in [Turns -> {"none", "waiting", "answered", "gaveUp", "rejected"}]
    /\ live \in SUBSET Chats
    /\ owed \in SUBSET Turns /\ asking \in SUBSET Turns /\ kept \in SUBSET Turns
    /\ actsFor \in [Turns -> Turns \cup {NoTurn}]
    /\ lateStart \in SUBSET Turns
    /\ refused \in SUBSET Turns
    /\ raised \in SUBSET Turns

Init ==
    /\ FenceInit /\ ContractInit
    /\ coming \in Arrivals
    /\ pc = [t \in Turns |-> "none"]
    /\ wait = [t \in Turns |-> "none"]
    /\ live = {}
    /\ owed = {} /\ asking = {} /\ kept = {}
    /\ actsFor = [t \in Turns |-> NoTurn]
    /\ lateStart = {} /\ refused = {} /\ raised = {}

Running(t) == pc[t] \in {"model", "tool"}

\* A turn nobody waits for any more, by its own message.
Late(t) == status[t] \in LateStates \/ t \in past \/ wait[t] = "gaveUp"

-----------------------------------------------------------------------------
(* The callers.                                                            *)

\* reliable_handler, up to the task of the turn.
Begin(t) ==
    /\ t \in Wecom \cap coming /\ pc[t] = "none"
    /\ BeginFence(t)
    /\ pc' = [pc EXCEPT ![t] = "queued"]
    /\ wait' = [wait EXCEPT ![t] = "waiting"]
    /\ UNCHANGED <<coming, robotVars, contractVars, live, ghosts>>

\* The budget of the fence passes; it is at most the timeout of the callback.
DeadlinePasses(t) ==
    /\ t \in Wecom /\ wait[t] = "waiting"
    /\ past' = past \cup {t}
    /\ UNCHANGED <<status, phase, bySession, byChat, contractVars, gateVars, ghosts>>

\* The task returns a text.
Respond(t) ==
    /\ t \in Wecom /\ wait[t] = "waiting" /\ pc[t] = "done"
    /\ status' = Finished({t})
    /\ wait' = [wait EXCEPT ![t] = "answered"]
    /\ UNCHANGED <<coming, robotVars, phase, bySession, byChat, past, contractVars, pc, live, ghosts>>

\* Hermes does not start the turn any more.
Drop(t) == pc' = [pc EXCEPT ![t] = IF @ = "queued" THEN "dropped" ELSE @]

\* The callback gives up: the failure receipt of the fence is the answer.
GiveUp(t) ==
    /\ status' = Expired(t)
    /\ wait' = [wait EXCEPT ![t] = "gaveUp"]
    /\ UNCHANGED <<coming, robotVars, phase, bySession, byChat, past, contractVars, live,
                   ghosts>>

\* The task returns nothing, or it ended with an exception.
RespondFailure(t) ==
    /\ t \in Wecom /\ wait[t] = "waiting" /\ pc[t] \in {"silent", "queued"}
    /\ GiveUp(t) /\ Drop(t)

\* Seeded fault: only a turn whose fence is still active is timed out.
TimeoutIfActive(t) ==
    /\ t \in Wecom /\ wait[t] = "waiting" /\ Active(t)
    /\ t \in past /\ pc[t] \notin {"done", "silent"}
    /\ GiveUp(t)
    /\ Drop(t) \/ UNCHANGED pc

\* asyncio.wait_for: the timeout of the callback.  It cancels the task; a turn
\* Hermes has scheduled may start all the same.
Timeout(t) ==
    /\ t \in Wecom /\ wait[t] = "waiting"
    /\ t \in past /\ pc[t] \notin {"done", "silent"}
    /\ GiveUp(t)
    /\ Drop(t) \/ UNCHANGED pc

\* _active_operation_by_device.
Busy(t) == \E u \in Robot \ {t} : wait[u] = "waiting" \/ u \in kept

\* submit_text: _claim_turn stores the submission with a future, and the record
\* is bound before the device is found busy.
Submit(t) ==
    /\ t \in Robot \cap coming /\ wait[t] = "none"
    /\ ~PurgeRaises
    /\ owed' = owed \cup {t}
    /\ AddIngress(t)
    /\ wait' = [wait EXCEPT ![t] = IF Busy(t) THEN "rejected" ELSE "waiting"]
    /\ pc' = [pc EXCEPT ![t] = IF Busy(t) THEN @ ELSE "queued"]
    /\ UNCHANGED <<coming, asking, kept, fenceVars, live, ghosts>>

\* bind_robot_device_turn raises: "trusted_turn_unavailable".
SubmitRaises(t) ==
    /\ t \in Robot \cap coming /\ wait[t] = "none"
    /\ PurgeRaises
    /\ owed' = owed \cup {t}
    /\ wait' = [wait EXCEPT ![t] = "rejected"]
    /\ raised' = raised \cup {t}
    /\ UNCHANGED <<coming, asking, kept, fenceVars, contractVars, pc, live,
                   actsFor, lateStart, refused>>

\* submit_text with a turn that has been claimed: it awaits the future, without a
\* timeout.  A stored response is returned at once.
Repeat(t) ==
    /\ t \in owed
    /\ asking' = asking \cup {t}
    /\ UNCHANGED <<coming, owed, kept, fenceVars, contractVars, pc, wait, live, ghosts>>

\* _complete_turn: the response is stored and the future resolved.
Complete(t) ==
    /\ owed' = owed \ {t}
    /\ asking' = asking \ {t}

RobotReturns(t) ==
    /\ t \in Robot /\ wait[t] = "waiting" /\ pc[t] \in {"done", "silent"}
    /\ wait' = [wait EXCEPT ![t] = "answered"]
    /\ Complete(t)
    /\ UNCHANGED <<coming, kept, fenceVars, contractVars, pc, live, ghosts>>

\* The response timeout: no fence is involved.
RobotTimeout(t) ==
    /\ t \in Robot /\ wait[t] = "waiting"
    /\ wait' = [wait EXCEPT ![t] = "gaveUp"]
    /\ Drop(t) \/ UNCHANGED pc
    /\ Complete(t)
    /\ UNCHANGED <<coming, kept, fenceVars, contractVars, live, ghosts>>

\* The timeout of a turn with a verified reply in the outbox: the caller is told
\* "reply_recovery_pending", the future stays and the device stays busy.
RobotHandsOver(t) ==
    /\ t \in Robot /\ wait[t] = "waiting" /\ pc[t] # "queued"
    /\ wait' = [wait EXCEPT ![t] = "gaveUp"]
    /\ kept' = kept \cup {t}
    /\ UNCHANGED <<coming, owed, asking, fenceVars, contractVars, pc, live, ghosts>>

\* send completes it later: with the reply of the outbox, which frees the device,
\* or with a late one of the turn, which does not.
RobotRecovers(t) ==
    /\ t \in kept
    /\ Complete(t)
    /\ kept' = kept \ {t} \/ UNCHANGED kept
    /\ UNCHANGED <<coming, fenceVars, contractVars, pc, wait, live, ghosts>>

-----------------------------------------------------------------------------
(* The hooks, in the thread of turn t of chat c.                           *)

\* Hermes starts the thread; pre_llm_call is its first hook.
Starts(t, c) ==
    /\ ChatOf[t] = c /\ pc[t] = "queued"
    /\ \A u \in Turns : ChatOf[u] = c => ~Running(u)
    /\ pc' = [pc EXCEPT ![t] = "model"]

\* The rest of the hook once the turn has a record of message m.
EnterModel(t, c, m) ==
    /\ actsFor' = [actsFor EXCEPT ![t] = m]
    /\ live' = live \cup {c}
    /\ BindFence(c, m)
    /\ UNCHANGED <<coming, robotVars, wait, lateStart, refused, raised>>

\* The contract raises: the turn has neither a record nor a fence.
PreLlmRaises(t, c) ==
    /\ Starts(t, c)
    /\ PurgeRaises
    /\ raised' = raised \cup {t}
    /\ UNCHANGED <<coming, robotVars, fenceVars, contractVars, wait, live, actsFor, lateStart, refused>>

\* activate_trusted_turn finds a record in the session: it is the turn's.
PreLlmReuses(t, c) ==
    /\ Starts(t, c)
    /\ ~PurgeRaises
    /\ \E r \in Sole(c) : EnterModel(t, c, message[r])
    /\ UNCHANGED contractVars

\* A WeCom turn gets a record of its own, of the message whose id is its turn_id.
PreLlmBinds(t, c) ==
    /\ Starts(t, c)
    /\ t \in Wecom /\ Sole(c) = {} /\ ~PurgeRaises
    /\ BindRow(c, t, t)
    /\ EnterModel(t, c, t)
    /\ UNCHANGED <<pending, stale>>

\* A robot turn claims its ingress record.
PreLlmClaims(t, c) ==
    /\ Starts(t, c)
    /\ t \in Robot /\ Sole(c) = {} /\ ~PurgeRaises
    /\ \E u \in Claimable(t) : ClaimIngress(c, t, u) /\ EnterModel(t, c, u)

\* None or several could be meant: the turn stays without a record.
PreLlmUncorrelated(t, c) ==
    /\ Starts(t, c)
    /\ t \in Robot /\ Sole(c) = {} /\ ~PurgeRaises
    /\ Claimable(t) = {}
    /\ UNCHANGED <<coming, robotVars, fenceVars, contractVars, wait, live, ghosts>>

\* The turn asks for a business Tool and the contract names record r.
AsksTool(t, c, r) ==
    /\ ChatOf[t] = c /\ pc[t] = "model"
    /\ ~PurgeRaises /\ r \in Trusted(c, t)
    /\ actsFor' = [actsFor EXCEPT ![t] = message[r]]
    /\ status' = Checked(c)
    /\ UNCHANGED <<coming, robotVars, bySession, byChat, past, contractVars, wait, live, raised>>

\* pre_tool_call lets the call pass, or a later boundary of the hook refuses it.
PreTool(t, c) ==
    /\ \E r \in Turns : AsksTool(t, c, r)
    /\ ~Blocks(c)
    /\ MarkPhase(c, "tool")
    /\ \/ /\ pc' = [pc EXCEPT ![t] = "tool"]
          /\ lateStart' = IF Late(t) THEN lateStart \cup {t} ELSE lateStart
       \/ UNCHANGED <<pc, lateStart>>
    /\ UNCHANGED refused

\* The fence refuses the call.
PreToolBlocked(t, c) ==
    /\ \E r \in Turns : AsksTool(t, c, r)
    /\ Blocks(c)
    /\ refused' = IF Late(t) THEN refused ELSE refused \cup {t}
    /\ UNCHANGED <<phase, pc, lateStart>>

\* post_tool_call.
PostTool(t) ==
    /\ pc[t] = "tool"
    /\ pc' = [pc EXCEPT ![t] = "model"]
    /\ UNCHANGED <<coming, robotVars, fenceVars, contractVars, wait, live, ghosts>>

\* pre_api_request: the model is asked again.
PreApi(t, c) ==
    /\ ChatOf[t] = c /\ pc[t] = "model"
    /\ MarkPhase(c, "model")
    /\ UNCHANGED <<status, bySession, byChat, past, contractVars, gateVars, ghosts>>

\* The turn ends with post_llm_call.
Ends(t, c, how) ==
    /\ ChatOf[t] = c /\ pc[t] = "model"
    /\ pc' = [pc EXCEPT ![t] = how]
    /\ live' = live \ {c}
    /\ UNCHANGED <<coming, robotVars, phase, bySession, byChat, past, message, pending, stale, wait, ghosts>>

\* finish_turn and clear_trusted_turn, both of the session.
Retire(c) ==
    /\ status' = Finished(Bound(c))
    /\ ClearRows(c)

\* A terminal failure of the provider, or a reply in time.  A Hermes that has the
\* hook post_gateway_response calls that one instead, after the delivery; it also
\* leaves the record of a late result and clears any other.
PostLlmRetires(t, c) ==
    /\ c \in live
    /\ Ends(t, c, "done")
    /\ Retire(c)

\* A late result is discarded and an empty one is left to the caller: neither
\* path clears the record.
PostLlmKeeps(t, c) ==
    /\ c \in live
    /\ IF Blocks(c) THEN \E how \in {"done", "silent"} : Ends(t, c, how)
                    ELSE Ends(t, c, "silent")
    /\ status' = Checked(c)
    /\ UNCHANGED rows

\* A turn pre_llm_call has not entered.
PostLlmUnknown(t, c) ==
    /\ c \notin live
    /\ \E how \in {"done", "silent"} : Ends(t, c, how)
    /\ UNCHANGED <<status, rows>>

\* The thread ends with an exception and without post_llm_call.
ThreadDies(t) ==
    /\ Running(t)
    /\ pc' = [pc EXCEPT ![t] = "silent"]
    /\ UNCHANGED <<coming, robotVars, fenceVars, contractVars, wait, live, ghosts>>

-----------------------------------------------------------------------------
(* Time.  Twenty minutes are longer than the budget of a fence and than    *)
(* the wait for the device, not longer than the timeout of the callback.   *)
(* A turn that Hermes has scheduled starts within them or not at all.      *)

Fresh(t) == wait[t] = "waiting" /\ t \notin past

\* A record passes its TTL and the next call of the contract drops it.
RowLapses(r, c) ==
    /\ r \in rows[c]
    /\ ~(Running(r) /\ Fresh(r))
    /\ rows' = [rows EXCEPT ![c] = @ \ {r}]
    /\ UNCHANGED <<fenceVars, message, pending, stale, gateVars, ghosts>>

\* An ingress record passes its TTL.
IngressLapses(t) ==
    /\ t \in pending \ stale
    /\ pc[t] # "queued"
    /\ stale' = stale \cup {t}
    /\ UNCHANGED <<fenceVars, rows, message, pending, gateVars, ghosts>>

-----------------------------------------------------------------------------
CallerStep(t) ==
    \/ Begin(t) \/ DeadlinePasses(t) \/ Respond(t) \/ RespondFailure(t) \/ Timeout(t)
    \/ Submit(t) \/ SubmitRaises(t) \/ Repeat(t) \/ RobotReturns(t) \/ RobotTimeout(t)
    \/ RobotHandsOver(t) \/ RobotRecovers(t)

HookStep(t, c) ==
    \/ PreLlmRaises(t, c) \/ PreLlmReuses(t, c) \/ PreLlmBinds(t, c)
    \/ PreLlmClaims(t, c) \/ PreLlmUncorrelated(t, c)
    \/ PreTool(t, c) \/ PreToolBlocked(t, c) \/ PreApi(t, c)
    \/ PostLlmRetires(t, c) \/ PostLlmKeeps(t, c) \/ PostLlmUnknown(t, c)
    \/ RowLapses(t, c)

Next ==
    \E t \in Turns : \/ CallerStep(t) \/ PostTool(t) \/ ThreadDies(t) \/ IngressLapses(t)
                     \/ \E c \in Chats : HookStep(t, c)

Spec == Init /\ [][Next]_vars

(* Fairness: the clock advances and the event loop runs.  Nothing is       *)
(* assumed of the threads of the turns, of Hermes or of the outbox.        *)
Fairness ==
    \A t \in Turns : WF_vars(\/ DeadlinePasses(t) \/ Timeout(t) \/ Respond(t)
                             \/ RespondFailure(t) \/ RobotTimeout(t))

FairSpec == Spec /\ Fairness

-----------------------------------------------------------------------------
(* Properties.                                                             *)

\* The fence is exact for a WeCom turn whose turn_id is the id of its message (the
\* assumption of this module) and that acts under its own record: its
\* thread starts no Tool once the turn is superseded, past its budget or given
\* up, and before that the fence refuses it nothing, whatever other turns of
\* the chat and of other chats have begun, bound or finished meanwhile.
FenceIsExact == \A t \in Wecom \cap (lateStart \cup refused) : actsFor[t] # t

\* A submission the busy robot was refused lends its identity to no turn, though
\* its record stays behind for the turns that follow.
NoStrayAuthority == \A t, u \in Turns : actsFor[t] = u => wait[u] # "rejected"

\* A turn whose Tool runs under its own record is not superseded: "Once a tool
\* starts, the new turn reads the verified result instead of cancelling a write."
ToolIsNotCancelled ==
    [][\A t \in Wecom : (pc[t] = "tool" /\ actsFor[t] = t /\ Active(t))
                            => status'[t] # "superseded"]_vars

\* Somebody awaits turn t and is owed an answer.
Awaited(t) ==
    \/ wait[t] = "waiting"
    \/ t \in asking /\ wait[t] # "rejected" /\ t \notin kept

\* The caller of a turn gets an answer, even if the thread of the turn never
\* comes back and its fence has been superseded.  So does a repeated request to
\* the robot that awaits the same future, unless the first one was refused, which
\* leaves the future behind, or its reply was handed to the outbox.
TurnIsAnswered == \A t \in Turns : Awaited(t) ~> ~Awaited(t)

\* What the refusal tells the model, "this turn has timed out or was replaced by
\* a new message", and what TrustedTurn says of its records, "for one turn": no
\* turn is refused as late that is not.
RefusedIsLate == refused \cap Wecom = {}

\* What _purge_expired_locked says it does with a stale record, "Remove that
\* exact server operation": a call of the contract does not raise.
PurgeCompletes == raised = {}
=============================================================================
