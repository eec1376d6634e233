----------------------------- MODULE TurnFence -----------------------------
(***************************************************************************)
(* turn_fence.py: the process-local validity of WeCom turns.  An operator  *)
(* that primes variables is one call under _LOCK.                          *)
(*                                                                         *)
(* A chat and the Agent session of its turns are one thing here.  The      *)
(* deadline of a fence is abstracted to whether it has passed;             *)
(* verified_write and delivery_unknown, which only select the wording of   *)
(* the failure receipt, and the pruning after two hours are left out.      *)
(***************************************************************************)
EXTENDS TurnIds

VARIABLES
    status,     \* status of the fence of a message, "none" without one
    phase,      \* phase of the fence
    bySession,  \* _BY_SESSION: the message a session is bound to
    byChat,     \* _BY_CHAT: the latest message of a chat
    past        \* fences whose deadline has passed

fenceVars == <<status, phase, bySession, byChat, past>>

FenceType ==
    /\ status \in [Turns -> {"none", "active", "superseded", "expired", "finished"}]
    /\ phase \in [Turns -> {"created", "model", "tool"}]
    /\ bySession \in [Chats -> Turns \cup {NoTurn}]
    /\ byChat \in [Chats -> Turns \cup {NoTurn}]
    /\ past \in SUBSET Turns

FenceInit ==
    /\ status = [t \in Turns |-> "none"]
    /\ phase = [t \in Turns |-> "created"]
    /\ bySession = [c \in Chats |-> NoTurn]
    /\ byChat = [c \in Chats |-> NoTurn]
    /\ past = {}

LateStates == {"expired", "superseded"}

-----------------------------------------------------------------------------
\* The fence _find_locked gives for a session, if any.
Bound(c) == {f \in Turns : bySession[c] = f}

Active(t) == status[t] = "active"

\* Seeded fault: the phase of the previous turn is not looked at.
SupersededAnyway(c) == {p \in Turns : byChat[c] = p /\ Active(p)}

\* The previous turn of a chat, while it only talks to the model.
Superseded(c) ==
    {p \in Turns : byChat[c] = p /\ Active(p) /\ phase[p] \in {"created", "model"}}

\* begin_callback_turn.
BeginFence(t) ==
    LET c == ChatOf[t]
    IN  /\ status' = [u \in Turns |-> IF u = t THEN "active"
                                      ELSE IF u \in Superseded(c) THEN "superseded"
                                      ELSE status[u]]
        /\ phase' = [phase EXCEPT ![t] = "created"]
        /\ byChat' = [byChat EXCEPT ![c] = t]
        /\ UNCHANGED <<bySession, past>>

\* bind_session to the fence of message m, then mark_phase(..., "model").
BindFence(c, m) ==
    /\ IF m \in Turns /\ status[m] # "none"
       THEN /\ bySession' = [bySession EXCEPT ![c] = m]
            /\ phase' = [phase EXCEPT ![m] = IF Active(m) THEN "model" ELSE @]
       ELSE UNCHANGED <<bySession, phase>>
    /\ UNCHANGED <<status, byChat, past>>

\* mark_phase of a session.
MarkPhase(c, p) ==
    phase' = [f \in Turns |-> IF f \in Bound(c) /\ Active(f) THEN p ELSE phase[f]]

\* Seeded fault: the deadline is left to the callback's own timeout.
CheckedByStatus(c) == status

\* block_reason of a session: a deadline that has passed expires the fence.
Checked(c) ==
    [f \in Turns |-> IF f \in Bound(c) /\ Active(f) /\ f \in past
                     THEN "expired" ELSE status[f]]

Blocks(c) == \E f \in Bound(c) : Checked(c)[f] \in LateStates

\* finish_turn of the fences in F.
Finished(F) == [f \in Turns |-> IF f \in F /\ Active(f) THEN "finished" ELSE status[f]]

\* expire_turn.
Expired(t) == [status EXCEPT ![t] = IF @ = "active" THEN "expired" ELSE @]
=============================================================================
