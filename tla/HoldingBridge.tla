--------------------------- MODULE HoldingBridge ---------------------------
(***************************************************************************)
(* The WeCom holding bridge: platforms/wecom/holding_bridge.py.            *)
(*                                                                         *)
(* One asyncio process stages every callback POST in SQLite, forwards it   *)
(* upstream, and replays what could not be forwarded.  A handler runs      *)
(* without interruption between two awaits, and the only await of          *)
(* handle_post and of replay_once is the forward; so each action below is  *)
(* the code between two awaits.  The HOLD marker is a file that another    *)
(* process creates and removes at any moment.                              *)
(*                                                                         *)
(* A message stands for one transport fingerprint.  Time is abstracted to  *)
(* one bit per row: whether the deadline stored in the row has passed      *)
(* (next_attempt_at of a direct or pending row, completed_at plus the      *)
(* retention of a completed one).                                          *)
(***************************************************************************)
EXTENDS Integers, FiniteSets

CONSTANTS
    Msgs,                \* transport fingerprints
    NoMsg,               \* no message
    Handlers,            \* concurrent handle_post coroutines
    Replayer,            \* the one _replay_loop task
    MaxFaults,           \* bound on SQLite errors and escaping exceptions
    ReplayFaults,        \* whether faults may hit the replay task too
    LeaseCoversForward   \* whether no forward outlives its direct lease

ASSUME BridgeConstants ==
    /\ NoMsg \notin Msgs
    /\ Replayer \notin Handlers
    /\ MaxFaults \in Nat
    /\ ReplayFaults \in BOOLEAN
    /\ LeaseCoversForward \in BOOLEAN

VARIABLES
    row,        \* held_callbacks.state of each message
    due,        \* messages whose row holds a deadline that has passed
    hold,       \* the HOLD marker file is present
    up,         \* the bridge process runs
    carries,    \* the message whose forward a sender awaits
    answer,     \* the upstream status that has arrived at the sender
    scanning,   \* the replay task is inside replay_once
    batch,      \* rows of pending() replay_once has not looked at yet
    acked,      \* messages WeCom has been answered 2xx for
    accepted,   \* messages the upstream has answered 2xx
    rejected,   \* messages for whose latest staging a 3xx/4xx was received
    faults      \* faults so far

store    == <<row, due>>
senders  == <<carries, answer>>
replay   == <<scanning, batch>>
observed == <<acked, accepted, rejected>>
vars     == <<row, due, hold, up, carries, answer, scanning, batch,
              acked, accepted, rejected, faults>>

Senders == Handlers \cup {Replayer}
Live    == {"direct", "pending", "replaying"}
States  == Live \cup {"absent", "completed"}
Answers == {"none", "ok", "transient", "reject"}

TypeOK ==
    /\ row \in [Msgs -> States]
    /\ due \in SUBSET Msgs
    /\ hold \in BOOLEAN
    /\ up \in BOOLEAN
    /\ carries \in [Senders -> Msgs \cup {NoMsg}]
    /\ answer \in [Senders -> Answers]
    /\ scanning \in BOOLEAN
    /\ batch \in SUBSET Msgs
    /\ acked \in SUBSET Msgs
    /\ accepted \in SUBSET Msgs
    /\ rejected \in SUBSET Msgs
    /\ faults \in 0..MaxFaults

Init ==
    /\ row = [m \in Msgs |-> "absent"]
    /\ due = {}
    /\ hold = FALSE
    /\ up = TRUE
    /\ carries = [s \in Senders |-> NoMsg]
    /\ answer = [s \in Senders |-> "none"]
    /\ scanning = FALSE
    /\ batch = {}
    /\ acked = {}
    /\ accepted = {}
    /\ rejected = {}
    /\ faults = 0

-----------------------------------------------------------------------------
(* HoldingStore: one operator per SQL statement.                           *)

\* A row in a new state, with a deadline that lies ahead or has passed.
PutLater(m, state) ==
    /\ row' = [row EXCEPT ![m] = state]
    /\ due' = due \ {m}

PutNow(m, state) ==
    /\ row' = [row EXCEPT ![m] = state]
    /\ due' = due \cup {m}

\* The SELECT of persist_pending: no row, of whatever state, exists.
FreshOrCompleted(m) == row[m] \in {"absent", "completed"}   \* seeded fault
Fresh(m) == row[m] = "absent"

\* The WHERE clause shared by pending and mark_attempt.
ClaimableEarly(m) == row[m] \in {"pending", "direct"}         \* seeded fault
ClaimablePending(m) == row[m] = "pending" /\ m \in due       \* seeded fault
Claimable(m) == row[m] \in {"pending", "direct"} /\ m \in due

PersistPending(m) == PutLater(m, "direct")

MarkAttempt(m) == PutLater(m, "replaying")

ReleaseForReplay(m) ==
    IF row[m] = "direct" THEN PutNow(m, "pending") ELSE UNCHANGED store

MarkReplayFailure(m) ==
    IF row[m] = "replaying" THEN PutLater(m, "pending") ELSE UNCHANGED store

MarkCompleted(m) ==
    IF row[m] \in {"direct", "replaying"}
      THEN PutLater(m, "completed")
      ELSE UNCHANGED store

DiscardPending(m) ==
    IF row[m] \in {"direct", "pending"}
      THEN PutLater(m, "absent")
      ELSE UNCHANGED store

PruneAnyOld ==                                                  \* seeded fault
    LET old == {m \in Msgs : m \in due}
    IN  /\ row' = [m \in Msgs |-> IF m \in old THEN "absent" ELSE row[m]]
        /\ due' = due \ old
PruneCompleted ==
    LET old == {m \in Msgs : row[m] = "completed" /\ m \in due}
    IN  /\ row' = [m \in Msgs |-> IF m \in old THEN "absent" ELSE row[m]]
        /\ due' = due \ old

RecoverDirectOnly ==                                            \* seeded fault
    LET lost == {m \in Msgs : row[m] = "direct"}
    IN  /\ row' = [m \in Msgs |-> IF m \in lost THEN "pending" ELSE row[m]]
        /\ due' = due \cup lost
\* The UPDATE a fresh process runs in _initialize.
RecoverRows ==
    LET lost == {m \in Msgs : row[m] \in {"direct", "replaying"}}
    IN  /\ row' = [m \in Msgs |-> IF m \in lost THEN "pending" ELSE row[m]]
        /\ due' = due \cup lost

-----------------------------------------------------------------------------
\* HoldingModeGate: any marker file, valid or not, means HOLD.
IsHoldingIgnored == FALSE                                       \* seeded fault
IsHolding == hold

-----------------------------------------------------------------------------
(* Faults and senders.                                                     *)

Fault == faults < MaxFaults /\ faults' = faults + 1

\* A store write whose sqlite3.Error the caller logs and survives.
Tolerating(write) ==
    \/ write /\ UNCHANGED faults
    \/ UNCHANGED store /\ Fault

BeginForward(s, m) ==
    /\ carries' = [carries EXCEPT ![s] = m]
    /\ answer' = [answer EXCEPT ![s] = "none"]

EndForward(s) ==
    /\ carries' = [carries EXCEPT ![s] = NoMsg]
    /\ answer' = [answer EXCEPT ![s] = "none"]

Awaiting(s) == carries[s] # NoMsg

Answered(s, a) == Awaiting(s) /\ answer[s] = a

-----------------------------------------------------------------------------
(* handle_post, up to its await.  Oversized bodies and requests without    *)
(* the transport fields are refused before they touch any state.           *)

PostPersistFailed(h, m) ==
    /\ up /\ ~Awaiting(h)
    /\ Fault
    /\ UNCHANGED <<store, hold, up, senders, replay, observed>>

PostDuplicate(h, m) ==
    /\ up /\ ~Awaiting(h)
    /\ ~Fresh(m)
    /\ acked' = acked \cup {m}
    /\ UNCHANGED <<store, hold, up, senders, replay, accepted, rejected, faults>>

\* persist_pending, then release_for_replay of the row it inserted.
PostHeld(h, m) ==
    /\ up /\ ~Awaiting(h)
    /\ Fresh(m)
    /\ IsHolding
    /\ \/ PutNow(m, "pending") /\ UNCHANGED faults
       \/ PersistPending(m) /\ Fault
    /\ acked' = acked \cup {m}
    /\ rejected' = rejected \ {m}
    /\ UNCHANGED <<hold, up, senders, replay, accepted>>

PostForward(h, m) ==
    /\ up /\ ~Awaiting(h)
    /\ Fresh(m)
    /\ ~IsHolding
    /\ PersistPending(m)
    /\ BeginForward(h, m)
    /\ rejected' = rejected \ {m}
    /\ UNCHANGED <<hold, up, replay, acked, accepted, faults>>

\* handle_post after its await, one action per outcome of the forward.  A
\* timeout may also lose an answer that has already been given.

DirectTransportError(h) ==
    /\ Awaiting(h)
    /\ Tolerating(ReleaseForReplay(carries[h]))
    /\ acked' = acked \cup {carries[h]}
    /\ EndForward(h)
    /\ UNCHANGED <<hold, up, replay, accepted, rejected>>

DirectSuccess(h) ==
    /\ Answered(h, "ok")
    /\ Tolerating(MarkCompleted(carries[h]))
    /\ acked' = acked \cup {carries[h]}
    /\ EndForward(h)
    /\ UNCHANGED <<hold, up, replay, accepted, rejected>>

DirectTransient(h) ==
    /\ Answered(h, "transient")
    /\ Tolerating(ReleaseForReplay(carries[h]))
    /\ acked' = acked \cup {carries[h]}
    /\ EndForward(h)
    /\ UNCHANGED <<hold, up, replay, accepted, rejected>>

DirectReject(h) ==
    /\ Answered(h, "reject")
    /\ Tolerating(DiscardPending(carries[h]))
    /\ rejected' = rejected \cup {carries[h]}
    /\ EndForward(h)
    /\ UNCHANGED <<hold, up, replay, acked, accepted>>

\* Any other exception leaves handle_post: the row stays direct.
DirectEscape(h) ==
    /\ Awaiting(h)
    /\ Fault
    /\ EndForward(h)
    /\ UNCHANGED <<store, hold, up, replay, observed>>

-----------------------------------------------------------------------------
(* The replay task.  The batch limit (50) is above Cardinality(Msgs), and  *)
(* the order within a batch is left open.                                  *)

ReplayBegin ==
    /\ up /\ ~scanning /\ ~IsHolding
    /\ scanning' = TRUE
    /\ batch' = {m \in Msgs : Claimable(m)}
    /\ UNCHANGED <<store, hold, up, senders, observed, faults>>

ReplayAttempt(m) ==
    /\ scanning /\ ~Awaiting(Replayer) /\ ~IsHolding
    /\ m \in batch
    /\ batch' = batch \ {m}
    /\ \/ Claimable(m) /\ MarkAttempt(m) /\ BeginForward(Replayer, m)
       \/ ~Claimable(m) /\ UNCHANGED <<store, senders>>
    /\ UNCHANGED <<hold, up, scanning, observed, faults>>

ReplayTransportError ==
    /\ Awaiting(Replayer)
    /\ MarkReplayFailure(carries[Replayer])
    /\ EndForward(Replayer)
    /\ UNCHANGED <<hold, up, replay, observed, faults>>

ReplaySuccess ==
    /\ Answered(Replayer, "ok")
    /\ MarkCompleted(carries[Replayer])
    /\ EndForward(Replayer)
    /\ UNCHANGED <<hold, up, replay, observed, faults>>

ReplayRefusedCompletes ==                                       \* seeded fault
    /\ Answered(Replayer, "transient") \/ Answered(Replayer, "reject")
    /\ MarkCompleted(carries[Replayer])
    /\ EndForward(Replayer)
    /\ UNCHANGED <<hold, up, replay, observed, faults>>
\* Every other status is a failed attempt, a rejection included.
ReplayRefused ==
    /\ Answered(Replayer, "transient") \/ Answered(Replayer, "reject")
    /\ MarkReplayFailure(carries[Replayer])
    /\ rejected' = IF answer[Replayer] = "reject"
                     THEN rejected \cup {carries[Replayer]}
                     ELSE rejected
    /\ EndForward(Replayer)
    /\ UNCHANGED <<hold, up, replay, acked, accepted, faults>>

\* The end of an iteration of _replay_loop: the batch is done or HOLD broke
\* the loop, and prune_completed follows.
ReplayEnd ==
    /\ scanning /\ ~Awaiting(Replayer)
    /\ batch = {} \/ IsHolding
    /\ scanning' = FALSE
    /\ batch' = {}
    /\ Tolerating(PruneCompleted)
    /\ UNCHANGED <<hold, up, senders, observed>>

\* An iteration while HOLD is active only prunes.
ReplayWhileHeld ==
    /\ up /\ ~scanning /\ IsHolding
    /\ PruneCompleted
    /\ UNCHANGED <<hold, up, senders, replay, observed, faults>>

\* An exception ends the iteration: the row it was at keeps its state.
ReplayAbort ==
    /\ ReplayFaults
    /\ scanning
    /\ Fault
    /\ scanning' = FALSE
    /\ batch' = {}
    /\ EndForward(Replayer)
    /\ UNCHANGED <<store, hold, up, observed>>

-----------------------------------------------------------------------------
(* The environment: upstream, clock, operator, process failures.           *)

UpstreamAnswers(s, a) ==
    /\ Answered(s, "none")
    /\ answer' = [answer EXCEPT ![s] = a]
    /\ accepted' = IF a = "ok" THEN accepted \cup {carries[s]} ELSE accepted
    /\ UNCHANGED <<store, hold, up, carries, replay, acked, rejected, faults>>

Elapse(m) ==
    /\ row[m] \in {"direct", "pending", "completed"}
    /\ m \notin due
    /\ LeaseCoversForward /\ row[m] = "direct"
         => \A h \in Handlers : carries[h] # m
    /\ due' = due \cup {m}
    /\ UNCHANGED <<row, hold, up, senders, replay, observed, faults>>

\* xiaoyou_wecom_holding_mode.py hold and resume.
EnterHold ==
    /\ ~hold
    /\ hold' = TRUE
    /\ UNCHANGED <<store, up, senders, replay, observed, faults>>

Resume ==
    /\ hold
    /\ hold' = FALSE
    /\ UNCHANGED <<store, up, senders, replay, observed, faults>>

\* The process dies: in-flight coroutines are gone, rows stay.  close()
\* cancels the replay task, which comes to the same for the rows.
Crash ==
    /\ up
    /\ up' = FALSE
    /\ carries' = [s \in Senders |-> NoMsg]
    /\ answer' = [s \in Senders |-> "none"]
    /\ scanning' = FALSE
    /\ batch' = {}
    /\ UNCHANGED <<store, hold, observed, faults>>

Restart ==
    /\ ~up
    /\ up' = TRUE
    /\ RecoverRows
    /\ UNCHANGED <<hold, senders, replay, observed, faults>>

-----------------------------------------------------------------------------
HandlePost(h) ==
    \/ \E m \in Msgs : \/ PostPersistFailed(h, m)
                       \/ PostDuplicate(h, m)
                       \/ PostHeld(h, m)
                       \/ PostForward(h, m)
    \/ DirectTransportError(h)
    \/ DirectSuccess(h)
    \/ DirectTransient(h)
    \/ DirectReject(h)
    \/ DirectEscape(h)

ReplayLoop ==
    \/ ReplayBegin
    \/ \E m \in Msgs : ReplayAttempt(m)
    \/ ReplayTransportError
    \/ ReplaySuccess
    \/ ReplayRefused
    \/ ReplayEnd
    \/ ReplayWhileHeld
    \/ ReplayAbort

Upstream ==
    \E s \in Senders, a \in Answers \ {"none"} : UpstreamAnswers(s, a)

Environment ==
    \/ \E m \in Msgs : Elapse(m)
    \/ EnterHold
    \/ Resume
    \/ Crash
    \/ Restart

Next ==
    \/ \E h \in Handlers : HandlePost(h)
    \/ ReplayLoop
    \/ Upstream
    \/ Environment

Spec == Init /\ [][Next]_vars

-----------------------------------------------------------------------------
(* Fairness.  Both coroutines resume after their await (httpx bounds every *)
(* forward by a timeout), the replay loop never stops, clocks advance.  Of *)
(* the upstream only this is assumed: it does not answer a transient error *)
(* for ever, and its answers are not lost for ever.                        *)

DirectReturns(h) ==
    \/ DirectTransportError(h) \/ DirectSuccess(h)
    \/ DirectTransient(h) \/ DirectReject(h) \/ DirectEscape(h)

ReplayReturns == ReplayTransportError \/ ReplaySuccess \/ ReplayRefused

Decides(m) ==
    \E s \in Senders, a \in {"ok", "reject"} :
        carries[s] = m /\ UpstreamAnswers(s, a)

Hears(m) ==
    /\ carries[Replayer] = m
    /\ ReplaySuccess \/ (answer[Replayer] = "reject" /\ ReplayRefused)

Fairness ==
    /\ \A h \in Handlers : WF_vars(DirectReturns(h))
    /\ WF_vars(ReplayBegin)
    /\ WF_vars(\E m \in Msgs : ReplayAttempt(m))
    /\ WF_vars(ReplayReturns)
    /\ WF_vars(ReplayEnd)
    /\ \A m \in Msgs : WF_vars(Elapse(m)) /\ SF_vars(Decides(m)) /\ SF_vars(Hears(m))

FairSpec == Spec /\ Fairness

-----------------------------------------------------------------------------
(* Properties.                                                             *)

Settled(m) == m \in accepted \cup rejected

\* A message that WeCom was answered 2xx for, or that is on its way
\* upstream, can be recovered: its row is still there for the replay, unless
\* the upstream accepted it or explicitly rejected this staging of it.
AckedIsKept ==
    \A m \in Msgs :
        m \in acked \/ (\E s \in Senders : carries[s] = m)
          => row[m] \in Live \/ Settled(m)

\* A tombstone exists only for a message the downstream chain answered 2xx,
\* whichever of the direct handler and the replay wrote it.
CompletedIsAccepted ==
    \A m \in Msgs : row[m] = "completed" => m \in accepted

\* As long as no forward outlives its direct lease, the direct handler, its
\* duplicates and the replay never have the same message in flight twice.
OneSendPerMessage ==
    LeaseCoversForward =>
        \A s, t \in Senders : Awaiting(s) /\ carries[s] = carries[t] => s = t

\* A replaying row has the replay task working on it: pending() never selects
\* it, so nobody else would pick it up before the next process start.
NoStrandedReplay ==
    up /\ ~ReplayFaults =>
        \A m \in Msgs : row[m] = "replaying" => carries[Replayer] = m

\* No forward begins for a message whose tombstone exists.
NoSendAfterCompletion ==
    [][\A s \in Senders :
         carries'[s] \notin {NoMsg, carries[s]} => row[carries'[s]] # "completed"]_vars

\* Once the operator leaves the bridge running and out of HOLD, every
\* acknowledged message leaves the backlog by a downstream 2xx, or has been
\* explicitly rejected.
AckedIsServed ==
    <>[](up /\ ~hold) =>
        \A m \in Msgs :
            (m \in acked) ~> (m \in accepted /\ row[m] \notin Live) \/ m \in rejected

\* While HOLD stays active the bridge becomes silent: forwards that were in
\* flight when the marker appeared end and none follows.
HoldQuiesces ==
    <>[]hold => <>[](\A s \in Senders : ~Awaiting(s))

Relay == INSTANCE DurableRelay WITH held <- {m \in Msgs : row[m] \in Live}

\* The bridge, with its two kinds of senders, its leases, its lost answers and
\* its restarts, implements the promise of DurableRelay: it takes a message
\* before it acknowledges or sends it and lets go of it only after a
\* downstream 2xx or an explicit refusal.
ImplementsRelay == Relay!Spec
=============================================================================
