-------------------------- MODULE TurnGateProofs --------------------------
(***************************************************************************)
(* Type correctness of TurnGate, the exactness of the fence, and the       *)
(* robot's authority, for every set of turns.                              *)
(***************************************************************************)
EXTENDS TurnGate, FiniteSetTheorems, TLAPS

-----------------------------------------------------------------------------
(* The inductive invariant.                                                *)

Unstarted(t) == pc[t] = "none" \/ pc[t] = "queued"

\* A session is bound to a fence of its own chat, and only WeCom turns have one.
BoundInChat ==
    /\ \A c \in Chats : bySession[c] \in Turns =>
          /\ ChatOf[bySession[c]] = c
          /\ status[bySession[c]] # "none" /\ ~Unstarted(bySession[c])
    /\ \A t \in Turns : status[t] # "none" => t \in Wecom /\ pc[t] # "none"

\* A record is of a turn of its chat that has started, and names its own message.
RowsAreOwn ==
    \A c \in Chats : \A r \in rows[c] :
        /\ r \in Turns /\ ChatOf[r] = c /\ ~Unstarted(r)
        /\ message[r] = r
        /\ wait[r] # "none" /\ wait[r] # "rejected"

\* A WeCom turn with a record acts under it, and acts under no other record of
\* its own message.
ActsAsRow ==
    \A t \in Wecom :
        /\ Unstarted(t) => actsFor[t] = NoTurn /\ t \notin lateStart \cup refused
        /\ t \in rows[ChatOf[t]] => actsFor[t] = t

Unfinished(t) == status[t] \in {"active", "expired", "superseded"}

\* While it runs under its own record, its session is bound to its fence.
OwnFence ==
    \A t \in Wecom :
        /\ pc[t] = "queued" => Unfinished(t)
        /\ (Running(t) /\ actsFor[t] = t) => bySession[ChatOf[t]] = t /\ Unfinished(t)

\* A fence that is still active shows the Tool that runs.
ToolIsMarked ==
    \A t \in Wecom : (pc[t] = "tool" /\ actsFor[t] = t /\ Active(t)) => phase[t] = "tool"

\* The fence of a turn that was given up is not active.
GivenUpIsOver ==
    \A t \in Wecom : /\ wait[t] = "gaveUp" => status[t] # "active"
                     /\ pc[t] = "none" => wait[t] = "none"

\* One turn of a chat runs at a time.
OneRuns ==
    \A t, u \in Turns : (Running(t) /\ Running(u) /\ ChatOf[t] = ChatOf[u]) => t = u

\* A submission that is queued has a fresh record.
QueuedIsPending ==
    /\ \A t \in pending : t \in Robot /\ wait[t] # "none"
    /\ \A t \in Robot : pc[t] = "queued" => t \in pending /\ t \notin stale

\* A thread belongs to an admitted turn.
ThreadIsAdmitted ==
    \A t \in Turns : pc[t] # "none" => wait[t] # "none" /\ wait[t] # "rejected"

\* A turn acts for an admitted turn.
ActsForAdmitted ==
    \A t, u \in Turns : actsFor[t] = u => wait[u] # "none" /\ wait[u] # "rejected"

\* A turn acts for itself or for a turn of its chat that has started.
ActsInChat ==
    \A t, u \in Turns : actsFor[t] = u => ChatOf[u] = ChatOf[t] /\ ~Unstarted(u)

IInv ==
    /\ TypeOK /\ BoundInChat /\ RowsAreOwn /\ ActsAsRow /\ OwnFence /\ ToolIsMarked
    /\ GivenUpIsOver /\ OneRuns /\ QueuedIsPending /\ ThreadIsAdmitted
    /\ ActsForAdmitted /\ ActsInChat /\ FenceIsExact

-----------------------------------------------------------------------------
USE TurnConstants, GateConstants
    DEF Unstarted, Unfinished, Running, Active, Late, LateStates, Robot,
        fenceVars, contractVars, gateVars, robotVars, ghosts, Drop, Complete

\* The invariant holds before the first message.
LEMMA InitEstablishes == Init => IInv
  BY DEF Init, FenceInit, ContractInit, IInv, TypeOK, FenceType, ContractType,
    BoundInChat, RowsAreOwn, ActsAsRow, OwnFence, ToolIsMarked, GivenUpIsOver, OneRuns,
    QueuedIsPending, ThreadIsAdmitted, ActsForAdmitted, ActsInChat, FenceIsExact

\* A queued robot turn can only claim its own ingress: its record is pending and
\* fresh, so it is among the candidates, and a choice is made only of one.
LEMMA ClaimableIsOwn ==
    ASSUME NEW t \in pending \ stale, pending \subseteq Turns
    PROVE  Claimable(t) \subseteq {t}
<1> DEFINE C == IF Transforms THEN Kept ELSE {u \in Kept : TextOf[u] = TextOf[t]}
<1>1. t \in C  BY DEF Kept
<1>2. IsFiniteSet(C)  BY FS_Subset DEF Kept
<1>3. Cardinality(C) = 1 => \E x : C = {x}  BY <1>2, FS_Singleton
<1>4. QED  BY <1>1, <1>3 DEF Claimable

\* The callback handler and the robot adapter keep the invariant.
LEMMA CallersKeep ==
    ASSUME IInv, NEW t \in Turns, CallerStep(t)
    PROVE  IInv'
<1> USE DEF IInv
<1>1. CASE Begin(t)
  <2> USE <1>1 DEF Begin, BeginFence, Superseded
  <2>1. TypeOK' /\ BoundInChat' /\ OwnFence'
    BY DEF TypeOK, FenceType, ContractType, BoundInChat, OwnFence
  <2>2. RowsAreOwn' /\ ActsAsRow' /\ ToolIsMarked' /\ GivenUpIsOver'
    BY DEF TypeOK, FenceType, RowsAreOwn, ActsAsRow, ToolIsMarked, GivenUpIsOver
  <2>3. OneRuns' /\ QueuedIsPending' /\ ThreadIsAdmitted'
    BY DEF TypeOK, OneRuns, QueuedIsPending, ThreadIsAdmitted
  <2>4. ActsForAdmitted' /\ ActsInChat' /\ FenceIsExact'
    BY DEF TypeOK, ActsForAdmitted, ActsInChat, FenceIsExact
  <2>5. QED  BY <2>1, <2>2, <2>3, <2>4
<1>2. CASE DeadlinePasses(t)
  BY <1>2 DEF DeadlinePasses, TypeOK, FenceType, ContractType, BoundInChat, RowsAreOwn,
    ActsAsRow, OwnFence, ToolIsMarked, GivenUpIsOver, OneRuns, QueuedIsPending,
    ThreadIsAdmitted, ActsForAdmitted, ActsInChat, FenceIsExact
<1>3. CASE Respond(t)
  BY <1>3 DEF Respond, Finished, TypeOK, FenceType, ContractType, BoundInChat, RowsAreOwn,
    ActsAsRow, OwnFence, ToolIsMarked, GivenUpIsOver, OneRuns, QueuedIsPending,
    ThreadIsAdmitted, ActsForAdmitted, ActsInChat, FenceIsExact
<1>4. CASE RespondFailure(t)
  BY <1>4 DEF RespondFailure, GiveUp, Expired, TypeOK, FenceType, ContractType,
    BoundInChat, RowsAreOwn, ActsAsRow, OwnFence, ToolIsMarked, GivenUpIsOver, OneRuns,
    QueuedIsPending, ThreadIsAdmitted, ActsForAdmitted, ActsInChat, FenceIsExact
<1>5. CASE Timeout(t)
  <2>1. CASE Drop(t)
    BY <1>5, <2>1 DEF Timeout, GiveUp, Expired, TypeOK, FenceType, ContractType, BoundInChat,
      RowsAreOwn, ActsAsRow, OwnFence, ToolIsMarked, GivenUpIsOver, OneRuns,
      QueuedIsPending, ThreadIsAdmitted, ActsForAdmitted, ActsInChat, FenceIsExact
  <2>2. CASE UNCHANGED pc
    BY <1>5, <2>2 DEF Timeout, GiveUp, Expired, TypeOK, FenceType, ContractType, BoundInChat,
      RowsAreOwn, ActsAsRow, OwnFence, ToolIsMarked, GivenUpIsOver, OneRuns,
      QueuedIsPending, ThreadIsAdmitted, ActsForAdmitted, ActsInChat, FenceIsExact
  <2>3. QED  BY <1>5, <2>1, <2>2 DEF Timeout
<1>6. CASE Submit(t)
  BY <1>6 DEF Submit, AddIngress, Kept, Busy, TypeOK, FenceType, ContractType,
    BoundInChat, RowsAreOwn, ActsAsRow, OwnFence, ToolIsMarked, GivenUpIsOver, OneRuns,
    QueuedIsPending, ThreadIsAdmitted, ActsForAdmitted, ActsInChat, FenceIsExact
<1>7. CASE SubmitRaises(t)
  BY <1>7 DEF SubmitRaises, TypeOK, FenceType, ContractType, BoundInChat, RowsAreOwn,
    ActsAsRow, OwnFence, ToolIsMarked, GivenUpIsOver, OneRuns, QueuedIsPending,
    ThreadIsAdmitted, ActsForAdmitted, ActsInChat, FenceIsExact
<1>8. CASE RobotReturns(t)
  BY <1>8 DEF RobotReturns, TypeOK, FenceType, ContractType, BoundInChat, RowsAreOwn,
    ActsAsRow, OwnFence, ToolIsMarked, GivenUpIsOver, OneRuns, QueuedIsPending,
    ThreadIsAdmitted, ActsForAdmitted, ActsInChat, FenceIsExact
<1>9. CASE RobotTimeout(t)
  <2>1. CASE Drop(t)
    BY <1>9, <2>1 DEF RobotTimeout, TypeOK, FenceType, ContractType, BoundInChat,
      RowsAreOwn, ActsAsRow, OwnFence, ToolIsMarked, GivenUpIsOver, OneRuns,
      QueuedIsPending, ThreadIsAdmitted, ActsForAdmitted, ActsInChat, FenceIsExact
  <2>2. CASE UNCHANGED pc
    BY <1>9, <2>2 DEF RobotTimeout, TypeOK, FenceType, ContractType, BoundInChat,
      RowsAreOwn, ActsAsRow, OwnFence, ToolIsMarked, GivenUpIsOver, OneRuns,
      QueuedIsPending, ThreadIsAdmitted, ActsForAdmitted, ActsInChat, FenceIsExact
  <2>3. QED  BY <1>9, <2>1, <2>2 DEF RobotTimeout
<1>10. CASE Repeat(t)
  BY <1>10 DEF Repeat, TypeOK, FenceType, ContractType, BoundInChat,
    RowsAreOwn, ActsAsRow, OwnFence, ToolIsMarked, GivenUpIsOver, OneRuns,
    QueuedIsPending, ThreadIsAdmitted, ActsForAdmitted, ActsInChat, FenceIsExact
<1>11. CASE RobotHandsOver(t)
  BY <1>11 DEF RobotHandsOver, TypeOK, FenceType, ContractType, BoundInChat,
    RowsAreOwn, ActsAsRow, OwnFence, ToolIsMarked, GivenUpIsOver, OneRuns,
    QueuedIsPending, ThreadIsAdmitted, ActsForAdmitted, ActsInChat, FenceIsExact
<1>12. CASE RobotRecovers(t)
  BY <1>12 DEF RobotRecovers, TypeOK, FenceType, ContractType, BoundInChat,
    RowsAreOwn, ActsAsRow, OwnFence, ToolIsMarked, GivenUpIsOver, OneRuns,
    QueuedIsPending, ThreadIsAdmitted, ActsForAdmitted, ActsInChat, FenceIsExact
<1>13. QED  BY <1>1, <1>2, <1>3, <1>4, <1>5, <1>6, <1>7, <1>8, <1>9, <1>10, <1>11, <1>12
  DEF CallerStep

\* The turn enters the model under the record of an earlier turn.
LEMMA ReuseKeeps ==
    ASSUME IInv, NEW t \in Turns, NEW c \in Chats, PreLlmReuses(t, c)
    PROVE  IInv'
<1> USE DEF IInv
<1>1. PICK r \in rows[c] : EnterModel(t, c, message[r])
  BY DEF PreLlmReuses, Sole
<1>2. /\ r \in Turns /\ ChatOf[r] = c /\ r # t
      /\ message[r] \in Turns
      /\ t \in Wecom => message[r] = r
      /\ status[message[r]] # "none" => message[r] = r
  BY DEF RowsAreOwn, PreLlmReuses, Starts, BoundInChat, TypeOK, ContractType
<1> USE <1>1, <1>2 DEF PreLlmReuses, Starts, EnterModel, BindFence
<1>3. TypeOK'
  BY DEF TypeOK, FenceType, ContractType
<1>4. BoundInChat'
  BY DEF TypeOK, FenceType, BoundInChat, RowsAreOwn
<1>5. RowsAreOwn' /\ ActsAsRow' /\ GivenUpIsOver' /\ ToolIsMarked'
  BY DEF TypeOK, FenceType, RowsAreOwn, ActsAsRow, GivenUpIsOver, ToolIsMarked
<1>6. OwnFence'
  BY DEF TypeOK, FenceType, OwnFence
<1>7. OneRuns' /\ QueuedIsPending' /\ ThreadIsAdmitted'
  BY DEF TypeOK, OneRuns, QueuedIsPending, ThreadIsAdmitted
<1>8. ActsForAdmitted' /\ ActsInChat' /\ FenceIsExact'
  BY DEF TypeOK, ActsForAdmitted, ActsInChat, RowsAreOwn, FenceIsExact
<1>9. QED  BY <1>3, <1>4, <1>5, <1>6, <1>7, <1>8

\* A WeCom turn enters the model under a record of its own.
LEMMA BindKeeps ==
    ASSUME IInv, NEW t \in Turns, NEW c \in Chats, PreLlmBinds(t, c)
    PROVE  IInv'
<1> USE DEF IInv, PreLlmBinds, Starts, EnterModel, BindFence, BindRow
<1>1. status[t] # "none" /\ Unfinished(t)
  BY DEF OwnFence
<1>2. TypeOK'
  <2>1. FenceType' /\ ContractType'
    BY DEF TypeOK, FenceType, ContractType
  <2>2. QED  BY <2>1 DEF TypeOK
<1>3. BoundInChat'
  BY DEF TypeOK, FenceType, BoundInChat
<1>4. RowsAreOwn' /\ ActsAsRow' /\ GivenUpIsOver'
  BY DEF TypeOK, ContractType, RowsAreOwn, ThreadIsAdmitted, ActsAsRow, GivenUpIsOver
<1>5. OwnFence' /\ ToolIsMarked'
  BY <1>1 DEF TypeOK, FenceType, OwnFence, ToolIsMarked
<1>6. OneRuns' /\ QueuedIsPending' /\ ThreadIsAdmitted'
  BY DEF TypeOK, OneRuns, QueuedIsPending, ThreadIsAdmitted
<1>7. ActsForAdmitted' /\ ActsInChat' /\ FenceIsExact'
  BY DEF TypeOK, ActsForAdmitted, ActsInChat, ThreadIsAdmitted, ActsAsRow, FenceIsExact
<1>8. QED  BY <1>2, <1>3, <1>4, <1>5, <1>6, <1>7

\* A robot turn enters the model under its ingress record.
LEMMA ClaimKeeps ==
    ASSUME IInv, NEW t \in Turns, NEW c \in Chats, PreLlmClaims(t, c)
    PROVE  IInv'
<1> USE DEF IInv
<1>1. t \in pending \ stale /\ pending \subseteq Turns
  BY DEF PreLlmClaims, Starts, QueuedIsPending, TypeOK, ContractType
<1>2. ClaimIngress(c, t, t) /\ EnterModel(t, c, t)
  BY <1>1, ClaimableIsOwn DEF PreLlmClaims
<1>3. status[t] = "none"
  BY DEF PreLlmClaims, BoundInChat, TypeOK, FenceType
<1> USE <1>1, <1>2, <1>3
    DEF PreLlmClaims, Starts, ClaimIngress, EnterModel, BindFence, BindRow, Kept
<1>4. FenceType' /\ ContractType'
  BY DEF TypeOK, FenceType, ContractType
<1>5. TypeOK' /\ BoundInChat'
  BY <1>4 DEF TypeOK, BoundInChat
<1>6. RowsAreOwn' /\ ActsAsRow' /\ GivenUpIsOver'
  BY DEF TypeOK, ContractType, RowsAreOwn, ThreadIsAdmitted, ActsAsRow, GivenUpIsOver
<1>7. OwnFence' /\ ToolIsMarked' /\ OneRuns' /\ ThreadIsAdmitted'
  BY DEF TypeOK, OwnFence, ToolIsMarked, OneRuns, ThreadIsAdmitted
<1>8. QueuedIsPending'
  BY DEF TypeOK, QueuedIsPending
<1>9. ActsForAdmitted' /\ ActsInChat' /\ FenceIsExact'
  BY DEF TypeOK, ActsForAdmitted, ActsInChat, ThreadIsAdmitted, FenceIsExact
<1>10. QED  BY <1>5, <1>6, <1>7, <1>8, <1>9

\* Whatever record the contract names: a WeCom turn acts for itself if and only
\* if it has a record of its own, and then it did so before.
LEMMA ToolActsFor ==
    ASSUME IInv, NEW t \in Turns, NEW c \in Chats, NEW r \in Turns, AsksTool(t, c, r)
    PROVE  /\ r \in rows[c] /\ message[r] \in Turns
           /\ ChatOf[message[r]] = c /\ ~Unstarted(message[r])
           /\ wait[message[r]] # "none" /\ wait[message[r]] # "rejected"
           /\ t \in Wecom => (r = t \/ message[r] # t) /\ (t \in rows[c] => r = t)
           /\ (t \in Wecom /\ r = t) =>
                  actsFor[t] = t /\ message[r] = t /\ bySession[c] = t /\ Unfinished(t)
  BY DEF IInv, AsksTool, Trusted, Sole, RowsAreOwn, ActsAsRow, OwnFence

\* A Tool call passes the hook.
LEMMA ToolKeeps ==
    ASSUME IInv, NEW t \in Turns, NEW c \in Chats, PreTool(t, c)
    PROVE  IInv'
<1> USE DEF IInv
<1>1. PICK r \in Turns : AsksTool(t, c, r)
  BY DEF PreTool
<1>2. /\ r \in rows[c] /\ message[r] \in Turns
      /\ ChatOf[message[r]] = c /\ ~Unstarted(message[r])
      /\ wait[message[r]] # "none" /\ wait[message[r]] # "rejected"
      /\ t \in Wecom => (r = t \/ message[r] # t) /\ (t \in rows[c] => r = t)
      /\ (t \in Wecom /\ r = t) =>
             actsFor[t] = t /\ message[r] = t /\ bySession[c] = t /\ Unfinished(t)
  BY <1>1, ToolActsFor
<1> USE <1>1, <1>2 DEF PreTool, AsksTool, MarkPhase, Checked, Blocks, Bound
<1>3. FenceType' /\ ContractType'
  BY DEF TypeOK, FenceType, ContractType
<1>4. TypeOK' /\ BoundInChat'
  BY <1>3 DEF TypeOK, FenceType, BoundInChat
<1>5. RowsAreOwn' /\ ActsAsRow' /\ GivenUpIsOver'
  BY DEF TypeOK, FenceType, RowsAreOwn, ActsAsRow, GivenUpIsOver
<1>6. OwnFence' /\ ToolIsMarked'
  BY DEF TypeOK, FenceType, OwnFence, ToolIsMarked, BoundInChat
<1>7. OneRuns' /\ QueuedIsPending' /\ ThreadIsAdmitted'
  BY DEF TypeOK, OneRuns, QueuedIsPending, ThreadIsAdmitted
<1>8. ActsForAdmitted' /\ ActsInChat' /\ FenceIsExact'
  BY DEF TypeOK, FenceType, ActsForAdmitted, ActsInChat, FenceIsExact, GivenUpIsOver
<1>9. QED  BY <1>4, <1>5, <1>6, <1>7, <1>8

\* The hooks keep the invariant, each in the thread of its turn.
LEMMA HooksKeep ==
    ASSUME IInv, NEW t \in Turns, NEW c \in Chats, HookStep(t, c)
    PROVE  IInv'
<1>1. CASE PreLlmReuses(t, c)  BY <1>1, ReuseKeeps
<1>2. CASE PreLlmBinds(t, c)  BY <1>2, BindKeeps
<1>3. CASE PreLlmClaims(t, c)  BY <1>3, ClaimKeeps
<1>4. CASE PreTool(t, c)  BY <1>4, ToolKeeps
<1>5. CASE PreLlmRaises(t, c)
  BY <1>5 DEF PreLlmRaises, Starts,
    IInv, TypeOK, FenceType, ContractType, BoundInChat, RowsAreOwn, ActsAsRow, OwnFence,
    ToolIsMarked, GivenUpIsOver, OneRuns, QueuedIsPending, ThreadIsAdmitted,
    ActsForAdmitted, ActsInChat, FenceIsExact
<1>6. CASE PreLlmUncorrelated(t, c)
  BY <1>6 DEF PreLlmUncorrelated, Starts,
    IInv, TypeOK, FenceType, ContractType, BoundInChat, RowsAreOwn, ActsAsRow, OwnFence,
    ToolIsMarked, GivenUpIsOver, OneRuns, QueuedIsPending, ThreadIsAdmitted,
    ActsForAdmitted, ActsInChat, FenceIsExact
<1>7. CASE PreToolBlocked(t, c)
  BY <1>7 DEF PreToolBlocked, AsksTool, Trusted, Sole, Bound, Checked, Blocks,
    IInv, TypeOK, FenceType, ContractType, BoundInChat, RowsAreOwn, ActsAsRow, OwnFence,
    ToolIsMarked, GivenUpIsOver, OneRuns, QueuedIsPending, ThreadIsAdmitted,
    ActsForAdmitted, ActsInChat, FenceIsExact
<1>8. CASE PreApi(t, c)
  BY <1>8 DEF PreApi, MarkPhase, Bound,
    IInv, TypeOK, FenceType, ContractType, BoundInChat, RowsAreOwn, ActsAsRow, OwnFence,
    ToolIsMarked, GivenUpIsOver, OneRuns, QueuedIsPending, ThreadIsAdmitted,
    ActsForAdmitted, ActsInChat, FenceIsExact
<1>9. CASE PostLlmRetires(t, c)
  BY <1>9 DEF PostLlmRetires, Ends, Retire, Finished, Bound, ClearRows,
    IInv, TypeOK, FenceType, ContractType, BoundInChat, RowsAreOwn, ActsAsRow, OwnFence,
    ToolIsMarked, GivenUpIsOver, OneRuns, QueuedIsPending, ThreadIsAdmitted,
    ActsForAdmitted, ActsInChat, FenceIsExact
<1>10. CASE PostLlmKeeps(t, c)
  <2>1. PICK how \in {"done", "silent"} : Ends(t, c, how)
    BY <1>10 DEF PostLlmKeeps
  <2>2. status' = Checked(c) /\ UNCHANGED rows
    BY <1>10 DEF PostLlmKeeps
  <2>3. QED
    BY <2>1, <2>2 DEF Ends, Checked, Bound,
      IInv, TypeOK, FenceType, ContractType, BoundInChat, RowsAreOwn, ActsAsRow, OwnFence,
      ToolIsMarked, GivenUpIsOver, OneRuns, QueuedIsPending, ThreadIsAdmitted,
      ActsForAdmitted, ActsInChat, FenceIsExact
<1>11. CASE PostLlmUnknown(t, c)
  BY <1>11 DEF PostLlmUnknown, Ends,
    IInv, TypeOK, FenceType, ContractType, BoundInChat, RowsAreOwn, ActsAsRow, OwnFence,
    ToolIsMarked, GivenUpIsOver, OneRuns, QueuedIsPending, ThreadIsAdmitted,
    ActsForAdmitted, ActsInChat, FenceIsExact
<1>12. CASE RowLapses(t, c)
  BY <1>12 DEF RowLapses,
    IInv, TypeOK, FenceType, ContractType, BoundInChat, RowsAreOwn, ActsAsRow, OwnFence,
    ToolIsMarked, GivenUpIsOver, OneRuns, QueuedIsPending, ThreadIsAdmitted,
    ActsForAdmitted, ActsInChat, FenceIsExact
<1>13. QED  BY <1>1, <1>2, <1>3, <1>4, <1>5, <1>6, <1>7, <1>8, <1>9, <1>10, <1>11, <1>12
  DEF HookStep

\* The invariant is inductive.
LEMMA NextKeeps == IInv /\ [Next]_vars => IInv'
<1> SUFFICES ASSUME IInv, [Next]_vars PROVE IInv'
  OBVIOUS
<1>1. CASE \E t \in Turns : CallerStep(t)  BY <1>1, CallersKeep
<1>2. CASE \E t \in Turns : \E c \in Chats : HookStep(t, c)  BY <1>2, HooksKeep
<1>3. CASE \E t \in Turns : PostTool(t)
  BY <1>3 DEF PostTool,
    IInv, TypeOK, FenceType, ContractType, BoundInChat, RowsAreOwn, ActsAsRow, OwnFence,
    ToolIsMarked, GivenUpIsOver, OneRuns, QueuedIsPending, ThreadIsAdmitted,
    ActsForAdmitted, ActsInChat, FenceIsExact
<1>4. CASE \E t \in Turns : ThreadDies(t)
  BY <1>4 DEF ThreadDies,
    IInv, TypeOK, FenceType, ContractType, BoundInChat, RowsAreOwn, ActsAsRow, OwnFence,
    ToolIsMarked, GivenUpIsOver, OneRuns, QueuedIsPending, ThreadIsAdmitted,
    ActsForAdmitted, ActsInChat, FenceIsExact
<1>5. CASE \E t \in Turns : IngressLapses(t)
  BY <1>5 DEF IngressLapses,
    IInv, TypeOK, FenceType, ContractType, BoundInChat, RowsAreOwn, ActsAsRow, OwnFence,
    ToolIsMarked, GivenUpIsOver, OneRuns, QueuedIsPending, ThreadIsAdmitted,
    ActsForAdmitted, ActsInChat, FenceIsExact
<1>6. CASE UNCHANGED vars
  BY <1>6 DEF vars,
    IInv, TypeOK, FenceType, ContractType, BoundInChat, RowsAreOwn, ActsAsRow, OwnFence,
    ToolIsMarked, GivenUpIsOver, OneRuns, QueuedIsPending, ThreadIsAdmitted,
    ActsForAdmitted, ActsInChat, FenceIsExact
<1>7. QED  BY <1>1, <1>2, <1>3, <1>4, <1>5, <1>6 DEF Next

\* The invariant always holds.
LEMMA Invariance == Spec => []IInv
  BY InitEstablishes, NextKeeps, PTL DEF Spec

-----------------------------------------------------------------------------
\* The variables of the fence, the contract and the gate keep their types.
THEOREM TypeCorrect == Spec => []TypeOK
<1>1. IInv => TypeOK  BY DEF IInv
<1>2. QED  BY <1>1, Invariance, PTL

\* The fence neither lets a late WeCom turn start a Tool nor refuses one to a
\* turn in time, for turns under their own record: block_reason, which knows
\* only the session, finds the fence of the turn that asks.
THEOREM FenceHolds == Spec => []FenceIsExact
<1>1. IInv => FenceIsExact  BY DEF IInv
<1>2. QED  BY <1>1, Invariance, PTL

\* No turn acts for a submission that the robot refused: a turn claims a record
\* only if it is alone, and its own is always among them.
THEOREM AuthorityIsOwn == Spec => []NoStrayAuthority
<1>1. IInv => NoStrayAuthority  BY DEF IInv, ActsForAdmitted, NoStrayAuthority
<1>2. QED  BY <1>1, Invariance, PTL

\* A turn acts with the authority of its own chat: the record it finds, reuses or
\* claims is its own or that of a turn of the same chat which has started,
\* never that of another chat, of a turn to come or of an equal text elsewhere.
THEOREM AuthorityStaysInChat == Spec => []ActsInChat
<1>1. IInv => ActsInChat  BY DEF IInv
<1>2. QED  BY <1>1, Invariance, PTL

\* begin_callback_turn does not supersede a turn whose Tool runs: the phase it
\* looks at is that of the thread.
THEOREM ToolsRunOn == Spec => ToolIsNotCancelled
<1> DEFINE Kept1 == \A t \in Wecom : (pc[t] = "tool" /\ actsFor[t] = t /\ Active(t))
                                         => status'[t] # "superseded"
<1>1. ASSUME IInv, Next PROVE Kept1
  <2> SUFFICES ASSUME NEW t \in Wecom, pc[t] = "tool", Active(t), phase[t] = "tool"
               PROVE  status'[t] # "superseded"
    BY <1>1 DEF IInv, ToolIsMarked
  <2> USE DEF IInv, TypeOK, FenceType
  <2>1. CASE \E u \in Turns : CallerStep(u)
    BY <1>1, <2>1 DEF CallerStep, Begin, BeginFence, Superseded, DeadlinePasses,
      Respond, Finished, RespondFailure, Timeout, GiveUp, Expired,
      Submit, SubmitRaises, Repeat, RobotReturns, RobotTimeout, RobotHandsOver, RobotRecovers
  <2>2. CASE \E u \in Turns : PostTool(u) \/ ThreadDies(u) \/ IngressLapses(u)
    BY <1>1, <2>2 DEF PostTool, ThreadDies, IngressLapses
  <2>3. CASE \E u \in Turns : \E c \in Chats : HookStep(u, c)
    BY <1>1, <2>3 DEF HookStep, PreLlmRaises, PreLlmReuses, PreLlmBinds, PreLlmClaims,
      PreLlmUncorrelated, EnterModel, BindFence, PreTool, PreToolBlocked, AsksTool,
      Checked, Bound, PreApi, PostLlmRetires, Retire, Finished, PostLlmKeeps,
      PostLlmUnknown, RowLapses
  <2>4. QED  BY <1>1, <2>1, <2>2, <2>3 DEF Next
<1>2. IInv /\ [Next]_vars => [Kept1]_vars  BY <1>1
<1>3. QED  BY <1>2, Invariance, PTL DEF Spec, ToolIsNotCancelled
=============================================================================
