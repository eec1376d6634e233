---------------------------- MODULE AgendaTickets ----------------------------
(***************************************************************************)
(* The Agenda: a coordinator process (CurrentWorkspaceAgenda) turns facts  *)
(* of the work inbox into service tickets, and a Gateway platform adapter  *)
(* (AgendaServiceWorkAdapter) in another process submits tickets to Hermes *)
(* as Agent turns.  They share one SQLite database and nothing else.       *)
(*                                                                         *)
(* A service fact has a partition of its own (its trusted session is its   *)
(* event and version), so a ticket is named by its fact; `issued` counts   *)
(* the tickets of a fact, which OneTicketPerFact keeps at one.  Every      *)
(* action that writes the database is one transaction of the code.  The    *)
(* coordinator reads the time once per cycle, so for it leases and         *)
(* debounces run out between cycles only.  The partition of a fact has     *)
(* one batch all its life, so bgen is the batch_id of its ticket.          *)
(*                                                                         *)
(* Left out: the texts of tickets and replies, what _stage_terminal puts   *)
(* into the reply outbox, audit and status rows, and the bookkeeping of    *)
(* duplicate terminals (_completed_ticket_by_chat), which only decides     *)
(* what a duplicate call answers.                                          *)
(***************************************************************************)
EXTENDS WorkInbox

CONSTANTS
    Coordinator,  \* worker_id of the tenant's coordinator
    MaxFaults     \* bound on crashes, aborted cycles, reconnects, failed staging

\* A partition per fact, one worker_id for the coordinator of a tenant.
ASSUME AgendaConstants ==
    /\ Parts = Facts
    /\ \A f \in Facts : PartOf[f] = f
    /\ Coordinator \in Workers
    /\ None \notin Facts
    /\ MaxFaults \in Nat

VARIABLES
    tstate,     \* state of the ticket of a fact, "none" without a row
    acked,      \* tickets with inbox_ack_state 'acknowledged'
    lapsed,     \* tickets whose expires_at has passed
    cpc,        \* where run_once of the coordinator stands
    rows,       \* tickets still to visit of the query the cycle is working off
    subject,    \* fact claimed or acknowledged by the step before, or None
    online,     \* the adapter is connected, its drain loop runs
    ready,      \* the source toolsets are registered in the Gateway process
    waiting,    \* the submit_ticket in flight: its ticket, or None
    alarm,      \* wait_for of the submission: "none", "answered", "timeout"
    events,     \* MessageEvents of a ticket that no turn has picked up
    running,    \* claimed turns that have not reached the terminal hook
    settle,     \* settle_public_model_terminal of a ticket: "no", the outcome
                \* it is about to write, or "wake"
    issued,     \* history: tickets issued per fact
    turns,      \* history: turns that claimed a ticket, per fact
    denied,     \* history: facts whose ticket ran out in its queue while the
                \* toolsets were not registered
    afaults

coordVars  == <<cpc, rows, subject>>
hermesVars == <<events, running, settle>>
history    == <<issued, turns, denied>>
gateVars   == <<online, ready, waiting, alarm>>
vars == <<inbox, tstate, acked, lapsed, coordVars, gateVars, hermesVars, history, afaults>>

Open     == {"issued", "dispatched", "agent_claimed"}
Terminal == {"completed", "timeout", "failed", "expired"}

TypeOK ==
    /\ InboxType
    /\ tstate \in [Facts -> {"none"} \cup Open \cup Terminal]
    /\ acked \in SUBSET Facts
    /\ lapsed \in SUBSET Facts
    /\ cpc \in {"idle", "scan", "expire", "renew", "reconcile", "mark", "claim",
                "select", "issue"}
    /\ rows \in SUBSET Facts
    /\ subject \in Facts \cup {None}
    /\ cpc \in {"mark", "issue"} => subject \in Facts
    /\ online \in BOOLEAN
    /\ ready \in BOOLEAN
    /\ waiting \in Facts \cup {None}
    /\ alarm \in {"none", "answered", "timeout"}
    /\ events \in [Facts -> Nat]
    /\ running \in SUBSET Facts
    /\ settle \in [Facts -> {"no", "completed", "failed", "wake"}]
    /\ issued \in [Facts -> Nat]
    /\ turns \in [Facts -> Nat]
    /\ denied \in SUBSET Facts
    /\ afaults \in 0..MaxFaults

Init ==
    /\ InboxInit
    /\ tstate = [f \in Facts |-> "none"]
    /\ acked = {} /\ lapsed = {}
    /\ cpc = "idle" /\ rows = {} /\ subject = None
    /\ online = FALSE /\ ready = FALSE /\ waiting = None /\ alarm = "none"
    /\ events = [f \in Facts |-> 0]
    /\ running = {}
    /\ settle = [f \in Facts |-> "no"]
    /\ issued = [f \in Facts |-> 0]
    /\ turns = [f \in Facts |-> 0]
    /\ denied = {}
    /\ afaults = 0

Fault == afaults < MaxFaults /\ afaults' = afaults + 1

-----------------------------------------------------------------------------
(* The coordinator: one cycle of run_once.                                 *)

\* What the coordinator leaves alone.
Aside == <<gateVars, hermesVars, turns, denied>>

CycleStart ==
    /\ cpc = "idle"
    /\ cpc' = "scan"
    /\ UNCHANGED <<inbox, tstate, acked, lapsed, rows, subject, Aside, issued, afaults>>

\* scan_workspace: any number of facts, a transaction each.
ScanIngest(f) ==
    /\ cpc = "scan"
    /\ Ingest(f)
    /\ UNCHANGED <<tstate, acked, lapsed, coordVars, Aside, issued, afaults>>

ScanDone ==
    /\ cpc = "scan"
    /\ cpc' = "expire"
    /\ rows' = {f \in lapsed : tstate[f] = "agent_claimed"}
    /\ UNCHANGED <<inbox, tstate, acked, lapsed, subject, Aside, issued, afaults>>

\* Seeded fault: an orphaned turn is waited for.
ExpireTicketNever(f) ==
    /\ cpc = "expire" /\ f \in rows
    /\ rows' = rows \ {f}
    /\ UNCHANGED <<inbox, tstate, acked, lapsed, cpc, subject, Aside, issued, afaults>>

\* _expire_orphaned_agent_tickets, one row: a compare-and-set.
ExpireTicket(f) ==
    /\ cpc = "expire" /\ f \in rows
    /\ rows' = rows \ {f}
    /\ tstate' = [tstate EXCEPT ![f] = IF @ = "agent_claimed" THEN "expired" ELSE @]
    /\ UNCHANGED <<inbox, acked, lapsed, cpc, subject, Aside, issued, afaults>>

\* Its terminal could not be staged: left to a later cycle.
ExpireDeferred(f) ==
    /\ cpc = "expire" /\ f \in rows
    /\ Fault
    /\ rows' = rows \ {f}
    /\ UNCHANGED <<inbox, tstate, acked, lapsed, cpc, subject, Aside, issued>>

\* Seeded fault: a ticket nobody dispatched yet is not renewed.
RenewableDispatched(f) == tstate[f] \in {"dispatched", "agent_claimed"}

\* The tickets _renew_open_tickets selects.
Renewable(f) == tstate[f] \in Open

ExpireDone ==
    /\ cpc = "expire" /\ rows = {}
    /\ cpc' = "renew"
    /\ rows' = {f \in Facts : Renewable(f)}
    /\ UNCHANGED <<inbox, tstate, acked, lapsed, subject, Aside, issued, afaults>>

RenewTicket(f) ==
    /\ cpc = "renew" /\ f \in rows
    /\ rows' = rows \ {f}
    /\ RenewLease(f, bgen[f], Coordinator, {f})
    /\ UNCHANGED <<tstate, acked, lapsed, cpc, subject, Aside, issued, afaults>>

\* Seeded fault: a claimed turn counts as delivered.
ReconcilableClaimed(f) == tstate[f] \in Terminal \cup {"agent_claimed"} /\ f \notin acked

\* The tickets _reconcile_terminal_tickets selects.
Reconcilable(f) == tstate[f] \in Terminal /\ f \notin acked

RenewDone ==
    /\ cpc = "renew" /\ rows = {}
    /\ cpc' = "reconcile"
    /\ rows' = {f \in Facts : Reconcilable(f)}
    /\ UNCHANGED <<inbox, tstate, acked, lapsed, subject, Aside, issued, afaults>>

\* _reconcile_terminal_tickets, one row: the inbox is acknowledged first ...
ReconcileTicket(f) ==
    /\ cpc = "reconcile" /\ f \in rows
    /\ Acknowledge(f, bgen[f], Coordinator, {f}, {f})
    /\ cpc' = "mark" /\ subject' = f
    /\ UNCHANGED <<tstate, acked, lapsed, rows, Aside, issued, afaults>>

\* ... and the ticket marked in a transaction of its own.
MarkReconciled ==
    /\ cpc = "mark"
    /\ acked' = acked \cup {subject}
    /\ rows' = rows \ {subject}
    /\ cpc' = "reconcile" /\ subject' = None
    /\ UNCHANGED <<inbox, tstate, lapsed, Aside, issued, afaults>>

\* WorkLeaseLost, in _renew_open_tickets and in _reconcile_terminal_tickets.
TicketLeaseLost(f) ==
    /\ f \in rows
    /\ \/ cpc = "renew" /\ ~(/\ HoldsBatch(f, bgen[f], Coordinator)
                             /\ HoldsFact(f, Coordinator))
       \/ cpc = "reconcile" /\ ~HoldsBatch(f, bgen[f], Coordinator)
    /\ rows' = rows \ {f}
    /\ UNCHANGED <<inbox, tstate, acked, lapsed, cpc, subject, Aside, issued, afaults>>

ReconcileDone ==
    /\ cpc = "reconcile" /\ rows = {}
    /\ cpc' = "claim"
    /\ UNCHANGED <<inbox, tstate, acked, lapsed, rows, subject, Aside, issued, afaults>>

ClaimRecover ==
    /\ cpc = "claim"
    /\ Recover
    /\ cpc' = "select"
    /\ UNCHANGED <<tstate, acked, lapsed, rows, subject, Aside, issued, afaults>>

ClaimSelect(f) ==
    /\ cpc = "select"
    /\ Claim(f, Coordinator, Pending(f))
    /\ cpc' = IF Pending(f) = {} THEN "idle" ELSE "issue"   \* agenda_envelope_empty
    /\ subject' = IF Pending(f) = {} THEN None ELSE f
    /\ UNCHANGED <<tstate, acked, lapsed, rows, Aside, issued, afaults>>

ClaimNothing ==
    /\ cpc = "select"
    /\ \A p \in Parts : ~Due(p)
    /\ cpc' = "idle"
    /\ UNCHANGED <<inbox, tstate, acked, lapsed, rows, subject, Aside, issued, afaults>>

\* _issue_ticket; the ticket refers to the batch that was just claimed.
IssueTicket ==
    /\ cpc = "issue"
    /\ tstate' = [tstate EXCEPT ![subject] = "issued"]
    /\ acked' = acked \ {subject}
    /\ lapsed' = lapsed \ {subject}
    /\ issued' = [issued EXCEPT ![subject] = @ + 1]
    /\ cpc' = "idle" /\ subject' = None
    /\ UNCHANGED <<inbox, rows, Aside, afaults>>

\* The process dies, or the cycle ends in an exception that main records.
CycleAborted ==
    /\ cpc # "idle"
    /\ Fault
    /\ cpc' = "idle" /\ rows' = {} /\ subject' = None
    /\ UNCHANGED <<inbox, tstate, acked, lapsed, Aside, issued>>

-----------------------------------------------------------------------------
(* The Gateway process: adapter and Hermes.                                *)

\* What the Gateway process leaves alone.
Away == <<inbox, acked, coordVars, issued, denied>>

\* Seeded fault: tickets of interrupted turns go back to the queue as well.
RequeueInterrupted == [f \in Facts |->
    IF tstate[f] \in {"dispatched", "agent_claimed"} THEN "issued" ELSE tstate[f]]

\* _requeue_unclaimed_dispatches.
Requeued == [f \in Facts |-> IF tstate[f] = "dispatched" THEN "issued" ELSE tstate[f]]

Connect ==
    /\ ~online
    /\ online' = TRUE
    /\ tstate' = Requeued
    /\ UNCHANGED <<Away, lapsed, ready, waiting, alarm, hermesVars, turns, afaults>>

\* disconnect cancels the drain loop first.  That empties the map of active
\* tickets in submit_ticket's finally, so the loop that would end them as
\* 'failed' finds none.  A timeout that is being handled holds the event loop.
Disconnect ==
    /\ online /\ alarm # "timeout"
    /\ Fault
    /\ online' = FALSE
    /\ waiting' = None /\ alarm' = "none"
    /\ UNCHANGED <<Away, tstate, lapsed, ready, hermesVars, turns>>

\* The Gateway process dies with everything it holds in memory.
GatewayCrash ==
    /\ Fault
    /\ online' = FALSE /\ ready' = FALSE
    /\ waiting' = None /\ alarm' = "none"
    /\ events' = [f \in Facts |-> 0]
    /\ running' = {}
    /\ settle' = [f \in Facts |-> "no"]
    /\ UNCHANGED <<Away, tstate, lapsed, turns>>

\* The XiaoYou capability package has registered its tools; it may never.
ToolsetsReady ==
    /\ ~ready
    /\ ready' = TRUE
    /\ UNCHANGED <<Away, tstate, lapsed, online, waiting, alarm, hermesVars, turns, afaults>>

\* _next_issued_ticket_id expires tickets before it looks for the next one.
ExpireIssued ==
    /\ online /\ waiting = None
    /\ \E f \in lapsed : tstate[f] = "issued"
    /\ tstate' = [f \in Facts |-> IF tstate[f] = "issued" /\ f \in lapsed
                                  THEN "expired" ELSE tstate[f]]
    /\ UNCHANGED <<Away, lapsed, gateVars, hermesVars, turns, afaults>>

\* submit_ticket up to the wait for the answer: nothing for a runtime that is
\* not ready; _claim_issued_ticket and _dispatch otherwise.
SubmitTicket(f) ==
    /\ online /\ waiting = None
    /\ ready
    /\ tstate[f] = "issued" /\ f \notin lapsed
    /\ tstate' = [tstate EXCEPT ![f] = "dispatched"]
    /\ events' = [events EXCEPT ![f] = @ + 1]
    /\ waiting' = f /\ alarm' = "none"
    /\ UNCHANGED <<Away, lapsed, online, ready, running, settle, turns, afaults>>

\* _dispatch raises: the event is not taken and the ticket has failed.
DispatchFails(f) ==
    /\ online /\ waiting = None
    /\ ready
    /\ tstate[f] = "issued" /\ f \notin lapsed
    /\ Fault
    /\ tstate' = [tstate EXCEPT ![f] = "failed"]
    /\ UNCHANGED <<Away, lapsed, gateVars, hermesVars, turns>>

SubmitAnswered ==
    /\ waiting # None /\ alarm = "answered"
    /\ waiting' = None /\ alarm' = "none"
    /\ UNCHANGED <<Away, tstate, lapsed, online, ready, hermesVars, turns, afaults>>

SubmitTimeout ==
    /\ waiting # None /\ alarm = "none"
    /\ alarm' = "timeout"
    /\ UNCHANGED <<Away, tstate, lapsed, online, ready, waiting, hermesVars, turns, afaults>>

\* _complete, whatever the state of the ticket.
CompleteTimeout ==
    /\ alarm = "timeout"
    /\ tstate' = [tstate EXCEPT ![waiting] = "timeout"]
    /\ waiting' = None /\ alarm' = "none"
    /\ UNCHANGED <<Away, lapsed, online, ready, hermesVars, turns, afaults>>

-----------------------------------------------------------------------------
(* Turns, on the worker threads of Hermes.                                 *)

\* Seeded fault: the hook claims a ticket by its digest alone.
ClaimableAnyState(f) == f \notin lapsed

\* The row claim_agenda_service_turn_for_agent looks for.
ClaimableTicket(f) == tstate[f] = "dispatched" /\ f \notin lapsed

\* The pre-LLM hook of a turn: without a ticket it stays untrusted.
TurnStarts(f) ==
    /\ events[f] > 0
    /\ events' = [events EXCEPT ![f] = @ - 1]
    /\ IF ClaimableTicket(f)
       THEN /\ tstate' = [tstate EXCEPT ![f] = "agent_claimed"]
            /\ running' = running \cup {f}
            /\ turns' = [turns EXCEPT ![f] = @ + 1]
       ELSE UNCHANGED <<tstate, running, turns>>
    /\ UNCHANGED <<Away, lapsed, gateVars, settle, afaults>>

\* settle_public_model_terminal: the ticket is still the active one of its
\* chat and claimed.  Without a reply, a staged terminal or a continuation
\* the outcome is 'failed'.
TurnEnds(f) ==
    /\ f \in running
    /\ running' = running \ {f}
    /\ IF waiting = f /\ tstate[f] = "agent_claimed"
       THEN \E outcome \in {"completed", "failed"} :
              settle' = [settle EXCEPT ![f] = outcome]
       ELSE UNCHANGED settle
    /\ UNCHANGED <<Away, tstate, lapsed, gateVars, events, turns, afaults>>

\* _complete_from_public_terminal: a compare-and-set ...
SettleWrite(f) ==
    /\ settle[f] \in {"completed", "failed"}
    /\ tstate' = [tstate EXCEPT ![f] = IF @ = "agent_claimed" THEN settle[f] ELSE @]
    /\ settle' = [settle EXCEPT ![f] = "wake"]
    /\ UNCHANGED <<Away, lapsed, gateVars, events, running, turns, afaults>>

\* ... and the future of the submission, if it still waits.
SettleWake(f) ==
    /\ settle[f] = "wake"
    /\ settle' = [settle EXCEPT ![f] = "no"]
    /\ alarm' = IF waiting = f /\ alarm = "none" THEN "answered" ELSE alarm
    /\ UNCHANGED <<Away, tstate, lapsed, online, ready, waiting, events, running, turns, afaults>>

-----------------------------------------------------------------------------
(* The clock.                                                              *)

TicketLapses(f) ==
    /\ tstate[f] # "none" /\ f \notin lapsed
    /\ lapsed' = lapsed \cup {f}
    /\ denied' = IF tstate[f] = "issued" /\ ~ready THEN denied \cup {f} ELSE denied
    /\ UNCHANGED <<inbox, tstate, acked, coordVars, gateVars, hermesVars, issued, turns,
                   afaults>>

BetweenCycles(f) ==
    /\ cpc = "idle"
    /\ Debounced(f) \/ LeaseExpires(f)
    /\ UNCHANGED <<tstate, acked, lapsed, coordVars, gateVars, hermesVars, history, afaults>>

-----------------------------------------------------------------------------
Cycle ==
    \/ CycleStart
    \/ ScanDone
    \/ (\E f \in Facts : ExpireTicket(f)) \/ ExpireDone
    \/ (\E f \in Facts : RenewTicket(f)) \/ RenewDone
    \/ (\E f \in Facts : ReconcileTicket(f)) \/ MarkReconciled
    \/ (\E f \in Facts : TicketLeaseLost(f)) \/ ReconcileDone
    \/ ClaimRecover \/ (\E f \in Facts : ClaimSelect(f)) \/ ClaimNothing
    \/ IssueTicket

Coordinate ==
    \/ Cycle
    \/ CycleAborted
    \/ \E f \in Facts : ScanIngest(f) \/ ExpireDeferred(f)

Gateway ==
    \/ Connect \/ Disconnect \/ GatewayCrash \/ ToolsetsReady
    \/ ExpireIssued \/ SubmitAnswered \/ SubmitTimeout \/ CompleteTimeout
    \/ \E f \in Facts :
         \/ SubmitTicket(f) \/ DispatchFails(f)
         \/ TurnStarts(f) \/ TurnEnds(f) \/ SettleWrite(f) \/ SettleWake(f)

Next ==
    \/ Coordinate
    \/ Gateway
    \/ \E f \in Facts : TicketLapses(f) \/ BetweenCycles(f)

Spec == Init /\ [][Next]_vars

(* Fairness: the coordinator is restarted and goes through its cycle, the  *)
(* adapter reconnects and polls, wait_for fires, the clock advances.       *)
(* Nothing is assumed of the toolsets, of Hermes or of the turns.  MaxFaults *)
(* also bounds how often a cycle is aborted: a coordinator whose every     *)
(* cycle raises, on a row it cannot handle, makes no progress in the code  *)
(* and is left out.                                                        *)
Fairness ==
    /\ WF_vars(Cycle)
    /\ WF_vars(Connect) /\ SF_vars(ExpireIssued)
    /\ WF_vars(SubmitAnswered) /\ WF_vars(SubmitTimeout) /\ WF_vars(CompleteTimeout)
    /\ \A f \in Facts : WF_vars(TicketLapses(f)) /\ SF_vars(BetweenCycles(f))

FairSpec == Spec /\ Fairness

-----------------------------------------------------------------------------
(* Properties.                                                             *)

\* The inbox has been told of the end of the ticket.
Settled(f) == f \in acked \/ fstate[f] = "delivered"

\* While a ticket is open, or ended and not yet acknowledged, the coordinator
\* holds the lease of its fact: no crash, slow turn or long pause between two
\* cycles lets recover hand the fact out again, because a cycle renews expired
\* leases of open tickets before it recovers.
OneTicketPerFact ==
    \A f \in Facts :
        /\ issued[f] <= 1
        /\ tstate[f] # "none" /\ ~Settled(f) => HoldsFact(f, Coordinator)

\* A fact starts at most one trusted Agent turn, whatever crashes and reconnects
\* happen: a turn that may have reached a protected tool is never redelivered.
OneTurnPerFact == \A f \in Facts : turns[f] <= 1

\* The inbox counts a fact as delivered only when its ticket has ended: a turn
\* that has not ended still holds its fact.
DeliveredHasEnded ==
    \A f \in Facts : fstate[f] = "delivered" => tstate[f] \in Terminal

\* A ticket that has ended is never opened again, not by a reconnect, by a
\* late event or by a turn that outlived its submission.
EndedStaysEnded ==
    [][\A f \in Facts : tstate[f] \in Terminal => tstate'[f] \in Terminal]_vars

\* Every fact whose ticket had a runtime to run on is consumed in the end, even
\* if its turn vanishes with the Gateway process.  Nothing is claimed of a ticket
\* that ran out while the toolsets were not registered: submit_ticket says that
\* such a runtime "must not consume the durable work fact".
FactIsConsumed ==
    \A f \in Facts : (fstate[f] = "pending") ~> (fstate[f] = "delivered" \/ f \in denied)
=============================================================================
