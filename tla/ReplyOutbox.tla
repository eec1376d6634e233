---------------------------- MODULE ReplyOutbox ----------------------------
(***************************************************************************)
(* DurableReplyOutbox of work_runtime.py: one row of reply_jobs for each   *)
(* operation.  An operator that primes variables is one transaction.       *)
(*                                                                         *)
(* generation_state and delivery_state are kept as they are stored.  A     *)
(* lease_until is abstracted to whether it has passed.  The outbox has one *)
(* worker_id at a time (one ReplyRecoveryAdapter drains it), so lease_owner *)
(* adds nothing to delivery_state = 'leased', which is shared by leases    *)
(* for generation and for delivery.  business_truth, agent_truth, tenants, *)
(* partitions and destinations are fixed for an operation; the conflicts   *)
(* they are checked for cannot arise from its own callbacks.               *)
(***************************************************************************)
EXTENDS Integers, FiniteSets

CONSTANTS
    Ops,        \* operation_ids: verified operations and notices
    NoText      \* an empty reply_text

ASSUME OutboxConstants ==
    /\ IsFiniteSet(Ops)
    /\ NoText \notin {"terminal", "recovered"}

VARIABLES
    gen,        \* generation_state, "none" without a row
    dlv,        \* delivery_state
    hold,       \* rows with delivery_hold = 1
    text,       \* reply_text: the Agent's own or the recovered one
    unported,   \* rows with last_error = 'channel_unregistered'
    lapsed,     \* leased rows whose lease_until has passed
    born        \* created_at, as a rank

outbox == <<gen, dlv, hold, text, unported, lapsed, born>>

Texts == {"terminal", "recovered"}

OutboxType ==
    /\ gen \in [Ops -> {"none", "pending_generation", "generated", "generation_failed"}]
    /\ dlv \in [Ops -> {"not_ready", "pending", "leased", "delivered",
                        "blocked", "unknown", "suppressed"}]
    /\ hold \in SUBSET Ops
    /\ text \in [Ops -> Texts \cup {NoText}]
    /\ unported \in SUBSET Ops
    /\ lapsed \in SUBSET Ops
    /\ born \in [Ops -> Nat]

OutboxInit ==
    /\ gen = [o \in Ops |-> "none"]
    /\ dlv = [o \in Ops |-> "not_ready"]
    /\ hold = {}
    /\ text = [o \in Ops |-> NoText]
    /\ unported = {}
    /\ lapsed = {}
    /\ born = [o \in Ops |-> 0]

Jobs == {o \in Ops : gen[o] # "none"}

-----------------------------------------------------------------------------
\* The delivery_state of a row once its text is known.
Ready(held) == IF held THEN "not_ready" ELSE "pending"

Insert(o, t, held) ==
    /\ gen' = [gen EXCEPT ![o] = IF t # NoText THEN "generated" ELSE "pending_generation"]
    /\ dlv' = [dlv EXCEPT ![o] = Ready(held \/ t = NoText)]
    /\ hold' = IF held THEN hold \cup {o} ELSE hold
    /\ text' = [text EXCEPT ![o] = t]
    /\ born' = [born EXCEPT ![o] = Cardinality(Jobs)]
    /\ UNCHANGED <<unported, lapsed>>

\* The first text of a row makes it generated, whatever its delivery_state.
SetFirstText(o, t) ==
    /\ gen' = [gen EXCEPT ![o] = "generated"]
    /\ dlv' = [dlv EXCEPT ![o] = Ready(o \in hold)]
    /\ text' = [text EXCEPT ![o] = t]
    /\ UNCHANGED <<hold, unported, lapsed, born>>

\* observe_agent_terminal, for a verified operation.
ObserveTerminal(o, t, held) ==
    \/ gen[o] = "none" /\ Insert(o, t, held)
    \/ gen[o] # "none" /\ t # NoText /\ text[o] = NoText /\ SetFirstText(o, t)
    \/ gen[o] # "none" /\ (t = NoText \/ text[o] # NoText) /\ UNCHANGED outbox

\* observe_agent_notice: always with a text, never generated again.
ObserveNotice(o, t, held) ==
    \/ gen[o] = "none" /\ Insert(o, t, held)
    \/ gen[o] # "none" /\ text[o] = t /\ UNCHANGED outbox

\* Seeded fault: a lapsed lease is left to its worker.
RecoveredKeepsLease == dlv

\* recover: the delivery_state of every row once lapsed leases are released.
Recovered ==
    [o \in Ops |-> IF dlv[o] = "leased" /\ o \in lapsed
                   THEN Ready(gen[o] # "generated" \/ o \in hold)
                   ELSE dlv[o]]

Recover ==
    /\ dlv' = Recovered
    /\ lapsed' = {o \in lapsed : Recovered[o] = "leased"}
    /\ UNCHANGED <<gen, hold, text, unported, born>>

\* The rows _claim may take after its recover.
Generable   == {o \in Ops : gen[o] = "pending_generation" /\ Recovered[o] = "not_ready"}
Deliverable == {o \in Ops : gen[o] = "generated" /\ Recovered[o] = "pending"}

\* ORDER BY created_at LIMIT 1.
Oldest(o, rows) == o \in rows /\ \A p \in rows : born[o] <= born[p]

\* _claim: recover, then the oldest row is leased.
Claim(o, rows) ==
    /\ Oldest(o, rows)
    /\ dlv' = [Recovered EXCEPT ![o] = "leased"]
    /\ lapsed' = {p \in lapsed : Recovered[p] = "leased"}
    /\ UNCHANGED <<gen, hold, text, unported, born>>

\* _finish: by the holder of a lease, however old the lease is.
Finish(o, g, d, t) ==
    /\ dlv[o] = "leased"
    /\ gen' = [gen EXCEPT ![o] = g]
    /\ dlv' = [dlv EXCEPT ![o] = d]
    /\ text' = [text EXCEPT ![o] = t]
    /\ unported' = unported \ {o}
    /\ lapsed' = lapsed \ {o}
    /\ UNCHANGED <<hold, born>>

\* Seeded fault: a reply that is generated again is due at once.
CompleteGenerationDue(o, ok) ==
    IF ok THEN Finish(o, "generated", "pending", "recovered")
          ELSE Finish(o, "generation_failed", "not_ready", text[o])

\* complete_generation, for a turn that selected no Tool.
CompleteGeneration(o, ok) ==
    IF ok THEN Finish(o, "generated", Ready(o \in hold), "recovered")
          ELSE Finish(o, "generation_failed", "not_ready", text[o])

\* Seeded fault: a lost answer counts as a delivery.
CompleteDeliveryGuesses(o, outcome) ==
    \/ outcome \in {"delivered", "unknown"} /\ Finish(o, "generated", "delivered", text[o])
    \/ outcome = "rejected" /\ Finish(o, "generated", "blocked", text[o])
    \/ outcome = "failed" /\ Finish(o, "generated", "pending", text[o])

\* Seeded fault: a lost answer counts as a failure.
CompleteDeliveryRetries(o, outcome) ==
    \/ outcome = "delivered" /\ Finish(o, "generated", "delivered", text[o])
    \/ outcome \in {"failed", "unknown"} /\ Finish(o, "generated", "pending", text[o])
    \/ outcome = "rejected" /\ Finish(o, "generated", "blocked", text[o])

\* complete_delivery, complete_delivery_unknown and complete_delivery_blocked
\* as DurableReplyDeliveryDispatcher chooses between them.
CompleteDelivery(o, outcome) ==
    \/ outcome = "delivered" /\ Finish(o, "generated", "delivered", text[o])
    \/ outcome = "failed" /\ Finish(o, "generated", "pending", text[o])
    \/ outcome = "rejected" /\ Finish(o, "generated", "blocked", text[o])
    \/ outcome = "unknown" /\ Finish(o, "generated", "unknown", text[o])

\* release_delivery_hold.
ReleaseHold(o) ==
    /\ o \in hold
    /\ hold' = hold \ {o}
    /\ dlv' = [dlv EXCEPT ![o] = Ready(gen[o] # "generated")]
    /\ UNCHANGED <<gen, text, unported, lapsed, born>>

\* requeue_blocked_channel.
RequeueBlocked ==
    LET parked == {o \in Ops : /\ gen[o] = "generated" /\ dlv[o] = "blocked"
                               /\ o \in unported}
    IN  /\ dlv' = [o \in Ops |-> IF o \in parked THEN "pending" ELSE dlv[o]]
        /\ unported' = unported \ parked
        /\ UNCHANGED <<gen, hold, text, lapsed, born>>

\* suppress_pending_delivery.
Suppressible(o) ==
    gen[o] = "generated" /\ dlv[o] \in {"pending", "blocked", "not_ready"}

Suppress(o) ==
    /\ Suppressible(o)
    /\ dlv' = [dlv EXCEPT ![o] = "suppressed"]
    /\ unported' = unported \ {o}
    /\ lapsed' = lapsed \ {o}
    /\ UNCHANGED <<gen, hold, text, born>>

\* reconcile_unknown_delivery.
ReconcileUnknown(o, delivered) ==
    /\ dlv[o] = "unknown"
    /\ dlv' = [dlv EXCEPT ![o] = IF delivered THEN "delivered" ELSE "pending"]
    /\ unported' = unported \ {o}
    /\ UNCHANGED <<gen, hold, text, lapsed, born>>

\* Seeded fault: any reply nobody works on is generated again.
RequeueGenerationAnyway(o) ==
    /\ gen[o] # "none" /\ dlv[o] # "leased"
    /\ gen' = [gen EXCEPT ![o] = "pending_generation"]
    /\ dlv' = [dlv EXCEPT ![o] = "not_ready"]
    /\ lapsed' = lapsed \ {o}
    /\ UNCHANGED <<hold, text, unported, born>>

\* requeue_generation.
RequeueGeneration(o) ==
    /\ gen[o] = "generation_failed"
    /\ gen' = [gen EXCEPT ![o] = "pending_generation"]
    /\ dlv' = [dlv EXCEPT ![o] = "not_ready"]
    /\ lapsed' = lapsed \ {o}
    /\ UNCHANGED <<hold, text, unported, born>>
=============================================================================
