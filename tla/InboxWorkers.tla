---------------------------- MODULE InboxWorkers ----------------------------
(***************************************************************************)
(* The work inbox with the consumers its interface allows: several         *)
(* processes that ingest, claim, renew and acknowledge, crash, and may or  *)
(* may not share a worker_id (CurrentWorkspaceAgenda uses one per tenant). *)
(* claim is two transactions, and other processes run between them.        *)
(***************************************************************************)
EXTENDS WorkInbox

CONSTANTS
    Holders,     \* consumers of the inbox
    WorkerOf,    \* the worker_id a consumer uses
    NoEnvelope,  \* no WorkEnvelope at hand
    MaxBatches   \* bound on the batches that partial and empty acknowledgements open

ASSUME WorkersConstants ==
    /\ WorkerOf \in [Holders -> Workers]
    /\ MaxBatches \in Nat

VARIABLES
    step,       \* where a consumer stands: idle, selecting (in claim), working
    envelope    \* the WorkEnvelope a consumer works on

consumers == <<step, envelope>>
vars      == <<inbox, step, envelope>>

Envelopes == [part : Parts, gen : Nat, facts : SUBSET Facts]

TypeOK ==
    /\ InboxType
    /\ step \in [Holders -> {"idle", "selecting", "working"}]
    /\ envelope \in [Holders -> Envelopes \cup {NoEnvelope}]
    /\ \A h \in Holders : step[h] = "working" => envelope[h] \in Envelopes

Init ==
    /\ InboxInit
    /\ step = [h \in Holders |-> "idle"]
    /\ envelope = [h \in Holders |-> NoEnvelope]

Drop(h) ==
    /\ step' = [step EXCEPT ![h] = "idle"]
    /\ envelope' = [envelope EXCEPT ![h] = NoEnvelope]

\* The batch of the envelope is still leased to this worker_id.
Owns(h) ==
    /\ step[h] = "working"
    /\ HoldsBatch(envelope[h].part, envelope[h].gen, WorkerOf[h])

-----------------------------------------------------------------------------
IngestFact(f) ==
    /\ Ingest(f)
    /\ UNCHANGED consumers

ClaimRecover(h) ==
    /\ step[h] = "idle"
    /\ Recover
    /\ step' = [step EXCEPT ![h] = "selecting"]
    /\ UNCHANGED envelope

ClaimSelect(h) ==
    /\ step[h] = "selecting"
    /\ \E p \in Parts : \E taken \in SUBSET InPart(p) :
         /\ Claim(p, WorkerOf[h], taken)
         /\ envelope' = [envelope EXCEPT
                           ![h] = [part |-> p, gen |-> bgen[p], facts |-> taken]]
    /\ step' = [step EXCEPT ![h] = "working"]

ClaimNothing(h) ==
    /\ step[h] = "selecting"
    /\ \A p \in Parts : ~Due(p)
    /\ Drop(h)
    /\ UNCHANGED inbox

Renew(h) ==
    /\ step[h] = "working"
    /\ RenewLease(envelope[h].part, envelope[h].gen, WorkerOf[h], envelope[h].facts)
    /\ UNCHANGED consumers

\* The last batches are kept for acknowledgements that deliver something.
AcknowledgeAll(h) ==
    /\ step[h] = "working"
    /\ \/ bgen[envelope[h].part] < MaxBatches
       \/ \E f \in envelope[h].facts : HoldsFact(f, WorkerOf[h])
    /\ Acknowledge(envelope[h].part, envelope[h].gen, WorkerOf[h],
                   envelope[h].facts, envelope[h].facts)
    /\ Drop(h)

AcknowledgeSome(h) ==
    /\ step[h] = "working"
    /\ bgen[envelope[h].part] < MaxBatches
    /\ \E done \in SUBSET envelope[h].facts :
         /\ done # envelope[h].facts
         /\ Acknowledge(envelope[h].part, envelope[h].gen, WorkerOf[h],
                        envelope[h].facts, done)
    /\ Drop(h)

\* WorkLeaseLost: the envelope is worth nothing any more.
LeaseLost(h) ==
    /\ step[h] = "working"
    /\ ~Owns(h)
    /\ Drop(h)
    /\ UNCHANGED inbox

Crash(h) ==
    /\ step[h] # "idle"
    /\ Drop(h)
    /\ UNCHANGED inbox

Clock ==
    /\ \/ \E p \in Parts : Debounced(p) \/ LeaseExpires(p)
       \/ \E f \in Facts : FactLeaseExpires(f)
    /\ UNCHANGED consumers

Consume(h) ==
    \/ ClaimRecover(h) \/ ClaimSelect(h) \/ ClaimNothing(h)
    \/ Renew(h)
    \/ AcknowledgeAll(h) \/ AcknowledgeSome(h) \/ LeaseLost(h)
    \/ Crash(h)

Next ==
    \/ \E f \in Facts : IngestFact(f)
    \/ \E h \in Holders : Consume(h)
    \/ Clock

Spec == Init /\ [][Next]_vars

-----------------------------------------------------------------------------
(* Fairness: every consumer polls, the clock advances, and a consumer that *)
(* works on a fact again and again acknowledges it before it loses its     *)
(* lease or crashes.                                                       *)

Delivers(f) ==
    \E h \in Holders :
        step[h] = "working" /\ f \in envelope[h].facts /\ HoldsFact(f, WorkerOf[h])
          /\ AcknowledgeAll(h)

Fairness ==
    /\ \A h \in Holders : /\ WF_vars(ClaimRecover(h))
                          /\ WF_vars(ClaimSelect(h) \/ ClaimNothing(h))
                          /\ WF_vars(AcknowledgeAll(h) \/ LeaseLost(h))
    /\ \A p \in Parts : /\ WF_vars(Debounced(p) /\ UNCHANGED consumers)
                        /\ WF_vars(LeaseExpires(p) /\ UNCHANGED consumers)
                        /\ SF_vars(\E h \in Holders : ClaimSelect(h) /\ bstate'[p] # bstate[p])
    /\ \A f \in Facts : /\ WF_vars(FactLeaseExpires(f) /\ UNCHANGED consumers)
                        /\ SF_vars(Delivers(f))

FairSpec == Spec /\ Fairness

-----------------------------------------------------------------------------
(* Properties.                                                             *)

\* Nobody else uses the worker_id of this consumer.
Alone(h) == \A k \in Holders : WorkerOf[k] = WorkerOf[h] => k = h

\* An acknowledgement that is accepted settles the whole envelope: a consumer
\* with an id of its own that still owns its batch still owns every fact it was
\* given, however late it is and whatever the others do.
AckIsExact ==
    \A h \in Holders : Alone(h) /\ Owns(h) =>
        \A f \in envelope[h].facts : HoldsFact(f, WorkerOf[h])

\* A delivered fact is delivered for good: not leased or scheduled again by a
\* late recovery, a repeated ingestion or a stale envelope.
DeliveredIsFinal ==
    [][\A f \in Facts : fstate[f] = "delivered" => fstate'[f] = "delivered"]_vars

\* Every fact is delivered in the end, although consumers crash, lose their
\* leases or share one worker_id.
FactIsDelivered ==
    \A f \in Facts : (fstate[f] = "pending") ~> (fstate[f] = "delivered")
=============================================================================
