----------------------------- MODULE WorkInbox -----------------------------
(***************************************************************************)
(* DurableWorkInbox of work_runtime.py: facts, wake batches and leases in  *)
(* one SQLite database.  Every operator below that primes a variable is    *)
(* one BEGIN IMMEDIATE transaction.                                        *)
(*                                                                         *)
(* A batch is named by its partition and a generation (batch_id is a fresh *)
(* uuid); the unique index allows one active batch per partition, so only  *)
(* the newest generation is stored.  Deadlines are abstracted to bits: a   *)
(* lease_until that has passed, a not_before that has been reached.  The   *)
(* column pending_rerun is written and never read, and is left out; so is  *)
(* the ingestion of a fact that exists, which changes nothing.             *)
(***************************************************************************)
EXTENDS Integers, FiniteSets

CONSTANTS
    Facts,      \* work_ids
    Parts,      \* partition_ids
    PartOf,     \* the partition of each fact (TrustedWorkAuthority.partition_for)
    Rank,       \* the order of facts by created_at and work_id
    Workers,    \* worker_ids
    None,       \* a NULL lease_owner
    MaxFacts    \* max_facts of claim

ASSUME InboxConstants ==
    /\ PartOf \in [Facts -> Parts]
    /\ Rank \in [Facts -> Nat]
    /\ None \notin Workers
    /\ MaxFacts \in Nat \ {0}

VARIABLES
    fstate,     \* work_facts.state, "none" without a row
    fowner,     \* work_facts.lease_owner
    flate,      \* leased facts whose lease_until has passed
    bstate,     \* status of the active batch of a partition, "none" without
    bgen,       \* generation of the newest batch of a partition
    bowner,     \* wake_batches.lease_owner
    blate,      \* partitions whose batch has a lease_until that has passed
    bready,     \* partitions whose batch has reached its not_before
    sync        \* leased facts with the lease_until of their batch

factVars  == <<fstate, fowner, flate>>
batchVars == <<bstate, bgen, bowner, blate, bready>>
inbox     == <<fstate, fowner, flate, bstate, bgen, bowner, blate, bready, sync>>

InboxType ==
    /\ fstate \in [Facts -> {"none", "pending", "leased", "delivered"}]
    /\ fowner \in [Facts -> Workers \cup {None}]
    /\ flate \in SUBSET Facts
    /\ bstate \in [Parts -> {"none", "scheduled", "leased"}]
    /\ bgen \in [Parts -> Nat]
    /\ bowner \in [Parts -> Workers \cup {None}]
    /\ blate \in SUBSET Parts
    /\ bready \in SUBSET Parts
    /\ sync \in SUBSET Facts

InboxInit ==
    /\ fstate = [f \in Facts |-> "none"]
    /\ fowner = [f \in Facts |-> None]
    /\ flate = {}
    /\ bstate = [p \in Parts |-> "none"]
    /\ bgen = [p \in Parts |-> 0]
    /\ bowner = [p \in Parts |-> None]
    /\ blate = {}
    /\ bready = {}
    /\ sync = {}

-----------------------------------------------------------------------------
InPart(p)  == {f \in Facts : PartOf[f] = p}
Pending(p) == {f \in InPart(p) : fstate[f] = "pending"}

\* A WorkEnvelope names a batch that its worker still holds.
HoldsBatch(p, g, w) == bstate[p] = "leased" /\ bgen[p] = g /\ bowner[p] = w

HoldsFact(f, w) == fstate[f] = "leased" /\ fowner[f] = w

\* Seeded fault: INSERT OR REPLACE, a repeated ingestion starts over.
IngestReplaces(f) ==
    LET p == PartOf[f]
        fresh == IF bstate[p] = "none" THEN {p} ELSE {}
    IN  /\ fstate' = [fstate EXCEPT ![f] = "pending"]
        /\ bstate' = [q \in Parts |-> IF q \in fresh THEN "scheduled" ELSE bstate[q]]
        /\ bgen' = [q \in Parts |-> IF q \in fresh THEN bgen[q] + 1 ELSE bgen[q]]
        /\ bready' = bready \ fresh
        /\ UNCHANGED <<fowner, flate, bowner, blate, sync>>

\* ingest, with _ensure_batch: an active batch will pick the fact up, a new
\* one waits for the debounce.
Ingest(f) ==
    LET p == PartOf[f]
        fresh == IF bstate[p] = "none" THEN {p} ELSE {}
    IN  /\ fstate[f] = "none"
        /\ fstate' = [fstate EXCEPT ![f] = "pending"]
        /\ bstate' = [q \in Parts |-> IF q \in fresh THEN "scheduled" ELSE bstate[q]]
        /\ bgen' = [q \in Parts |-> IF q \in fresh THEN bgen[q] + 1 ELSE bgen[q]]
        /\ bready' = bready \ fresh
        /\ UNCHANGED <<fowner, flate, bowner, blate, sync>>

\* Seeded fault: expired batches are rescheduled, their facts stay leased.
RecoverBatchesOnly ==
    LET woken == {p \in Parts : bstate[p] = "leased" /\ p \in blate}
    IN  /\ bstate' = [p \in Parts |-> IF p \in woken THEN "scheduled" ELSE bstate[p]]
        /\ bowner' = [p \in Parts |-> IF p \in woken THEN None ELSE bowner[p]]
        /\ blate' = blate \ woken
        /\ bready' = bready \cup woken
        /\ UNCHANGED <<factVars, bgen, sync>>

\* recover: expired leases of facts and of batches are released, and pending
\* facts without an active batch get one that is due at once.
Recover ==
    LET freed   == {f \in Facts : fstate[f] = "leased" /\ f \in flate}
        woken   == {p \in Parts : bstate[p] = "leased" /\ p \in blate}
        missing == {p \in Parts : /\ bstate[p] = "none"
                                  /\ Pending(p) \cup (InPart(p) \cap freed) # {}}
    IN  /\ fstate' = [f \in Facts |-> IF f \in freed THEN "pending" ELSE fstate[f]]
        /\ fowner' = [f \in Facts |-> IF f \in freed THEN None ELSE fowner[f]]
        /\ flate' = flate \ freed
        /\ bstate' = [p \in Parts |->
                        IF p \in woken \cup missing THEN "scheduled" ELSE bstate[p]]
        /\ bgen' = [p \in Parts |-> IF p \in missing THEN bgen[p] + 1 ELSE bgen[p]]
        /\ bowner' = [p \in Parts |-> IF p \in woken THEN None ELSE bowner[p]]
        /\ blate' = blate \ woken
        /\ bready' = bready \cup woken \cup missing
        /\ sync' = {f \in sync \ freed : PartOf[f] \notin woken}

\* claim, its second transaction, for a scheduled batch that is due.  Its facts
\* are the oldest pending ones, at most max_facts.
Due(p) == bstate[p] = "scheduled" /\ p \in bready

Takes(p, taken) ==
    /\ taken \subseteq Pending(p)
    /\ Cardinality(taken) <= MaxFacts
    /\ taken = Pending(p) \/ Cardinality(taken) = MaxFacts
    /\ \A f \in taken, g \in Pending(p) \ taken : Rank[f] < Rank[g]

Claim(p, w, taken) ==
    /\ Due(p)
    /\ Takes(p, taken)
    /\ fstate' = [f \in Facts |-> IF f \in taken THEN "leased" ELSE fstate[f]]
    /\ fowner' = [f \in Facts |-> IF f \in taken THEN w ELSE fowner[f]]
    /\ flate' = flate \ taken
    /\ bstate' = [bstate EXCEPT ![p] = "leased"]
    /\ bowner' = [bowner EXCEPT ![p] = w]
    /\ blate' = blate \ {p}
    /\ sync' = (sync \ InPart(p)) \cup taken
    /\ UNCHANGED <<bgen, bready>>

\* Seeded fault: the batch is completed and none follows.
AcknowledgeNoRerun(p, g, w, all, done) ==
    LET mine == {f \in all : HoldsFact(f, w)}
    IN  /\ HoldsBatch(p, g, w)
        /\ fstate' = [f \in Facts |-> IF f \notin mine THEN fstate[f]
                                      ELSE IF f \in done THEN "delivered" ELSE "pending"]
        /\ fowner' = [f \in Facts |-> IF f \in mine THEN None ELSE fowner[f]]
        /\ flate' = flate \ mine
        /\ bstate' = [bstate EXCEPT ![p] = "none"]
        /\ bowner' = [bowner EXCEPT ![p] = None]
        /\ blate' = blate \ {p}
        /\ sync' = sync \ InPart(p)
        /\ UNCHANGED <<bgen, bready>>

\* acknowledge: the delivered facts are done, the others return to pending,
\* the batch is completed, and a new one follows if anything is pending.
Acknowledge(p, g, w, all, done) ==
    LET mine == {f \in all : HoldsFact(f, w)}
        rerun == (mine \ done) \cup Pending(p) # {}
    IN  /\ HoldsBatch(p, g, w)
        /\ fstate' = [f \in Facts |-> IF f \notin mine THEN fstate[f]
                                      ELSE IF f \in done THEN "delivered" ELSE "pending"]
        /\ fowner' = [f \in Facts |-> IF f \in mine THEN None ELSE fowner[f]]
        /\ flate' = flate \ mine
        /\ bstate' = [bstate EXCEPT ![p] = IF rerun THEN "scheduled" ELSE "none"]
        /\ bgen' = [bgen EXCEPT ![p] = IF rerun THEN @ + 1 ELSE @]
        /\ bowner' = [bowner EXCEPT ![p] = None]
        /\ blate' = blate \ {p}
        /\ bready' = IF rerun THEN bready \cup {p} ELSE bready
        /\ sync' = sync \ InPart(p)

\* Seeded fault: the deadline of the batch moves, that of its facts does not.
RenewLeaseBatchOnly(p, g, w, all) ==
    /\ HoldsBatch(p, g, w)
    /\ \A f \in all : HoldsFact(f, w)
    /\ blate' = blate \ {p}
    /\ sync' = sync \ InPart(p)
    /\ UNCHANGED <<factVars, bstate, bgen, bowner, bready>>

\* renew_lease: whether the deadline has passed is not looked at.
RenewLease(p, g, w, all) ==
    /\ HoldsBatch(p, g, w)
    /\ \A f \in all : HoldsFact(f, w)
    /\ flate' = flate \ all
    /\ blate' = blate \ {p}
    /\ sync' = (sync \ InPart(p)) \cup all
    /\ UNCHANGED <<fstate, fowner, bstate, bgen, bowner, bready>>

-----------------------------------------------------------------------------
(* The clock.                                                              *)

Debounced(p) ==
    /\ bstate[p] = "scheduled" /\ p \notin bready
    /\ bready' = bready \cup {p}
    /\ UNCHANGED <<factVars, bstate, bgen, bowner, blate, sync>>

\* The lease of a batch runs out, and with it that of the facts it shares
\* the deadline with.
LeaseExpires(p) ==
    /\ bstate[p] = "leased" /\ p \notin blate
    /\ blate' = blate \cup {p}
    /\ flate' = flate \cup (InPart(p) \cap sync)
    /\ UNCHANGED <<fstate, fowner, bstate, bgen, bowner, bready, sync>>

\* The lease of a fact runs out that has a deadline of its own.
FactLeaseExpires(f) ==
    /\ fstate[f] = "leased" /\ f \notin sync \cup flate
    /\ flate' = flate \cup {f}
    /\ UNCHANGED <<fstate, fowner, batchVars, sync>>

-----------------------------------------------------------------------------
(* What the inbox keeps, whoever uses it.                                  *)

\* A pending fact is never without an active batch that will wake a consumer
\* for it, whether it is new, was left over by max_facts, was returned by an
\* acknowledgement or by recover.
PendingHasBatch ==
    \A f \in Facts : fstate[f] = "pending" => bstate[PartOf[f]] # "none"

\* No consumer is woken for nothing: a scheduled batch has a pending fact.
NoEmptyWake ==
    \A p \in Parts : bstate[p] = "scheduled" => Pending(p) # {}

Ledger == INSTANCE FactLedger
            WITH place <- fstate, holder <- fowner, late <- flate,
                 watched <- {p \in Parts : bstate[p] # "none"}

\* With its batches, generations, debounces and recoveries the inbox implements
\* the promise of FactLedger: a lease ends by its holder's acknowledgement or
\* after it ran out, a delivered fact is never handed out again, a consumer is
\* woken for every pending fact and never for nothing.
ImplementsLedger == Ledger!Spec
=============================================================================
