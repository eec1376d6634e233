------------------------- MODULE InboxWorkersProofs -------------------------
(***************************************************************************)
(* Safety of the work inbox with its consumers, for every number of facts, *)
(* partitions, consumers and worker_ids, and every max_facts.              *)
(***************************************************************************)
EXTENDS InboxWorkers, WorkInboxProofs

USE WorkersConstants DEF WorkersConstants

\* The envelope of a working consumer holds facts of its partition, at least
\* one: claim hands out nothing else.
EnvelopesFit ==
    \A h \in Holders : step[h] = "working" =>
        /\ envelope[h].facts # {}
        /\ envelope[h].facts \subseteq InPart(envelope[h].part)

InboxInv == TypeOK /\ WakeInv /\ EnvelopesFit

\* The invariant holds of an empty inbox with idle consumers.
LEMMA InboxInvInitially == Init => InboxInv
<1> SUFFICES ASSUME Init PROVE InboxInv
  OBVIOUS
<1>1. InboxType /\ WakeInv
  BY InboxTypeInitially, WakeInitially DEF Init
<1> QED
  BY <1>1 DEF Init, InboxInv, TypeOK, EnvelopesFit

\* What a consumer does to the inbox is a transaction or nothing.
LEMMA StepIsTransaction ==
  ASSUME InboxInv, Next
  PROVE  Transaction \/ UNCHANGED inbox
<1> USE DEF InboxInv, TypeOK, Envelopes, InboxType
<1>1. ASSUME NEW f \in Facts, IngestFact(f)
      PROVE  Transaction
  BY <1>1 DEF IngestFact, Transaction
<1>2. ASSUME NEW h \in Holders, ClaimRecover(h)
      PROVE  Transaction
  BY <1>2 DEF ClaimRecover, Transaction
<1>3. ASSUME NEW h \in Holders, ClaimSelect(h)
      PROVE  Transaction
  BY <1>3 DEF ClaimSelect, Transaction
<1>4. ASSUME NEW h \in Holders, Renew(h)
      PROVE  Transaction
  BY <1>4 DEF Renew, Transaction, EnvelopesFit
<1>5. ASSUME NEW h \in Holders, AcknowledgeAll(h)
      PROVE  Transaction
  BY <1>5 DEF AcknowledgeAll, Transaction, EnvelopesFit
<1>6. ASSUME NEW h \in Holders, AcknowledgeSome(h)
      PROVE  Transaction
  BY <1>6 DEF AcknowledgeSome, Transaction, EnvelopesFit
<1>7. ASSUME NEW h \in Holders, ClaimNothing(h) \/ LeaseLost(h) \/ Crash(h)
      PROVE  UNCHANGED inbox
  BY <1>7 DEF ClaimNothing, LeaseLost, Crash
<1>8. CASE Clock
  BY <1>8 DEF Clock, Transaction
<1> QED
  BY <1>1, <1>2, <1>3, <1>4, <1>5, <1>6, <1>7, <1>8 DEF Next, Consume

\* Consumers stay well typed, and their envelopes fit.
LEMMA ConsumersKept ==
  ASSUME InboxInv, Next
  PROVE  /\ step' \in [Holders -> {"idle", "selecting", "working"}]
         /\ envelope' \in [Holders -> Envelopes \cup {NoEnvelope}]
         /\ \A h \in Holders : step'[h] = "working" => envelope'[h] \in Envelopes
         /\ EnvelopesFit'
<1> DEFINE Goal == /\ step' \in [Holders -> {"idle", "selecting", "working"}]
                   /\ envelope' \in [Holders -> Envelopes \cup {NoEnvelope}]
                   /\ \A h \in Holders : step'[h] = "working" => envelope'[h] \in Envelopes
                   /\ EnvelopesFit'
<1> USE DEF InboxInv, TypeOK, EnvelopesFit, consumers, InPart
<1>1. ASSUME NEW f \in Facts, IngestFact(f)
      PROVE  Goal
  BY <1>1 DEF IngestFact
<1>2. ASSUME NEW h \in Holders, ClaimRecover(h)
      PROVE  Goal
  BY <1>2 DEF ClaimRecover
<1>3. ASSUME NEW h \in Holders, ClaimSelect(h)
      PROVE  Goal
  <2>1. PICK p \in Parts : \E taken \in SUBSET InPart(p) :
          /\ Claim(p, WorkerOf[h], taken)
          /\ envelope' = [envelope EXCEPT
                            ![h] = [part |-> p, gen |-> bgen[p], facts |-> taken]]
    BY <1>3 DEF ClaimSelect
  <2>2. PICK taken \in SUBSET InPart(p) :
          /\ Claim(p, WorkerOf[h], taken)
          /\ envelope' = [envelope EXCEPT
                            ![h] = [part |-> p, gen |-> bgen[p], facts |-> taken]]
    BY <2>1
  <2>3. taken # {}
    BY <2>2, ClaimTakesSome DEF Claim, Due, WakeInv, NoEmptyWake
  <2>4. [part |-> p, gen |-> bgen[p], facts |-> taken] \in Envelopes
    BY DEF Envelopes, InboxType
  <2> QED
    BY <1>3, <2>2, <2>3, <2>4 DEF ClaimSelect
<1>4. ASSUME NEW h \in Holders, Renew(h)
      PROVE  Goal
  BY <1>4 DEF Renew
<1>5. ASSUME NEW h \in Holders, Drop(h)
      PROVE  Goal
  BY <1>5 DEF Drop
<1>6. ASSUME NEW h \in Holders,
             \/ AcknowledgeAll(h) \/ AcknowledgeSome(h) \/ LeaseLost(h)
             \/ ClaimNothing(h) \/ Crash(h)
      PROVE  Goal
  BY <1>5, <1>6 DEF AcknowledgeAll, AcknowledgeSome, LeaseLost, ClaimNothing, Crash
<1>7. CASE Clock
  BY <1>7 DEF Clock
<1> QED
  BY <1>1, <1>2, <1>3, <1>4, <1>6, <1>7 DEF Next, Consume

\* Nothing else than the inbox's variables matters to its invariants.
LEMMA InboxUnchanged ==
  ASSUME UNCHANGED inbox
  PROVE  (InboxType => InboxType') /\ (WakeInv => WakeInv')
BY DEF inbox, InboxType, WakeInv, PendingHasBatch, NoEmptyWake, LeaseShared, Pending, InPart

\* The invariant is inductive.
LEMMA InboxInvStep == InboxInv /\ [Next]_vars => InboxInv'
<1> SUFFICES ASSUME InboxInv, [Next]_vars PROVE InboxInv'
  OBVIOUS
<1>1. CASE Next
  <2>1. InboxType' /\ WakeInv'
    BY <1>1, StepIsTransaction, InboxTypeKept, WakeKept, InboxUnchanged DEF InboxInv, TypeOK
  <2> QED
    BY <1>1, <2>1, ConsumersKept DEF InboxInv, TypeOK
<1>2. CASE UNCHANGED vars
  <2>1. UNCHANGED inbox /\ UNCHANGED consumers
    BY <1>2 DEF vars, consumers
  <2>2. InboxType' /\ WakeInv'
    BY <2>1, InboxUnchanged DEF InboxInv, TypeOK
  <2> QED
    BY <2>1, <2>2 DEF InboxInv, TypeOK, EnvelopesFit, consumers, InPart
<1> QED
  BY <1>1, <1>2

\* Type correctness of the inbox and of its consumers.
THEOREM InboxTypeCorrect == Spec => []TypeOK
<1>1. InboxInv => TypeOK
  BY DEF InboxInv
<1> QED
  BY InboxInvInitially, InboxInvStep, <1>1, PTL DEF Spec

\* A pending fact always has an active batch, for any max_facts and any sharing of
\* worker_ids: recover, a claim that leaves facts over and a partial
\* acknowledgement each schedule what they return.
THEOREM PendingIsWoken == Spec => []PendingHasBatch
<1>1. InboxInv => PendingHasBatch
  BY DEF InboxInv, WakeInv
<1> QED
  BY InboxInvInitially, InboxInvStep, <1>1, PTL DEF Spec

\* A scheduled batch always has a pending fact: the facts of a batch that recover
\* wakes share its deadline and are returned with it.
THEOREM WakesHaveWork == Spec => []NoEmptyWake
<1>1. InboxInv => NoEmptyWake
  BY DEF InboxInv, WakeInv
<1> QED
  BY InboxInvInitially, InboxInvStep, <1>1, PTL DEF Spec

\* A delivered fact stays delivered: no step of any consumer, however stale its
\* envelope, leases or schedules it again.
THEOREM DeliveredForGood == Spec => DeliveredIsFinal
<1>1. ASSUME InboxInv, [Next]_vars, NEW f \in Facts, fstate[f] = "delivered"
      PROVE  fstate'[f] = "delivered"
  <2>1. CASE Next
    BY <1>1, <2>1, StepIsTransaction, DeliveredKept DEF InboxInv, TypeOK, inbox
  <2>2. CASE UNCHANGED vars
    BY <1>1, <2>2 DEF vars, inbox
  <2> QED
    BY <1>1, <2>1, <2>2
<1>2. InboxInv /\ [Next]_vars =>
        [\A f \in Facts : fstate[f] = "delivered" => fstate'[f] = "delivered"]_vars
  BY <1>1
<1> QED
  BY InboxInvInitially, InboxInvStep, <1>2, PTL DEF Spec, DeliveredIsFinal

-----------------------------------------------------------------------------
(* An accepted acknowledgement settles its whole envelope.                 *)

\* A consumer with an id of its own that owns its batch holds every fact of its
\* envelope, under the deadline of the batch.  A rescheduled batch keeps its
\* batch_id, so the deadline is what ties the facts to this lease.
ExactInv ==
    \A h \in Holders : Alone(h) /\ Owns(h) =>
        \A f \in envelope[h].facts : HoldsFact(f, WorkerOf[h]) /\ f \in sync

\* Idle consumers own nothing.
LEMMA ExactInitially == Init => ExactInv
  BY DEF Init, ExactInv, Owns

\* No other consumer, recover or lease that runs out separates them.
LEMMA ExactStep == InboxInv /\ ExactInv /\ [Next]_vars => ExactInv'
<1> SUFFICES ASSUME InboxInv, ExactInv, [Next]_vars,
                    NEW h \in Holders, Alone(h), Owns(h)', NEW f \in envelope'[h].facts
             PROVE  HoldsFact(f, WorkerOf[h])' /\ f \in sync'
  BY DEF ExactInv, Alone
<1> USE DEF ExactInv, InboxInv, TypeOK, InboxType, EnvelopesFit, WakeInv, LeaseShared,
        Owns, HoldsBatch, HoldsFact, InPart, consumers, factVars, batchVars
<1>1. CASE UNCHANGED vars
  BY <1>1 DEF vars, inbox
<1>2. ASSUME NEW e \in Facts, IngestFact(e)
      PROVE  HoldsFact(f, WorkerOf[h])' /\ f \in sync'
  <2>1. UNCHANGED <<step, envelope, bowner, fowner, sync>>
    BY <1>2 DEF IngestFact, Ingest
  <2>2. Owns(h)
    BY <1>2, <2>1 DEF IngestFact, Ingest, Envelopes
  <2>3. QED  BY <1>2, <2>1, <2>2 DEF IngestFact, Ingest
<1>3. ASSUME NEW k \in Holders, ClaimRecover(k)
      PROVE  HoldsFact(f, WorkerOf[h])' /\ f \in sync'
  <2>1. envelope' = envelope /\ step[h] = "working"
    BY <1>3 DEF ClaimRecover
  <2>2. /\ envelope[h].part \in Parts
        /\ f \in Facts /\ PartOf[f] = envelope[h].part
    BY <2>1 DEF Envelopes
  <2>3. Owns(h) /\ envelope[h].part \notin blate
    BY <1>3, <2>1, <2>2 DEF ClaimRecover, Recover
  <2>4. HoldsFact(f, WorkerOf[h]) /\ f \in sync /\ f \notin flate
    BY <2>1, <2>2, <2>3
  <2>5. QED  BY <1>3, <2>2, <2>3, <2>4 DEF ClaimRecover, Recover
<1>4. ASSUME NEW k \in Holders, ClaimSelect(k)
      PROVE  HoldsFact(f, WorkerOf[h])' /\ f \in sync'
  <2> DEFINE Gets(p, taken) ==
        /\ Claim(p, WorkerOf[k], taken)
        /\ envelope' = [envelope EXCEPT
                          ![k] = [part |-> p, gen |-> bgen[p], facts |-> taken]]
  <2>1. PICK p \in Parts : \E taken \in SUBSET InPart(p) : Gets(p, taken)
    BY <1>4, Zenon DEF ClaimSelect
  <2>2. PICK taken \in SUBSET InPart(p) : Gets(p, taken)
    BY <2>1, Zenon
  <2>3. CASE k = h
    BY <2>2, <2>3 DEF Claim
  <2>4. CASE k # h
    BY <1>4, <2>2, <2>4 DEF ClaimSelect, Claim, Takes, Due, Pending, Alone
  <2>5. QED  BY <2>3, <2>4
<1>5. ASSUME NEW k \in Holders, Renew(k)
      PROVE  HoldsFact(f, WorkerOf[h])' /\ f \in sync'
  BY <1>5 DEF Renew, RenewLease, Alone
<1>6. ASSUME NEW k \in Holders, AcknowledgeAll(k) \/ AcknowledgeSome(k)
      PROVE  HoldsFact(f, WorkerOf[h])' /\ f \in sync'
  <2>1. PICK done \in SUBSET envelope[k].facts :
          Acknowledge(envelope[k].part, envelope[k].gen, WorkerOf[k],
                      envelope[k].facts, done)
    BY <1>6 DEF AcknowledgeAll, AcknowledgeSome
  <2>2. Drop(k) /\ step[k] = "working" /\ k # h
    BY <1>6 DEF AcknowledgeAll, AcknowledgeSome, Drop
  <2>3. envelope[k].part # envelope[h].part
    BY <2>1, <2>2 DEF Acknowledge, Drop, Alone
  <2>4. QED  BY <2>1, <2>2, <2>3 DEF Acknowledge, Drop, Envelopes
<1>7. ASSUME NEW k \in Holders, ClaimNothing(k) \/ LeaseLost(k) \/ Crash(k)
      PROVE  HoldsFact(f, WorkerOf[h])' /\ f \in sync'
  BY <1>7 DEF ClaimNothing, LeaseLost, Crash, Drop, inbox
<1>8. CASE Clock
  BY <1>8 DEF Clock, Debounced, LeaseExpires, FactLeaseExpires
<1> QED
  BY <1>1, <1>2, <1>3, <1>4, <1>5, <1>6, <1>7, <1>8 DEF Next, Consume

\* An acknowledgement that is accepted covers the whole envelope, however late it
\* comes: for any number of consumers, as long as this one's id is its own.
THEOREM AcknowledgementIsExact == Spec => []AckIsExact
<1>1. ExactInv => AckIsExact
  BY DEF ExactInv, AckIsExact
<1> QED
  BY InboxInvInitially, InboxInvStep, ExactInitially, ExactStep, <1>1, PTL DEF Spec

-----------------------------------------------------------------------------
(* The refinement.                                                         *)

\* Every behaviour of the inbox, with any number of consumers that crash, lose
\* their leases or share a worker_id, is one of FactLedger.
THEOREM InboxImplementsLedger == Spec => ImplementsLedger
<1>1. Init => Ledger!Init
  BY LedgerInitially DEF Init
<1>2. InboxInv /\ [Next]_vars => [Ledger!Next]_(Ledger!ledger)
  <2> SUFFICES ASSUME InboxInv, [Next]_vars PROVE [Ledger!Next]_(Ledger!ledger)
    OBVIOUS
  <2>1. CASE Transaction
    BY <2>1, LedgerStep DEF InboxInv, TypeOK
  <2>2. CASE UNCHANGED inbox
    BY <2>2 DEF inbox, Ledger!ledger
  <2> QED
    BY <2>1, <2>2, StepIsTransaction DEF vars, inbox
<1> QED
  BY InboxInvInitially, InboxInvStep, <1>1, <1>2, PTL DEF Spec, ImplementsLedger, Ledger!Spec
=============================================================================
