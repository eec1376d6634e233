--------------------------- MODULE WorkInboxProofs ---------------------------
(***************************************************************************)
(* Facts about the transactions of the work inbox, for every set of facts, *)
(* partitions and workers: they keep its types, and they keep the wake     *)
(* batches in step with the work.                                          *)
(***************************************************************************)
EXTENDS WorkInbox, FiniteSetTheorems, TLAPS

USE InboxConstants DEF InboxConstants

\* Any of the transactions, with the envelopes the inbox hands out: facts of
\* the partition of the batch, at least one.
Transaction ==
    \/ \E f \in Facts : Ingest(f) \/ FactLeaseExpires(f)
    \/ Recover
    \/ \E p \in Parts : Debounced(p) \/ LeaseExpires(p)
    \/ \E p \in Parts, w \in Workers :
         \/ \E taken \in SUBSET InPart(p) : Claim(p, w, taken)
         \/ \E g \in Nat : \E all \in SUBSET InPart(p) :
              /\ all # {}
              /\ \/ RenewLease(p, g, w, all)
                 \/ \E done \in SUBSET all : Acknowledge(p, g, w, all, done)

\* An empty inbox is well typed.
LEMMA InboxTypeInitially == InboxInit => InboxType
BY DEF InboxInit, InboxType

\* Every transaction keeps the types of the tables.
LEMMA InboxTypeKept == InboxType /\ Transaction => InboxType'
<1> SUFFICES ASSUME InboxType, Transaction PROVE InboxType'
  OBVIOUS
<1> USE DEF InboxType, factVars, batchVars
<1>1. ASSUME NEW f \in Facts, Ingest(f)
      PROVE  InboxType'
  BY <1>1 DEF Ingest
<1>2. ASSUME NEW f \in Facts, FactLeaseExpires(f)
      PROVE  InboxType'
  BY <1>2 DEF FactLeaseExpires
<1>3. CASE Recover
  BY <1>3 DEF Recover
<1>4. ASSUME NEW p \in Parts, Debounced(p)
      PROVE  InboxType'
  BY <1>4 DEF Debounced
<1>5. ASSUME NEW p \in Parts, LeaseExpires(p)
      PROVE  InboxType'
  BY <1>5 DEF LeaseExpires, InPart
<1>6. ASSUME NEW p \in Parts, NEW w \in Workers, NEW taken \in SUBSET InPart(p),
             Claim(p, w, taken)
      PROVE  InboxType'
  BY <1>6 DEF Claim, InPart
<1>7. ASSUME NEW p \in Parts, NEW w \in Workers, NEW g \in Nat,
             NEW all \in SUBSET InPart(p), RenewLease(p, g, w, all)
      PROVE  InboxType'
  BY <1>7 DEF RenewLease, InPart
<1>8. ASSUME NEW p \in Parts, NEW w \in Workers, NEW g \in Nat,
             NEW all \in SUBSET InPart(p), NEW done \in SUBSET all,
             Acknowledge(p, g, w, all, done)
      PROVE  InboxType'
  BY <1>8 DEF Acknowledge, InPart
<1> QED
  BY <1>1, <1>2, <1>3, <1>4, <1>5, <1>6, <1>7, <1>8 DEF Transaction

-----------------------------------------------------------------------------
\* A leased batch has a leased fact that shares its deadline, so that recover
\* never wakes a consumer for a batch whose facts stay leased.
LeaseShared ==
    /\ \A p \in Parts : bstate[p] = "leased" =>
         \E f \in InPart(p) : /\ fstate[f] = "leased" /\ f \in sync
                              /\ p \in blate => f \in flate
    /\ \A f \in sync \cap flate : PartOf[f] \in blate
    /\ \A f \in sync : fstate[f] = "leased"

WakeInv == PendingHasBatch /\ NoEmptyWake /\ LeaseShared

\* An empty inbox has nothing to wake for.
LEMMA WakeInitially == InboxInit => WakeInv
BY DEF InboxInit, WakeInv, PendingHasBatch, NoEmptyWake, LeaseShared, InPart

\* claim of a batch that has pending facts takes at least one.
LEMMA ClaimTakesSome ==
  ASSUME NEW p \in Parts, NEW taken, Takes(p, taken), Pending(p) # {}
  PROVE  taken # {}
<1> SUFFICES ASSUME taken = {} PROVE FALSE
  OBVIOUS
<1>1. Cardinality({}) = 0
  BY FS_EmptySet
<1> QED
  BY <1>1 DEF Takes

\* Every transaction keeps the batches in step with the facts.
LEMMA WakeKept == InboxType /\ WakeInv /\ Transaction => WakeInv'
<1> SUFFICES ASSUME InboxType, WakeInv, Transaction PROVE WakeInv'
  OBVIOUS
<1> USE DEF InboxType, WakeInv, PendingHasBatch, NoEmptyWake, LeaseShared, Pending,
            InPart, factVars, batchVars
<1>1. ASSUME NEW f \in Facts, Ingest(f)
      PROVE  WakeInv'
  BY <1>1 DEF Ingest
<1>2. ASSUME NEW f \in Facts, FactLeaseExpires(f)
      PROVE  WakeInv'
  BY <1>2 DEF FactLeaseExpires
<1>3. CASE Recover
  BY <1>3 DEF Recover
<1>4. ASSUME NEW p \in Parts, Debounced(p)
      PROVE  WakeInv'
  BY <1>4 DEF Debounced
<1>5. ASSUME NEW p \in Parts, LeaseExpires(p)
      PROVE  WakeInv'
  BY <1>5 DEF LeaseExpires
<1>6. ASSUME NEW p \in Parts, NEW w \in Workers, NEW taken \in SUBSET InPart(p),
             Claim(p, w, taken)
      PROVE  WakeInv'
  <2>1. taken # {}
    BY <1>6, ClaimTakesSome DEF Claim, Due
  <2> QED
    BY <1>6, <2>1 DEF Claim, Takes, Due
<1>7. ASSUME NEW p \in Parts, NEW w \in Workers, NEW g \in Nat,
             NEW all \in SUBSET InPart(p), all # {}, RenewLease(p, g, w, all)
      PROVE  WakeInv'
  BY <1>7 DEF RenewLease, HoldsBatch, HoldsFact
<1>8. ASSUME NEW p \in Parts, NEW w \in Workers, NEW g \in Nat,
             NEW all \in SUBSET InPart(p), NEW done \in SUBSET all,
             Acknowledge(p, g, w, all, done)
      PROVE  WakeInv'
  BY <1>8 DEF Acknowledge, HoldsBatch, HoldsFact
<1> QED
  BY <1>1, <1>2, <1>3, <1>4, <1>5, <1>6, <1>7, <1>8 DEF Transaction

\* No transaction touches a delivered fact.
LEMMA DeliveredKept ==
  ASSUME InboxType, Transaction, NEW f \in Facts, fstate[f] = "delivered"
  PROVE  fstate'[f] = "delivered"
<1> USE DEF InboxType, factVars, batchVars
<1>1. ASSUME NEW e \in Facts, Ingest(e) \/ FactLeaseExpires(e)
      PROVE  fstate'[f] = "delivered"
  BY <1>1 DEF Ingest, FactLeaseExpires
<1>2. CASE Recover
  BY <1>2 DEF Recover
<1>3. ASSUME NEW p \in Parts, Debounced(p) \/ LeaseExpires(p)
      PROVE  fstate'[f] = "delivered"
  BY <1>3 DEF Debounced, LeaseExpires
<1>4. ASSUME NEW p \in Parts, NEW w \in Workers, NEW taken \in SUBSET InPart(p),
             Claim(p, w, taken)
      PROVE  fstate'[f] = "delivered"
  BY <1>4 DEF Claim, Takes, Pending
<1>5. ASSUME NEW p \in Parts, NEW w \in Workers, NEW g \in Nat,
             NEW all \in SUBSET InPart(p), RenewLease(p, g, w, all)
      PROVE  fstate'[f] = "delivered"
  BY <1>5 DEF RenewLease
<1>6. ASSUME NEW p \in Parts, NEW w \in Workers, NEW g \in Nat,
             NEW all \in SUBSET InPart(p), NEW done \in SUBSET all,
             Acknowledge(p, g, w, all, done)
      PROVE  fstate'[f] = "delivered"
  BY <1>6 DEF Acknowledge, HoldsFact
<1> QED
  BY <1>1, <1>2, <1>3, <1>4, <1>5, <1>6 DEF Transaction

-----------------------------------------------------------------------------
(* The inbox implements FactLedger.                                        *)

Watched == {p \in Parts : bstate[p] # "none"}

\* The empty inbox maps to the empty ledger.
LEMMA LedgerInitially == InboxInit => Ledger!Init
  BY DEF InboxInit, Ledger!Init

\* ingest is an arrival: the fact's partition has an active batch afterwards.
LEMMA IngestArrives ==
  ASSUME InboxType, NEW f \in Facts, Ingest(f)
  PROVE  Ledger!Arrive(f)
<1>1. Watched' = Watched \cup {PartOf[f]}
  BY DEF Ingest, InboxType, Watched
<1>2. QED  BY <1>1 DEF Ingest, Ledger!Arrive, InboxType, Watched

\* recover ends expired leases and nothing else; each partition it returns a
\* fact to has an active batch afterwards.
LEMMA RecoverReclaims ==
  ASSUME InboxType, WakeInv, Recover
  PROVE  \E facts \in SUBSET Facts : Ledger!Reclaim(facts)
<1>0. PICK freed \in SUBSET Facts :
        freed = {f \in Facts : fstate[f] = "leased" /\ f \in flate}
  OBVIOUS
<1> DEFINE home == {PartOf[f] : f \in freed}
<1>1. Watched' = Watched \cup home
  <2>1. ASSUME NEW p \in Parts
        PROVE  bstate'[p] # "none" <=> bstate[p] # "none" \/ InPart(p) \cap freed # {}
    BY <1>0 DEF Recover, InboxType, WakeInv, PendingHasBatch, Pending, InPart
  <2>2. home \subseteq Parts
    OBVIOUS
  <2>3. \A p \in Parts : p \in home <=> InPart(p) \cap freed # {}
    BY DEF InPart
  <2>4. QED  BY <2>1, <2>2, <2>3 DEF Watched
<1>2. Ledger!Move(freed, [f \in Facts |-> "pending"], None)
  BY <1>0 DEF Recover, Ledger!Move
<1>3. Ledger!Reclaim(freed)
  BY <1>0, <1>1, <1>2 DEF Ledger!Reclaim, Watched
<1>4. QED  BY <1>3

\* claim takes pending facts of a partition that was watched, at least one.
LEMMA ClaimIsTake ==
  ASSUME InboxType, WakeInv, NEW p \in Parts, NEW w \in Workers,
         NEW taken \in SUBSET InPart(p), Claim(p, w, taken)
  PROVE  Ledger!Take(p, w, taken)
<1>1. taken # {}
  BY ClaimTakesSome DEF Claim, Due, WakeInv, NoEmptyWake
<1>2. taken \subseteq Ledger!Waiting(p)
  BY DEF Claim, Takes, Pending, InPart, Ledger!Waiting
<1>3. Watched' = Watched /\ p \in Watched
  BY DEF Claim, Due, InboxType, Watched
<1>4. Ledger!Move(taken, [f \in Facts |-> "leased"], w)
  BY DEF Claim, Ledger!Move, InPart
<1>5. QED  BY <1>1, <1>2, <1>3, <1>4 DEF Ledger!Take, Watched

\* acknowledge settles what its worker still holds, and leaves an active batch
\* exactly if something is pending in the partition.
LEMMA AcknowledgeSettles ==
  ASSUME InboxType, NEW p \in Parts, NEW w \in Workers, NEW g \in Nat,
         NEW all \in SUBSET InPart(p), NEW done \in SUBSET all,
         Acknowledge(p, g, w, all, done)
  PROVE  \E d, b \in SUBSET Facts : Ledger!Settle(p, w, d, b)
<1>0. PICK mine \in SUBSET all : mine = {f \in all : HoldsFact(f, w)}
  OBVIOUS
<1> DEFINE d == mine \cap done
           b == mine \ done
<1>1. d \cup b = mine /\ d \cap b = {} /\ mine \subseteq Ledger!Leased(p, w)
  BY <1>0 DEF HoldsFact, Ledger!Leased, InPart
<1>2. Ledger!Move(mine, [f \in Facts |-> IF f \in d THEN "delivered" ELSE "pending"], None)
  BY <1>0 DEF Acknowledge, Ledger!Move, InPart
<1>3. Ledger!Waiting(p)' = b \cup Pending(p)
  BY <1>0 DEF Acknowledge, Ledger!Waiting, Pending, InPart, HoldsFact, InboxType
<1>4. Watched' = IF b \cup Pending(p) = {} THEN Watched \ {p} ELSE Watched \cup {p}
  BY <1>0 DEF Acknowledge, InboxType, Watched
<1>5. Ledger!Settle(p, w, d, b)
  BY <1>1, <1>2, <1>3, <1>4 DEF Ledger!Settle, Watched
<1>6. d \in SUBSET Facts /\ b \in SUBSET Facts
  BY DEF InPart
<1> HIDE DEF d, b
<1>7. QED  BY <1>5, <1>6

\* Every transaction of the inbox is a step of FactLedger or leaves it alone.
LEMMA LedgerStep ==
  ASSUME InboxType, WakeInv, Transaction
  PROVE  [Ledger!Next]_(Ledger!ledger)
<1>1. ASSUME NEW f \in Facts, Ingest(f)
      PROVE  Ledger!Next
  BY <1>1, IngestArrives DEF Ledger!Next
<1>2. ASSUME NEW f \in Facts, FactLeaseExpires(f)
      PROVE  Ledger!Next
  <2>1. Ledger!Lapse({f})
    BY <1>2 DEF FactLeaseExpires, Ledger!Lapse, batchVars
  <2>2. QED  BY <2>1 DEF Ledger!Next
<1>3. CASE Recover
  BY <1>3, RecoverReclaims DEF Ledger!Next
<1>4. ASSUME NEW p \in Parts, Debounced(p)
      PROVE  UNCHANGED Ledger!ledger
  BY <1>4 DEF Debounced, Ledger!ledger, factVars
<1>5. ASSUME NEW p \in Parts, LeaseExpires(p)
      PROVE  Ledger!Next
  <2>1. Ledger!Lapse(InPart(p) \cap sync)
    BY <1>5 DEF LeaseExpires, Ledger!Lapse, WakeInv, LeaseShared
  <2>2. QED  BY <2>1 DEF Ledger!Next, InPart
<1>6. ASSUME NEW p \in Parts, NEW w \in Workers, NEW taken \in SUBSET InPart(p),
             Claim(p, w, taken)
      PROVE  Ledger!Next
  BY <1>6, ClaimIsTake DEF Ledger!Next, InPart
<1>7. ASSUME NEW p \in Parts, NEW w \in Workers, NEW g \in Nat,
             NEW all \in SUBSET InPart(p), RenewLease(p, g, w, all)
      PROVE  Ledger!Next
  <2>1. Ledger!Renew(p, w, all)
    BY <1>7 DEF RenewLease, HoldsFact, Ledger!Renew, Ledger!Leased, InPart
  <2>2. QED  BY <2>1 DEF Ledger!Next, InPart
<1>8. ASSUME NEW p \in Parts, NEW w \in Workers, NEW g \in Nat,
             NEW all \in SUBSET InPart(p), NEW done \in SUBSET all,
             Acknowledge(p, g, w, all, done)
      PROVE  Ledger!Next
  BY <1>8, AcknowledgeSettles DEF Ledger!Next
<1> QED
  BY <1>1, <1>2, <1>3, <1>4, <1>5, <1>6, <1>7, <1>8 DEF Transaction
=============================================================================
