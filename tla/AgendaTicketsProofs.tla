------------------------- MODULE AgendaTicketsProofs -------------------------
(***************************************************************************)
(* Safety of the Agenda's tickets for every set of facts and any number of *)
(* faults.                                                                 *)
(***************************************************************************)
EXTENDS AgendaTickets, WorkInboxProofs

USE AgendaConstants DEF AgendaConstants

\* The state the coordinator and the Gateway keep outside the inbox is well
\* typed.
RestOK ==
    /\ tstate \in [Facts -> {"none"} \cup Open \cup Terminal]
    /\ acked \in SUBSET Facts
    /\ lapsed \in SUBSET Facts
    /\ cpc \in {"idle", "scan", "expire", "renew", "reconcile", "mark", "claim",
                "select", "issue"}
    /\ rows \in SUBSET Facts
    /\ subject \in Facts \cup {None}
    /\ cpc \in {"mark", "issue"} => subject \in Facts
    /\ online \in BOOLEAN
    /\ ready \in BOOLEAN
    /\ waiting \in Facts \cup {None}
    /\ alarm \in {"none", "answered", "timeout"}
    /\ events \in [Facts -> Nat]
    /\ running \in SUBSET Facts
    /\ settle \in [Facts -> {"no", "completed", "failed", "wake"}]
    /\ issued \in [Facts -> Nat]
    /\ turns \in [Facts -> Nat]
    /\ denied \in SUBSET Facts
    /\ afaults \in 0..MaxFaults

\* TypeOK in two parts.
LEMMA TypeParts == TypeOK <=> InboxType /\ RestOK
BY DEF TypeOK, RestOK

\* A partition is its fact.
LEMMA OwnPartition == \A f \in Facts : InPart(f) = {f}
BY DEF InPart

\* The types hold at the start.
LEMMA AgendaTypeInitially == Init => TypeOK
<1> SUFFICES ASSUME Init PROVE InboxType /\ RestOK
  BY TypeParts
<1>1. InboxType
  BY InboxTypeInitially DEF Init
<1>2. tstate \in [Facts -> {"none"} \cup Open \cup Terminal]
  BY DEF Init
<1>3. events \in [Facts -> Nat] /\ issued \in [Facts -> Nat] /\ turns \in [Facts -> Nat]
  BY DEF Init
<1>4. settle \in [Facts -> {"no", "completed", "failed", "wake"}]
  BY DEF Init
<1>5. afaults \in 0..MaxFaults
  BY DEF Init
<1> QED
  BY <1>1, <1>2, <1>3, <1>4, <1>5 DEF Init, RestOK

\* What a step does to the inbox is a transaction or nothing.
LEMMA AgendaTransaction ==
  ASSUME TypeOK, Next
  PROVE  Transaction \/ UNCHANGED inbox
<1> USE DEF Away, Aside
<1>2. CASE CycleStart
  BY <1>2 DEF CycleStart
<1>3. ASSUME NEW f \in Facts, ScanIngest(f)
      PROVE  Transaction \/ UNCHANGED inbox
  BY <1>3 DEF ScanIngest, Transaction
<1>4. CASE ScanDone
  BY <1>4 DEF ScanDone
<1>5. ASSUME NEW f \in Facts, ExpireTicket(f)
      PROVE  Transaction \/ UNCHANGED inbox
  BY <1>5 DEF ExpireTicket
<1>6. ASSUME NEW f \in Facts, ExpireDeferred(f)
      PROVE  Transaction \/ UNCHANGED inbox
  BY <1>6 DEF ExpireDeferred
<1>7. CASE ExpireDone
  BY <1>7 DEF ExpireDone
<1>8. ASSUME NEW f \in Facts, RenewTicket(f)
      PROVE  Transaction \/ UNCHANGED inbox
  BY <1>8, OwnPartition DEF RenewTicket, Transaction, TypeOK, InboxType
<1>9. CASE RenewDone
  BY <1>9 DEF RenewDone
<1>10. ASSUME NEW f \in Facts, ReconcileTicket(f)
      PROVE  Transaction \/ UNCHANGED inbox
  BY <1>10, OwnPartition DEF ReconcileTicket, Transaction, TypeOK, InboxType
<1>11. CASE MarkReconciled
  BY <1>11 DEF MarkReconciled
<1>12. ASSUME NEW f \in Facts, TicketLeaseLost(f)
      PROVE  Transaction \/ UNCHANGED inbox
  BY <1>12 DEF TicketLeaseLost
<1>13. CASE ReconcileDone
  BY <1>13 DEF ReconcileDone
<1>14. CASE ClaimRecover
  BY <1>14 DEF ClaimRecover, Transaction
<1>15. ASSUME NEW f \in Facts, ClaimSelect(f)
      PROVE  Transaction \/ UNCHANGED inbox
  BY <1>15 DEF ClaimSelect, Transaction, Pending, InPart
<1>16. CASE ClaimNothing
  BY <1>16 DEF ClaimNothing
<1>17. CASE IssueTicket
  BY <1>17 DEF IssueTicket
<1>18. CASE CycleAborted
  BY <1>18 DEF CycleAborted
<1>19. CASE Connect
  BY <1>19 DEF Connect
<1>20. CASE Disconnect
  BY <1>20 DEF Disconnect
<1>21. CASE GatewayCrash
  BY <1>21 DEF GatewayCrash
<1>22. CASE ToolsetsReady
  BY <1>22 DEF ToolsetsReady
<1>23. CASE ExpireIssued
  BY <1>23 DEF ExpireIssued
<1>24. ASSUME NEW f \in Facts, SubmitTicket(f)
      PROVE  Transaction \/ UNCHANGED inbox
  BY <1>24 DEF SubmitTicket
<1>25. ASSUME NEW f \in Facts, DispatchFails(f)
      PROVE  Transaction \/ UNCHANGED inbox
  BY <1>25 DEF DispatchFails
<1>26. CASE SubmitAnswered
  BY <1>26 DEF SubmitAnswered
<1>27. CASE SubmitTimeout
  BY <1>27 DEF SubmitTimeout
<1>28. CASE CompleteTimeout
  BY <1>28 DEF CompleteTimeout
<1>29. ASSUME NEW f \in Facts, TurnStarts(f)
      PROVE  Transaction \/ UNCHANGED inbox
  BY <1>29 DEF TurnStarts
<1>30. ASSUME NEW f \in Facts, TurnEnds(f)
      PROVE  Transaction \/ UNCHANGED inbox
  BY <1>30 DEF TurnEnds
<1>31. ASSUME NEW f \in Facts, SettleWrite(f)
      PROVE  Transaction \/ UNCHANGED inbox
  BY <1>31 DEF SettleWrite
<1>32. ASSUME NEW f \in Facts, SettleWake(f)
      PROVE  Transaction \/ UNCHANGED inbox
  BY <1>32 DEF SettleWake
<1>33. ASSUME NEW f \in Facts, TicketLapses(f)
      PROVE  Transaction \/ UNCHANGED inbox
  BY <1>33 DEF TicketLapses
<1>34. ASSUME NEW f \in Facts, BetweenCycles(f)
      PROVE  Transaction \/ UNCHANGED inbox
  BY <1>34 DEF BetweenCycles, Transaction
<1> QED
  BY <1>2, <1>3, <1>4, <1>5, <1>6, <1>7, <1>8, <1>9, <1>10, <1>11, <1>12,
     <1>13, <1>14, <1>15, <1>16, <1>17, <1>18, <1>19, <1>20, <1>21, <1>22, <1>23, <1>24,
     <1>25, <1>26, <1>27, <1>28, <1>29, <1>30, <1>31, <1>32, <1>33, <1>34
  DEF Next, Coordinate, Cycle, Gateway

\* The types outside the inbox are kept.
LEMMA RestStep ==
  ASSUME TypeOK, [Next]_vars
  PROVE  RestOK'
<1>0. RestOK
  BY TypeParts
<1> USE <1>0 DEF RestOK, Open, Terminal, Fault, coordVars, hermesVars, history, gateVars,
        Away, Aside
<1>1. CASE UNCHANGED vars
  BY <1>1 DEF vars, inbox
<1>2. CASE CycleStart
  BY <1>2 DEF CycleStart
<1>3. ASSUME NEW f \in Facts, ScanIngest(f)
      PROVE  RestOK'
  BY <1>3 DEF ScanIngest
<1>4. CASE ScanDone
  BY <1>4 DEF ScanDone
<1>5. ASSUME NEW f \in Facts, ExpireTicket(f)
      PROVE  RestOK'
  BY <1>5 DEF ExpireTicket
<1>6. ASSUME NEW f \in Facts, ExpireDeferred(f)
      PROVE  RestOK'
  BY <1>6 DEF ExpireDeferred
<1>7. CASE ExpireDone
  BY <1>7 DEF ExpireDone
<1>8. ASSUME NEW f \in Facts, RenewTicket(f)
      PROVE  RestOK'
  BY <1>8 DEF RenewTicket
<1>9. CASE RenewDone
  BY <1>9 DEF RenewDone
<1>10. ASSUME NEW f \in Facts, ReconcileTicket(f)
      PROVE  RestOK'
  BY <1>10 DEF ReconcileTicket
<1>11. CASE MarkReconciled
  BY <1>11 DEF MarkReconciled
<1>12. ASSUME NEW f \in Facts, TicketLeaseLost(f)
      PROVE  RestOK'
  BY <1>12 DEF TicketLeaseLost
<1>13. CASE ReconcileDone
  BY <1>13 DEF ReconcileDone
<1>14. CASE ClaimRecover
  BY <1>14 DEF ClaimRecover
<1>15. ASSUME NEW f \in Facts, ClaimSelect(f)
      PROVE  RestOK'
  BY <1>15 DEF ClaimSelect
<1>16. CASE ClaimNothing
  BY <1>16 DEF ClaimNothing
<1>17. CASE IssueTicket
  BY <1>17 DEF IssueTicket
<1>18. CASE CycleAborted
  BY <1>18 DEF CycleAborted
<1>19. CASE Connect
  BY <1>19 DEF Connect, Requeued
<1>20. CASE Disconnect
  <2>1. online' \in BOOLEAN
    BY <1>20 DEF Disconnect
  <2>2. afaults' \in 0..MaxFaults /\ waiting' \in Facts \cup {None}
    BY <1>20 DEF Disconnect
  <2> QED
    BY <1>20, <2>1, <2>2 DEF Disconnect
<1>21. CASE GatewayCrash
  <2>1. online' \in BOOLEAN /\ ready' \in BOOLEAN
    BY <1>21 DEF GatewayCrash
  <2>2. afaults' \in 0..MaxFaults /\ events' \in [Facts -> Nat]
    BY <1>21 DEF GatewayCrash
  <2>3. settle' \in [Facts -> {"no", "completed", "failed", "wake"}]
    BY <1>21 DEF GatewayCrash
  <2> QED
    BY <1>21, <2>1, <2>2, <2>3 DEF GatewayCrash
<1>22. CASE ToolsetsReady
  BY <1>22 DEF ToolsetsReady
<1>23. CASE ExpireIssued
  BY <1>23 DEF ExpireIssued
<1>24. ASSUME NEW f \in Facts, SubmitTicket(f)
      PROVE  RestOK'
  BY <1>24 DEF SubmitTicket
<1>25. ASSUME NEW f \in Facts, DispatchFails(f)
      PROVE  RestOK'
  BY <1>25 DEF DispatchFails
<1>26. CASE SubmitAnswered
  BY <1>26 DEF SubmitAnswered
<1>27. CASE SubmitTimeout
  BY <1>27 DEF SubmitTimeout
<1>28. CASE CompleteTimeout
  BY <1>28 DEF CompleteTimeout
<1>29. ASSUME NEW f \in Facts, TurnStarts(f)
      PROVE  RestOK'
  BY <1>29 DEF TurnStarts
<1>30. ASSUME NEW f \in Facts, TurnEnds(f)
      PROVE  RestOK'
  BY <1>30 DEF TurnEnds
<1>31. ASSUME NEW f \in Facts, SettleWrite(f)
      PROVE  RestOK'
  BY <1>31 DEF SettleWrite
<1>32. ASSUME NEW f \in Facts, SettleWake(f)
      PROVE  RestOK'
  BY <1>32 DEF SettleWake
<1>33. ASSUME NEW f \in Facts, TicketLapses(f)
      PROVE  RestOK'
  BY <1>33 DEF TicketLapses
<1>34. ASSUME NEW f \in Facts, BetweenCycles(f)
      PROVE  RestOK'
  BY <1>34 DEF BetweenCycles
<1> QED
  BY <1>1, <1>2, <1>3, <1>4, <1>5, <1>6, <1>7, <1>8, <1>9, <1>10, <1>11, <1>12,
     <1>13, <1>14, <1>15, <1>16, <1>17, <1>18, <1>19, <1>20, <1>21, <1>22, <1>23, <1>24,
     <1>25, <1>26, <1>27, <1>28, <1>29, <1>30, <1>31, <1>32, <1>33, <1>34
  DEF Next, Coordinate, Cycle, Gateway

\* The types are an invariant.
LEMMA AgendaTypeStep == TypeOK /\ [Next]_vars => TypeOK'
<1> SUFFICES ASSUME TypeOK, [Next]_vars PROVE TypeOK'
  OBVIOUS
<1>1. InboxType /\ RestOK'
  BY TypeParts, RestStep
<1>2. Transaction \/ UNCHANGED inbox
  BY AgendaTransaction DEF vars, inbox
<1>3. InboxType'
  <2>1. CASE Transaction
    BY <1>1, <2>1, InboxTypeKept
  <2>2. CASE UNCHANGED inbox
    BY <1>1, <2>2 DEF inbox, InboxType
  <2> QED
    BY <1>2, <2>1, <2>2
<1> QED
  BY <1>1, <1>3 DEF TypeOK, RestOK

\* Type correctness of the Agenda.
THEOREM AgendaTypeCorrect == Spec => []TypeOK
BY AgendaTypeInitially, AgendaTypeStep, PTL DEF Spec

-----------------------------------------------------------------------------
(* The inductive invariant.                                                *)

\* A ticket is issued once, and a turn that claimed it is on its record.
Counted ==
    \A f \in Facts :
        /\ issued[f] = IF tstate[f] = "none" THEN 0 ELSE 1
        /\ \/ turns[f] = 0
           \/ turns[f] = 1 /\ tstate[f] \in Terminal \cup {"agent_claimed"}

\* A leased fact and its batch are the coordinator's and share one deadline.
Leased ==
    \A f \in Facts : fstate[f] = "leased" =>
        /\ fowner[f] = Coordinator
        /\ bstate[f] = "leased" /\ bowner[f] = Coordinator
        /\ f \in sync
        /\ f \in flate <=> f \in blate

\* A fact with a ticket is leased until its ticket has ended and been
\* acknowledged.
Ticketed ==
    \A f \in Facts :
        /\ fstate[f] \in {"none", "pending"} => tstate[f] = "none"
        /\ fstate[f] = "delivered" => tstate[f] \in Terminal
        /\ f \in acked => fstate[f] = "delivered"

\* What a cycle has achieved so far: leases of tickets that had run out are
\* renewed, or acknowledged, before recover looks for leases that have.
Overdue(f) == fstate[f] = "leased" /\ f \in flate /\ tstate[f] # "none"

Progress ==
    /\ cpc = "renew" => \A f \in Facts : Overdue(f) => f \in rows \/ tstate[f] \in Terminal
    /\ cpc \in {"reconcile", "mark"} => \A f \in Facts : Overdue(f) => f \in rows
    /\ cpc \in {"reconcile", "mark"} => \A f \in rows : tstate[f] \in Terminal
    /\ cpc = "claim" => \A f \in Facts : ~Overdue(f)
    /\ cpc = "mark" => fstate[subject] = "delivered"
    /\ cpc = "issue" => fstate[subject] = "leased" /\ tstate[subject] = "none"

\* A submission in flight has a ticket.
Submitted ==
    /\ waiting # None => tstate[waiting] # "none"
    /\ alarm = "timeout" => waiting # None

TicketInv == TypeOK /\ Counted /\ Leased /\ Ticketed /\ Progress /\ Submitted

\* No facts, no tickets.
LEMMA TicketInitially == Init => TicketInv
<1> SUFFICES ASSUME Init PROVE TicketInv
  OBVIOUS
<1>1. TypeOK
  BY AgendaTypeInitially
<1> QED
  BY <1>1 DEF Init, InboxInit, TicketInv, Counted, Leased, Ticketed, Progress, Submitted

\* A partition holds nothing but its fact, so what is pending in it is known.
LEMMA OwnPending ==
  \A f \in Facts : Pending(f) = IF fstate[f] = "pending" THEN {f} ELSE {}
BY DEF Pending, InPart

\* The parts of the invariant besides the types are kept.
LEMMA TicketKept ==
  ASSUME TicketInv, [Next]_vars
  PROVE  Counted' /\ Leased' /\ Ticketed' /\ Progress' /\ Submitted'
<1> DEFINE Goal == Counted' /\ Leased' /\ Ticketed' /\ Progress' /\ Submitted'
<1> USE DEF TicketInv, TypeOK, InboxType, Counted, Leased, Ticketed, Progress, Submitted,
        Overdue, Open, Terminal, Fault, coordVars, hermesVars, history, gateVars, Away,
        Aside, inbox, factVars, batchVars, HoldsBatch, HoldsFact
<1>1. CASE UNCHANGED vars
  BY <1>1 DEF vars, inbox
<1>2. CASE CycleStart
  BY <1>2 DEF CycleStart
<1>3. ASSUME NEW f \in Facts, ScanIngest(f)
      PROVE  Goal
  BY <1>3, OwnPartition, OwnPending DEF ScanIngest, Ingest
<1>4. CASE ScanDone
  BY <1>4 DEF ScanDone
<1>5. ASSUME NEW f \in Facts, ExpireTicket(f)
      PROVE  Goal
  BY <1>5 DEF ExpireTicket
<1>6. ASSUME NEW f \in Facts, ExpireDeferred(f)
      PROVE  Goal
  BY <1>6 DEF ExpireDeferred
<1>7. CASE ExpireDone
  BY <1>7 DEF ExpireDone, Renewable
<1>8. ASSUME NEW f \in Facts, RenewTicket(f)
      PROVE  Goal
  BY <1>8, OwnPartition, OwnPending DEF RenewTicket, RenewLease
<1>9. CASE RenewDone
  BY <1>9 DEF RenewDone, Reconcilable
<1>10. ASSUME NEW f \in Facts, ReconcileTicket(f)
      PROVE  Goal
  BY <1>10, OwnPartition, OwnPending DEF ReconcileTicket, Acknowledge
<1>11. CASE MarkReconciled
  BY <1>11 DEF MarkReconciled
<1>12. ASSUME NEW f \in Facts, TicketLeaseLost(f)
      PROVE  Goal
  BY <1>12 DEF TicketLeaseLost
<1>13. CASE ReconcileDone
  BY <1>13 DEF ReconcileDone
<1>14. CASE ClaimRecover
  BY <1>14, OwnPartition, OwnPending DEF ClaimRecover, Recover
<1>15. ASSUME NEW f \in Facts, ClaimSelect(f)
      PROVE  Goal
  BY <1>15, OwnPartition, OwnPending DEF ClaimSelect, Claim, Takes, Due
<1>16. CASE ClaimNothing
  BY <1>16 DEF ClaimNothing
<1>17. CASE IssueTicket
  BY <1>17 DEF IssueTicket
<1>18. CASE CycleAborted
  BY <1>18 DEF CycleAborted
<1>19. CASE Connect
  BY <1>19 DEF Connect, Requeued
<1>20. CASE Disconnect
  BY <1>20 DEF Disconnect
<1>21. CASE GatewayCrash
  BY <1>21 DEF GatewayCrash
<1>22. CASE ToolsetsReady
  BY <1>22 DEF ToolsetsReady
<1>23. CASE ExpireIssued
  BY <1>23 DEF ExpireIssued
<1>24. ASSUME NEW f \in Facts, SubmitTicket(f)
      PROVE  Goal
  BY <1>24 DEF SubmitTicket
<1>25. ASSUME NEW f \in Facts, DispatchFails(f)
      PROVE  Goal
  BY <1>25 DEF DispatchFails
<1>26. CASE SubmitAnswered
  BY <1>26 DEF SubmitAnswered
<1>27. CASE SubmitTimeout
  BY <1>27 DEF SubmitTimeout
<1>28. CASE CompleteTimeout
  BY <1>28 DEF CompleteTimeout
<1>29. ASSUME NEW f \in Facts, TurnStarts(f)
      PROVE  Goal
  BY <1>29 DEF TurnStarts, ClaimableTicket
<1>30. ASSUME NEW f \in Facts, TurnEnds(f)
      PROVE  Goal
  BY <1>30 DEF TurnEnds
<1>31. ASSUME NEW f \in Facts, SettleWrite(f)
      PROVE  Goal
  BY <1>31 DEF SettleWrite
<1>32. ASSUME NEW f \in Facts, SettleWake(f)
      PROVE  Goal
  BY <1>32 DEF SettleWake
<1>33. ASSUME NEW f \in Facts, TicketLapses(f)
      PROVE  Goal
  BY <1>33 DEF TicketLapses
<1>34. ASSUME NEW f \in Facts, BetweenCycles(f)
      PROVE  Goal
  BY <1>34, OwnPartition, OwnPending DEF BetweenCycles, Debounced, LeaseExpires
<1> QED
  BY <1>1, <1>2, <1>3, <1>4, <1>5, <1>6, <1>7, <1>8, <1>9, <1>10, <1>11, <1>12,
     <1>13, <1>14, <1>15, <1>16, <1>17, <1>18, <1>19, <1>20, <1>21, <1>22, <1>23, <1>24,
     <1>25, <1>26, <1>27, <1>28, <1>29, <1>30, <1>31, <1>32, <1>33, <1>34
  DEF Next, Coordinate, Cycle, Gateway

\* The invariant is inductive.
LEMMA TicketStep == TicketInv /\ [Next]_vars => TicketInv'
BY AgendaTypeStep, TicketKept DEF TicketInv

\* The inductive invariant of the tickets holds in every behaviour.
LEMMA TicketHolds == Spec => []TicketInv
  BY TicketInitially, TicketStep, PTL DEF Spec

\* One ticket per fact, and the coordinator keeps the lease of a fact with an open
\* ticket, whatever crashes, reconnects and pauses of the coordinator there are.
THEOREM OneTicket == Spec => []OneTicketPerFact
<1>1. TicketInv => OneTicketPerFact
  <2> SUFFICES ASSUME TicketInv, NEW f \in Facts
               PROVE  /\ issued[f] <= 1
                      /\ tstate[f] # "none" /\ ~Settled(f) => HoldsFact(f, Coordinator)
    BY DEF OneTicketPerFact
  <2>1. issued[f] <= 1
    BY DEF TicketInv, Counted
  <2>2. tstate[f] # "none" /\ ~Settled(f) => HoldsFact(f, Coordinator)
    BY DEF TicketInv, TypeOK, InboxType, Ticketed, Leased, Settled, HoldsFact
  <2> QED
    BY <2>1, <2>2
<1> QED
  BY <1>1, TicketHolds, PTL

\* One trusted turn per fact: a ticket is claimed by one Agent turn, and a late or
\* repeated event claims nothing.
THEOREM OneTurn == Spec => []OneTurnPerFact
<1>1. TicketInv => OneTurnPerFact
  BY DEF TicketInv, Counted, OneTurnPerFact
<1> QED
  BY <1>1, TicketHolds, PTL

\* No fact is delivered before its ticket has ended.
THEOREM DeliveryFollowsEnd == Spec => []DeliveredHasEnded
<1>1. TicketInv => DeliveredHasEnded
  BY DEF TicketInv, Ticketed, DeliveredHasEnded
<1> QED
  BY <1>1, TicketHolds, PTL

\* A ticket that has ended is never opened again.
THEOREM EndedForGood == Spec => EndedStaysEnded
<1>1. TicketInv /\ [Next]_vars =>
        [\A f \in Facts : tstate[f] \in Terminal => tstate'[f] \in Terminal]_vars
  <2> SUFFICES ASSUME TicketInv, [Next]_vars, NEW e \in Facts, tstate[e] \in Terminal
               PROVE  tstate'[e] \in Terminal
    OBVIOUS
  <2> USE DEF TicketInv, TypeOK, Progress, Open, Terminal, coordVars, hermesVars,
          history, gateVars, Away, Aside
  <2>1. CASE UNCHANGED vars
    BY <2>1 DEF vars, inbox
  <2>2. CASE CycleStart
    BY <2>2 DEF CycleStart
  <2>3. ASSUME NEW f \in Facts, ScanIngest(f)
        PROVE  tstate'[e] \in Terminal
    BY <2>3 DEF ScanIngest
  <2>4. CASE ScanDone
    BY <2>4 DEF ScanDone
  <2>5. ASSUME NEW f \in Facts, ExpireTicket(f)
        PROVE  tstate'[e] \in Terminal
    BY <2>5 DEF ExpireTicket
  <2>6. ASSUME NEW f \in Facts, ExpireDeferred(f)
        PROVE  tstate'[e] \in Terminal
    BY <2>6 DEF ExpireDeferred
  <2>7. CASE ExpireDone
    BY <2>7 DEF ExpireDone
  <2>8. ASSUME NEW f \in Facts, RenewTicket(f)
        PROVE  tstate'[e] \in Terminal
    BY <2>8 DEF RenewTicket
  <2>9. CASE RenewDone
    BY <2>9 DEF RenewDone
  <2>10. ASSUME NEW f \in Facts, ReconcileTicket(f)
        PROVE  tstate'[e] \in Terminal
    BY <2>10 DEF ReconcileTicket
  <2>11. CASE MarkReconciled
    BY <2>11 DEF MarkReconciled
  <2>12. ASSUME NEW f \in Facts, TicketLeaseLost(f)
        PROVE  tstate'[e] \in Terminal
    BY <2>12 DEF TicketLeaseLost
  <2>13. CASE ReconcileDone
    BY <2>13 DEF ReconcileDone
  <2>14. CASE ClaimRecover
    BY <2>14 DEF ClaimRecover
  <2>15. ASSUME NEW f \in Facts, ClaimSelect(f)
        PROVE  tstate'[e] \in Terminal
    BY <2>15 DEF ClaimSelect
  <2>16. CASE ClaimNothing
    BY <2>16 DEF ClaimNothing
  <2>17. CASE IssueTicket
    BY <2>17 DEF IssueTicket
  <2>18. CASE CycleAborted
    BY <2>18 DEF CycleAborted
  <2>19. CASE Connect
    BY <2>19 DEF Connect, Requeued
  <2>20. CASE Disconnect
    BY <2>20 DEF Disconnect
  <2>21. CASE GatewayCrash
    BY <2>21 DEF GatewayCrash
  <2>22. CASE ToolsetsReady
    BY <2>22 DEF ToolsetsReady
  <2>23. CASE ExpireIssued
    BY <2>23 DEF ExpireIssued
  <2>24. ASSUME NEW f \in Facts, SubmitTicket(f)
        PROVE  tstate'[e] \in Terminal
    BY <2>24 DEF SubmitTicket
  <2>25. ASSUME NEW f \in Facts, DispatchFails(f)
        PROVE  tstate'[e] \in Terminal
    BY <2>25 DEF DispatchFails
  <2>26. CASE SubmitAnswered
    BY <2>26 DEF SubmitAnswered
  <2>27. CASE SubmitTimeout
    BY <2>27 DEF SubmitTimeout
  <2>28. CASE CompleteTimeout
    BY <2>28 DEF CompleteTimeout
  <2>29. ASSUME NEW f \in Facts, TurnStarts(f)
        PROVE  tstate'[e] \in Terminal
    BY <2>29 DEF TurnStarts, ClaimableTicket
  <2>30. ASSUME NEW f \in Facts, TurnEnds(f)
        PROVE  tstate'[e] \in Terminal
    BY <2>30 DEF TurnEnds
  <2>31. ASSUME NEW f \in Facts, SettleWrite(f)
        PROVE  tstate'[e] \in Terminal
    BY <2>31 DEF SettleWrite
  <2>32. ASSUME NEW f \in Facts, SettleWake(f)
        PROVE  tstate'[e] \in Terminal
    BY <2>32 DEF SettleWake
  <2>33. ASSUME NEW f \in Facts, TicketLapses(f)
        PROVE  tstate'[e] \in Terminal
    BY <2>33 DEF TicketLapses
  <2>34. ASSUME NEW f \in Facts, BetweenCycles(f)
        PROVE  tstate'[e] \in Terminal
    BY <2>34 DEF BetweenCycles
  <2> QED
    BY <2>1, <2>2, <2>3, <2>4, <2>5, <2>6, <2>7, <2>8, <2>9, <2>10, <2>11, <2>12,
       <2>13, <2>14, <2>15, <2>16, <2>17, <2>18, <2>19, <2>20, <2>21, <2>22, <2>23, <2>24,
       <2>25, <2>26, <2>27, <2>28, <2>29, <2>30, <2>31, <2>32, <2>33, <2>34
    DEF Next, Coordinate, Cycle, Gateway
<1> QED
  BY TicketInitially, TicketStep, <1>1, PTL DEF Spec, EndedStaysEnded

-----------------------------------------------------------------------------
(* The Agenda as a consumer of the inbox.                                  *)

\* Every step of the Agenda keeps what the inbox keeps for any consumer.
LEMMA AgendaWakeStep == TypeOK /\ WakeInv /\ [Next]_vars => WakeInv'
<1> SUFFICES ASSUME TypeOK, WakeInv, [Next]_vars PROVE WakeInv'
  OBVIOUS
<1>1. CASE Transaction
  BY <1>1, WakeKept DEF TypeOK
<1>2. CASE UNCHANGED inbox
  BY <1>2 DEF inbox, WakeInv, PendingHasBatch, NoEmptyWake, LeaseShared, Pending, InPart
<1> QED
  BY <1>1, <1>2, AgendaTransaction DEF vars, inbox

\* The inbox's own invariant holds in every behaviour of the Agenda.
LEMMA AgendaWakes == Spec => []WakeInv
<1>1. Init => WakeInv
  BY WakeInitially DEF Init
<1> QED
  BY <1>1, AgendaWakeStep, AgendaTypeCorrect, PTL DEF Spec

\* The coordinator is woken for every pending fact and never for nothing: the
\* agenda_envelope_empty branch of run_once, which would leave a claimed batch
\* behind without a ticket, is never taken.
THEOREM AgendaNeverWakesEmpty == Spec => [](PendingHasBatch /\ NoEmptyWake)
<1>1. WakeInv => PendingHasBatch /\ NoEmptyWake
  BY DEF WakeInv
<1> QED
  BY <1>1, AgendaWakes, PTL

\* Coordinator and adapter, with their crashes, aborted cycles and reconnects,
\* use the inbox within the promise of FactLedger.
THEOREM AgendaImplementsLedger == Spec => ImplementsLedger
<1>1. Init => Ledger!Init
  BY LedgerInitially DEF Init
<1>2. TypeOK /\ WakeInv /\ [Next]_vars => [Ledger!Next]_(Ledger!ledger)
  <2> SUFFICES ASSUME TypeOK, WakeInv, [Next]_vars PROVE [Ledger!Next]_(Ledger!ledger)
    OBVIOUS
  <2>1. CASE Transaction
    BY <2>1, LedgerStep DEF TypeOK
  <2>2. CASE UNCHANGED inbox
    BY <2>2 DEF inbox, Ledger!ledger
  <2> QED
    BY <2>1, <2>2, AgendaTransaction DEF vars, inbox
<1> QED
  BY <1>1, <1>2, AgendaTypeCorrect, AgendaWakes, PTL DEF Spec, ImplementsLedger, Ledger!Spec
=============================================================================
