\* One fact (facts meet only in the queue of the drain loop) and three faults:
\* crashes of either process with its ticket in every state, and then again.
SPECIFICATION FairSpec
CONSTANTS
    f1 = f1  f2 = f2
    w1 = w1
    None = None
    Facts = {f1}
    Parts = {f1}
    PartOf <- MCPartOf
    Rank <- MCRank
    Workers = {w1}
    Coordinator = w1
    MaxFacts = 20
    MaxFaults = 3
INVARIANTS
    OneTicketPerFact
    OneTurnPerFact
    DeliveredHasEnded
PROPERTIES
    EndedStaysEnded
    FactIsConsumed
