\* Two facts of one partition, so that one can arrive while the other is
\* leased, and three consumers, two of them with the same worker_id.
SPECIFICATION FairSpec
CONSTANTS
    f1 = f1  f2 = f2
    p1 = p1
    h1 = h1  h2 = h2  h3 = h3
    w1 = w1  w2 = w2
    None = None
    NoEnvelope = NoEnvelope
    Facts = {f1, f2}
    Parts = {p1}
    PartOf <- MCPartOf
    Rank <- MCRank
    Workers = {w1, w2}
    Holders = {h1, h2, h3}
    WorkerOf <- MCWorkerOf
    MaxFacts = 2
    MaxBatches = 3
INVARIANTS
    PendingHasBatch
    NoEmptyWake
    AckIsExact
PROPERTIES
    ImplementsLedger
    FactIsDelivered
