\* Claims stay fresh and the adapter is never reconnected; two SQLite errors
\* are what it takes to end the poll loop.
SPECIFICATION FairSpec
CONSTANTS
    Msgs = {m1, m2}
    NoMsg = NoMsg
    MaxAttempts = 3
    MaxClaims = 2
    MaxFaults = 2
    ClaimsStayFresh = TRUE
    StableCoversGate = TRUE
    MayReconnect = FALSE
INVARIANTS
    OneCopy
    QuiescedIsIdle
PROPERTY
    ClaimIsFinished
