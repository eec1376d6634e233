CONSTANTS
    Msgs = {m1, m2}
    NoMsg = NoMsg
    MaxAttempts = 3
    MaxClaims = 2
    MaxFaults = 1
    ClaimsStayFresh = FALSE
    StableCoversGate = FALSE
    MayReconnect = TRUE
SPECIFICATION Spec
SYMMETRY Symmetry
INVARIANTS
    ClaimHasWorker
    TurnsAreBounded
PROPERTY
    ProcessedIsFinal
