SPECIFICATION FairChainSpec
CONSTANTS
    Msgs = {m1}
    NoMsg = NoMsg
    Handlers = {h1}
    Replayer = Replayer
    MaxFaults = 0
    ReplayFaults = FALSE
    LeaseCoversForward = FALSE
    MaxAttempts = 2
    MaxClaims = 2
    GatewayFaults = 1
    ClaimsStayFresh = TRUE
INVARIANTS
    AcceptedHasReceipt
    AckedIsSomewhere
    RepeatsAreAbsorbed
PROPERTY
    AckedIsRun
