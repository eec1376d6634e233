CONSTANTS
    Msgs = {m1, m2}
    NoMsg = NoMsg
    Handlers = {h1, h2}
    Replayer = Replayer
    MaxFaults = 1
    ReplayFaults = TRUE
    LeaseCoversForward = FALSE
SPECIFICATION Spec
SYMMETRY Symmetry
INVARIANTS
    AckedIsKept
    CompletedIsAccepted
PROPERTIES
    ImplementsRelay
    NoSendAfterCompletion
