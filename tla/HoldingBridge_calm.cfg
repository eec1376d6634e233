\* Forwards end within their lease and no fault hits the replay task.
SPECIFICATION FairSpec
CONSTANTS
    Msgs = {m1, m2}
    NoMsg = NoMsg
    Handlers = {h1, h2}
    Replayer = Replayer
    MaxFaults = 1
    ReplayFaults = FALSE
    LeaseCoversForward = TRUE
INVARIANTS
    OneSendPerMessage
    NoStrandedReplay
PROPERTIES
    AckedIsServed
    HoldQuiesces
