\* Two replies that share the drain loop and one upset: with none the loop goes
\* on for ever, with one a send is cut off in each of its states.
SPECIFICATION FairSpec
CONSTANTS
    o1 = o1  o2 = o2
    NoOp = NoOp
    NoText = NoText
    Ops = {o1, o2}
    Sources <- MCSources
    MaxTurns = 2
    MaxUpsets = 1
    AuthorityDenies = FALSE
INVARIANTS
    HeldIsNotSent
    OneVisibleReply
    OneDelivery
    SendingKeepsLease
    RecoveredIsToolFree
PROPERTIES
    TextIsFinal
    ImplementsPromise
    ReleasedIsSettled
