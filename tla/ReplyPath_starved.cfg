\* A direct reply behind a notice that lacks its authorization; no upsets.
SPECIFICATION FairSpec
CONSTANTS
    o1 = o1  o2 = o2
    NoOp = NoOp
    NoText = NoText
    Ops = {o1, o2}
    Sources <- MCBehindNotice
    MaxTurns = 1
    MaxUpsets = 0
    AuthorityDenies = TRUE
PROPERTY DirectStaysDeliverable
