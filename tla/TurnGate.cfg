\* Turns of a chat that may supersede each other and submissions that may be taken
\* for each other.  The system is finite: every message has come and gone.
SPECIFICATION FairSpec
CONSTANTS
    w1 = w1
    w2 = w2
    r1 = r1
    r2 = r2
    r3 = r3
    wecomChat = wecomChat
    robotChat = robotChat
    Turns = {w1, w2, r1, r2, r3}
    Wecom = {w1, w2}
    Chats = {wecomChat, robotChat}
    NoTurn = NoTurn
    ChatOf <- MCChatOf
    TextOf <- MCTextOf
    Arrivals <- MCArrivals
    Transforms = FALSE
CHECK_DEADLOCK FALSE
INVARIANTS
    FenceIsExact
    NoStrayAuthority
PROPERTIES
    ToolIsNotCancelled
    TurnIsAnswered
