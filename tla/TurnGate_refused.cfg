\* Two messages of one chat are enough: the second inherits from the first.
SPECIFICATION Spec
CONSTANTS
    w1 = w1
    w2 = w2
    r1 = r1
    r2 = r2
    r3 = r3
    wecomChat = wecomChat
    robotChat = robotChat
    Turns = {w1, w2, r1, r2, r3}
    Wecom = {w1, w2}
    Chats = {wecomChat, robotChat}
    NoTurn = NoTurn
    ChatOf <- MCChatOf
    TextOf <- MCTextOf
    Arrivals <- MCArrivals
    Transforms = FALSE
CHECK_DEADLOCK FALSE
INVARIANT
    RefusedIsLate
