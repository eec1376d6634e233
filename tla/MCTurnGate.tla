----------------------------- MODULE MCTurnGate -----------------------------
(* Small instances of TurnGate for TLC.                                    *)
EXTENDS TurnGate, TLC

CONSTANTS w1, w2, r1, r2, r3, wecomChat, robotChat

MCChatOf == [t \in Turns |-> IF t \in Wecom THEN wecomChat ELSE robotChat]

\* The robot is told the same words twice.
MCTextOf == [t \in Turns |-> IF t \in {r1, r2} THEN "again" ELSE "other"]

\* Two messages of a chat, three submissions to the robot, and both at once.
MCArrivals == {{w1, w2}, {r1, r2, r3}, {w1, r1}}
=============================================================================
