------------------------------ MODULE TurnIds ------------------------------
(* The turns the fence and the Runtime Contract keep records of.           *)
EXTENDS FiniteSets

CONSTANTS
    Turns,      \* messages; Hermes gives a turn the id of its message
    Chats,      \* chats, each with its Agent session
    ChatOf,     \* the chat of a turn
    NoTurn

ASSUME TurnConstants ==
    /\ ChatOf \in [Turns -> Chats]
    /\ NoTurn \notin Turns
    /\ IsFiniteSet(Turns)
=============================================================================
