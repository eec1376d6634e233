---------------------------- MODULE DurableRelay ----------------------------
(***************************************************************************)
(* What the holding bridge promises its two neighbours, with no rows,      *)
(* leases, handlers or replay: a message is held before it is acknowledged *)
(* or sent, and it stops being held only because the downstream accepted   *)
(* it or explicitly refused it.                                            *)
(***************************************************************************)
EXTENDS Integers

CONSTANT Msgs

VARIABLES
    held,       \* messages the relay can still deliver
    acked,      \* messages whose sender was told 2xx
    accepted,   \* messages the downstream accepted
    rejected    \* messages the downstream refused since they were last taken

relay == <<held, acked, accepted, rejected>>

Init ==
    /\ held = {}
    /\ acked = {}
    /\ accepted = {}
    /\ rejected = {}

\* Whoever asks again can be answered 2xx without losing the message.
Safe(m) == m \in held \cup accepted \cup rejected

MayAck(m) == acked' = acked \/ acked' = acked \cup {m}

Take(m) ==
    /\ m \notin held
    /\ held' = held \cup {m}
    /\ rejected' = rejected \ {m}
    /\ MayAck(m)
    /\ UNCHANGED accepted

Ack(m) ==
    /\ Safe(m)
    /\ acked' = acked \cup {m}
    /\ UNCHANGED <<held, accepted, rejected>>

Accept(m) ==
    /\ Safe(m)
    /\ accepted' = accepted \cup {m}
    /\ UNCHANGED <<held, acked, rejected>>

Finish(m) ==
    /\ m \in held \cap accepted
    /\ held' = held \ {m}
    /\ MayAck(m)
    /\ UNCHANGED <<accepted, rejected>>

Refuse(m) ==
    /\ Safe(m)
    /\ held' = held \/ held' = held \ {m}
    /\ rejected' = rejected \cup {m}
    /\ UNCHANGED <<acked, accepted>>

Next == \E m \in Msgs : Take(m) \/ Ack(m) \/ Accept(m) \/ Finish(m) \/ Refuse(m)

Spec == Init /\ [][Next]_relay
=============================================================================
