---------------------------- MODULE ReplyPromise ----------------------------
(***************************************************************************)
(* What the reply path promises the user of a turn, with no rows, leases,  *)
(* threads, recovery turns or drain loop: the user of a turn is answered   *)
(* by the gateway or through the outbox and not by both; a reply is sent   *)
(* once, unless the record of a send was cut off or that of a recovered    *)
(* text was written by half; its text is fixed from the first send on,     *)
(* with the second of these exceptions; and what counts as delivered was   *)
(* accepted, without an exception.                                         *)
(***************************************************************************)
EXTENDS Integers

CONSTANTS
    Replies,
    NoText      \* a reply nobody has written yet

VARIABLES
    text,       \* the text of a reply
    open,       \* replies released to the outbox
    told,       \* turns that were answered by the gateway itself
    accepted,   \* how often the channel has accepted a reply
    broken,     \* replies with a send whose record was cut off
    torn,       \* replies with a recovered text that is recorded by half
    confirmed   \* replies that count as delivered

promise == <<text, open, told, accepted, broken, torn, confirmed>>

Init ==
    /\ text = [o \in Replies |-> NoText]
    /\ open = {}
    /\ told = {}
    /\ accepted = [o \in Replies |-> 0]
    /\ broken = {}
    /\ torn = {}
    /\ confirmed = {}

\* A reply is written or written anew, until the channel has it, and its record
\* may be left by half.
Write(o) ==
    /\ accepted[o] = 0 \/ o \in torn
    /\ \A p \in Replies \ {o} : text'[p] = text[p]
    /\ torn' \in {torn, torn \cup {o}}
    /\ UNCHANGED <<told, accepted, broken, confirmed>>

\* The outbox may send it: nobody else has answered or will.
Release(o) ==
    /\ o \notin told
    /\ open' = open \cup {o}

Tell(o) ==
    /\ o \notin open
    /\ told' = told \cup {o}
    /\ UNCHANGED <<text, open, accepted, broken, torn, confirmed>>

Send(o) ==
    /\ o \in open \ confirmed
    /\ text[o] # NoText
    /\ accepted[o] = 0 \/ o \in broken \cup torn
    /\ accepted' = [accepted EXCEPT ![o] = @ + 1]
    /\ UNCHANGED <<text, open, told, broken, torn, confirmed>>

Cut(o) ==
    /\ o \in open \ confirmed
    /\ broken' = broken \cup {o}
    /\ UNCHANGED <<text, open, told, accepted, torn, confirmed>>

Confirm(o) ==
    /\ accepted[o] > 0
    /\ confirmed' = confirmed \cup {o}
    /\ UNCHANGED <<text, open, told, accepted, broken, torn>>

Next ==
    \E o \in Replies :
        \/ Write(o) /\ (UNCHANGED open \/ Release(o))
        \/ Tell(o)
        \/ Send(o)
        \/ Cut(o)
        \/ Confirm(o)

Spec == Init /\ [][Next]_promise
=============================================================================
