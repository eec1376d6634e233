----------------------------- MODULE FactLedger -----------------------------
(***************************************************************************)
(* What the work inbox promises those who hand it facts and those who      *)
(* consume them, with no batches, generations, debounces or deadlines: a   *)
(* fact is at one place at a time, its lease is ended by its holder or     *)
(* after it has run out, it is settled once and for all, and somebody will *)
(* be woken for every fact that waits and for no other reason.             *)
(***************************************************************************)
EXTENDS Integers

CONSTANTS
    Facts,
    Parts,      \* the consumers' partitions
    PartOf,
    Workers,
    None        \* no holder

VARIABLES
    place,      \* where a fact is: none, pending, leased, delivered
    holder,     \* who has leased a fact
    late,       \* facts whose lease has run out
    watched     \* partitions a consumer will be woken for

ledger == <<place, holder, late, watched>>

Init ==
    /\ place = [f \in Facts |-> "none"]
    /\ holder = [f \in Facts |-> None]
    /\ late = {}
    /\ watched = {}

Waiting(p)   == {f \in Facts : PartOf[f] = p /\ place[f] = "pending"}
Leased(p, w) == {f \in Facts : PartOf[f] = p /\ place[f] = "leased" /\ holder[f] = w}

\* A set of facts moves, to a holder or away from one.
Move(facts, where, who) ==
    /\ place' = [f \in Facts |-> IF f \in facts THEN where[f] ELSE place[f]]
    /\ holder' = [f \in Facts |-> IF f \in facts THEN who ELSE holder[f]]
    /\ late' = late \ facts

Arrive(f) ==
    /\ place[f] = "none"
    /\ place' = [place EXCEPT ![f] = "pending"]
    /\ watched' = watched \cup {PartOf[f]}
    /\ UNCHANGED <<holder, late>>

\* Nobody is woken for nothing.
Take(p, w, facts) ==
    /\ p \in watched
    /\ facts # {} /\ facts \subseteq Waiting(p)
    /\ Move(facts, [f \in Facts |-> "leased"], w)
    /\ UNCHANGED watched

\* The holder settles some of its facts and returns the others; the partition
\* is watched for as long as anything waits in it.
Settle(p, w, done, back) ==
    /\ done \cup back \subseteq Leased(p, w)
    /\ done \cap back = {}
    /\ Move(done \cup back, [f \in Facts |-> IF f \in done THEN "delivered" ELSE "pending"],
            None)
    /\ watched' = IF Waiting(p)' = {} THEN watched \ {p} ELSE watched \cup {p}

\* Leases run out, are renewed by their holder, and end after they ran out.
Lapse(facts) ==
    /\ \A f \in facts : place[f] = "leased"
    /\ late' = late \cup facts
    /\ UNCHANGED <<place, holder, watched>>

Renew(p, w, facts) ==
    /\ facts \subseteq Leased(p, w)
    /\ late' = late \ facts
    /\ UNCHANGED <<place, holder, watched>>

Reclaim(facts) ==
    /\ \A f \in facts : place[f] = "leased" /\ f \in late
    /\ Move(facts, [f \in Facts |-> "pending"], None)
    /\ watched' = watched \cup {PartOf[f] : f \in facts}

Next ==
    \/ \E f \in Facts : Arrive(f)
    \/ \E facts \in SUBSET Facts : Lapse(facts) \/ Reclaim(facts)
    \/ \E p \in Parts, w \in Workers :
         \/ \E facts \in SUBSET Facts : Take(p, w, facts) \/ Renew(p, w, facts)
         \/ \E done, back \in SUBSET Facts : Settle(p, w, done, back)

Spec == Init /\ [][Next]_ledger
=============================================================================
