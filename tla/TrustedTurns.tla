--------------------------- MODULE TrustedTurns ---------------------------
(***************************************************************************)
(* runtime_contract.py: the records that let the Tools of a turn act for   *)
(* an authenticated sender, and the one-shot ingress records of the robot. *)
(*                                                                         *)
(* All turns of a chat are of one sender and one channel, and all robot    *)
(* turns of one actor; the rows of the robot's own sessions, which no hook *)
(* looks up, are left out.                                                 *)
(***************************************************************************)
EXTENDS TurnIds, Integers

CONSTANTS
    TextOf,     \* the digest of the text of a turn
    Transforms  \* whether a Skill is put before the text the hook sees

VARIABLES
    rows,       \* _BY_SESSION: turn ids with a record, for each session
    message,    \* message_id of the record of a turn id
    pending,    \* _PENDING_ROBOT_INGRESS
    stale       \* pending records older than the TTL

contractVars == <<rows, message, pending, stale>>

ContractType ==
    /\ rows \in [Chats -> SUBSET Turns]
    /\ message \in [Turns -> Turns \cup {NoTurn}]
    /\ pending \in SUBSET Turns
    /\ stale \in SUBSET Turns

ContractInit ==
    /\ rows = [c \in Chats |-> {}]
    /\ message = [t \in Turns |-> NoTurn]
    /\ pending = {}
    /\ stale = {}

-----------------------------------------------------------------------------
\* _purge_expired_locked drops stale records beside fresh ones of their key.
Kept == {t \in pending : t \in stale =>
                            \A u \in pending \ stale : TextOf[u] # TextOf[t]}

\* Where no fresh record shares the key it reaches for a name that is not
\* defined: every call of the contract raises from then on.
PurgeRaises == Kept \cap stale # {}

\* activate_trusted_turn without a turn id, or with one that has no record.
Sole(c) == {r \in rows[c] : Cardinality(rows[c]) = 1}

\* The records activate_trusted_turn may select for turn t.
Trusted(c, t) == IF t \in rows[c] THEN {t} ELSE Sole(c)

\* bind_trusted_turn.
BindRow(c, t, m) ==
    /\ rows' = [rows EXCEPT ![c] = @ \cup {t}]
    /\ message' = [message EXCEPT ![t] = m]

\* bind_robot_device_turn, the ingress record.
AddIngress(t) ==
    /\ pending' = Kept \cup {t}
    /\ stale' = stale \cap Kept
    /\ UNCHANGED <<rows, message>>

\* Seeded fault: of several candidates any will do.
ClaimableAny(t) == IF Transforms THEN Kept ELSE {u \in Kept : TextOf[u] = TextOf[t]}

\* The ingress claim_robot_turn_for_agent selects: with a Skill in front the
\* digest matches nothing and the sender must have one record in all.
Claimable(t) ==
    LET candidates == IF Transforms THEN Kept ELSE {u \in Kept : TextOf[u] = TextOf[t]}
    IN  {u \in candidates : Cardinality(candidates) = 1}

\* claim_robot_turn_for_agent with ingress u.
ClaimIngress(c, t, u) ==
    /\ pending' = Kept \ {u}
    /\ stale' = stale \cap (Kept \ {u})
    /\ BindRow(c, t, u)

\* clear_trusted_turn without a turn id.
ClearRows(c) ==
    rows' = [rows EXCEPT ![c] = IF Cardinality(@) = 1 THEN {} ELSE @]
=============================================================================
