----------------------------- MODULE MCReplyPath -----------------------------
(* Small instances of ReplyPath for TLC.                                   *)
EXTENDS ReplyPath, TLC

CONSTANTS o1, o2

\* Every kind of operation beside a notice.
MCSources == [o \in Ops |-> IF o = o1 THEN {"direct", "agenda"} ELSE {"notice"}]

\* A direct reply behind a notice.
MCBehindNotice == [o \in Ops |-> IF o = o1 THEN {"direct"} ELSE {"notice"}]
=============================================================================
