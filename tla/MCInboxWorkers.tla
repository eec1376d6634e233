--------------------------- MODULE MCInboxWorkers ---------------------------
(* Small instances of InboxWorkers for TLC.                                *)
EXTENDS InboxWorkers, TLC

CONSTANTS f1, f2, p1, h1, h2, h3, w1, w2

\* Two facts in one partition; partitions do not interact.
MCPartOf == f1 :> p1 @@ f2 :> p1
MCRank   == f1 :> 1 @@ f2 :> 2

\* Two consumers share a worker_id, one has its own.
MCWorkerOf == h1 :> w1 @@ h2 :> w1 @@ h3 :> w2
=============================================================================
