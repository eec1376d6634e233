--------------------------- MODULE MCAgendaTickets ---------------------------
(* Small instances of AgendaTickets for TLC.                               *)
EXTENDS AgendaTickets, TLC

CONSTANTS f1, f2, w1

MCRank   == [f \in Facts |-> IF f = f1 THEN 1 ELSE 2]
MCPartOf == [f \in Facts |-> f]
=============================================================================
