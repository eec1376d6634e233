------------------------- MODULE MCCallbackGateway -------------------------
(* Small instances of CallbackGateway for TLC.                             *)
EXTENDS CallbackGateway, TLC

\* Messages are interchangeable; sound for safety only.
Symmetry == Permutations(Msgs)
=============================================================================
