-------------------------- MODULE MCHoldingBridge --------------------------
(* Small instances of HoldingBridge for TLC.                               *)
EXTENDS HoldingBridge, TLC

\* Messages, and handlers, are interchangeable; sound for safety only.
Symmetry == Permutations(Msgs) \cup Permutations(Handlers)
=============================================================================
