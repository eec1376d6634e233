--------------------------- MODULE MCIngressChain ---------------------------
(* Small instances of IngressChain for TLC.                                *)
EXTENDS IngressChain, TLC

\* Handlers are interchangeable; sound for safety only.
Symmetry == Permutations(Handlers)
=============================================================================
