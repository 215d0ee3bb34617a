--------------------------- MODULE MCAeFileEvents ---------------------------
(* Model-checking instances of AeFileEvents. *)
EXTENDS AeFileEvents, TLC

Symmetry == Permutations(Procs)
=============================================================================
