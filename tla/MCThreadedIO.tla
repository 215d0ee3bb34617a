---------------------------- MODULE MCThreadedIO ----------------------------
(* Model-checking instances of ThreadedIO. *)
EXTENDS ThreadedIO, TLC

\* Clients and threads are only compared for equality.
Symmetry == Permutations(Clients) \cup Permutations(Threads)
=============================================================================
