---------------------------- MODULE MCOnDemandIO ----------------------------
(* Model-checking instances of OnDemandIO. *)
EXTENDS OnDemandIO, TLC

\* Clients and threads are only compared for equality.
Symmetry == Permutations(Clients) \cup Permutations(Threads)

\* Bound on the state space: a client structure may sit in the lists several
\* times once it has been reused; two jobs at a time show every effect.
\* The len field drifts away from the chain as updates are lost.
MaxQueued == 2
MaxLen    == 2
QueueBound == Len(nodes) + Len(io_processed) <= MaxQueued /\ len <= MaxLen
=============================================================================
