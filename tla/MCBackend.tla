------------------------------ MODULE MCBackend ------------------------------
(* Model-checking instances of Backend. *)
EXTENDS Backend
=============================================================================
