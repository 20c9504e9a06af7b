----------------------------- MODULE MCServeHTTP -----------------------------
(***************************************************************************)
(* Small instances of ServeHTTP for TLC.                                   *)
(***************************************************************************)
EXTENDS ServeHTTP, TLC

RequestSymmetry == Permutations(Requests)

=============================================================================
