--------------------------- MODULE MCCallUpstream ---------------------------
(***************************************************************************)
(* Small instances of CallUpstream for TLC.                                *)
(***************************************************************************)
EXTENDS CallUpstream, TLC

CONSTANTS t1, t2, a1, a2

MCPool == <<t1, t2>>
OneAccount == [t \in Tokens |-> a1]
TwoAccounts == (t1 :> a1) @@ (t2 :> a2)
NoDonation == {}
SecondMoves == {<<t2, a1>>}

\* Requests are interchangeable; only for runs without liveness.
RequestSymmetry == Permutations(Requests)

=============================================================================
