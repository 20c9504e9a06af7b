------------------------ MODULE MCCallUpstreamClaims ------------------------
(***************************************************************************)
(* Small instances of CallUpstreamClaims for TLC.                          *)
(***************************************************************************)
EXTENDS CallUpstreamClaims, TLC

CONSTANTS t1, t2, a1

OneToken == <<t1>>
TwoTokens == <<t1, t2>>
OneAccount == [t \in Tokens |-> a1]

=============================================================================
