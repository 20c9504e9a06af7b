---------------------------- MODULE MCRateLimiter ----------------------------
(***************************************************************************)
(* Small instances of RateLimiter for TLC.                                 *)
(***************************************************************************)
EXTENDS RateLimiter, TLC

CONSTANTS rare, slow, fast

\* A quarter of a request a second, half a request, and one and a half.
Rates == (rare :> 1) @@ (slow :> 2) @@ (fast :> 6)

=============================================================================
