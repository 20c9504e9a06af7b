------------------------------ MODULE MCStartup ------------------------------
(***************************************************************************)
(* Instances of two versions for TLC.                                      *)
(***************************************************************************)
EXTENDS Startup, TLC

CONSTANTS i1, i2, i3

OneUpgrade == i1 :> 2 @@ i2 :> 3 @@ i3 :> 3

=============================================================================
