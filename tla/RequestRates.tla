---------------------------- MODULE RequestRates ----------------------------
(***************************************************************************)
(* The rates of API keys and the capacity of their buckets, measured in    *)
(* parts of a request of which Unit make one, so that a rate below one     *)
(* request a second is a whole number.                                     *)
(***************************************************************************)
EXTENDS Integers

CONSTANTS
    Keys,       \* API keys
    Rate,       \* parts of a request that a key earns in a second
    Unit,       \* parts of a request that make one
    MaxIdle     \* seconds after which an unused key may be forgotten

ASSUME UnitAssumption == Unit \in Nat \ {0}
ASSUME IdleAssumption == MaxIdle \in Nat \ {0}
ASSUME RateAssumption == Rate \in [Keys -> Nat \ {0}]

\* math.Max and math.Min.
Larger(a, b) == IF a > b THEN a ELSE b
Smaller(a, b) == IF a < b THEN a ELSE b

\* Requests per second, rounded up, and at least one.
Capacity(k) == Unit * Larger(1, (Rate[k] + Unit - 1) \div Unit)

=============================================================================
