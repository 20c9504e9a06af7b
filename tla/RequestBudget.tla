---------------------------- MODULE RequestBudget ----------------------------
(***************************************************************************)
(* What a rate limiter promises the holders of API keys: each key has a    *)
(* credit that grows by its rate up to a capacity, a request takes one     *)
(* request's worth of it, and a request is refused only for want of it.    *)
(*                                                                         *)
(* A key that nobody has asked for during MaxIdle may be treated as a new  *)
(* one, with all its credit.  For a key that earns its capacity within     *)
(* MaxIdle this changes nothing; to a slower one it is a gift.             *)
(***************************************************************************)
EXTENDS RequestRates

VARIABLES
    now,        \* the clock
    answer,     \* the last question of Allow and its answer
    asked,      \* when each key was last asked for
    credit      \* what each key may still spend

vars == <<now, answer, asked, credit>>

NoAnswer == [key |-> "none", allowed |-> FALSE]
Never == -1

Init ==
    /\ now = 0
    /\ answer = NoAnswer
    /\ asked = [k \in Keys |-> Never]
    /\ credit = [k \in Keys |-> Capacity(k)]

Admit(k) ==
    /\ credit[k] >= Unit
    /\ credit' = [credit EXCEPT ![k] = @ - Unit]
    /\ asked' = [asked EXCEPT ![k] = now]
    /\ answer' = [key |-> k, allowed |-> TRUE]
    /\ UNCHANGED now

Refuse(k) ==
    /\ credit[k] < Unit
    /\ asked' = [asked EXCEPT ![k] = now]
    /\ answer' = [key |-> k, allowed |-> FALSE]
    /\ UNCHANGED <<now, credit>>

Pass ==
    /\ now' = now + 1
    /\ credit' = [k \in Keys |-> Smaller(Capacity(k), credit[k] + Rate[k])]
    /\ UNCHANGED <<answer, asked>>

\* Some keys that were asked for long ago become new ones.
Forget(S) ==
    /\ \A k \in S : asked[k] < now - MaxIdle
    /\ asked' = [k \in Keys |-> IF k \in S THEN Never ELSE asked[k]]
    /\ credit' = [k \in Keys |-> IF k \in S THEN Capacity(k) ELSE credit[k]]
    /\ UNCHANGED <<now, answer>>

Next ==
    \/ \E k \in Keys : Admit(k) \/ Refuse(k)
    \/ Pass
    \/ \E S \in SUBSET Keys : Forget(S)

Spec == Init /\ [][Next]_vars

=============================================================================
