----------------------------- MODULE RateLimiter -----------------------------
(***************************************************************************)
(* The rate limiter of internal/ratelimit/limiter.go: a bucket per API     *)
(* key, filled when it is looked at and dropped when it has been idle.     *)
(*                                                                         *)
(* A tick of the clock is a second; the rounding of float64 is left out.   *)
(* A key keeps its rate, since no statement of internal/db changes         *)
(* rate_limit_rps.  Allow and Cleanup hold the limiter's mutex from        *)
(* beginning to end, so each is one step.                                  *)
(***************************************************************************)
EXTENDS RequestRates

\* MaxIdle is the argument of Cleanup, an hour in RunJanitors.  A rate may be
\* any above 0, so that a key may earn less than its capacity in an hour.
CONSTANT MaxTime    \* bound: the last tick

ASSUME TimeAssumption == MaxTime \in Nat

VARIABLES
    now,        \* Limiter.now()
    buckets,    \* Limiter.buckets; the seen of a bucket is its updated
    answer,     \* the last question of Allow and its answer
    since,      \* history: the beginning of a window of time
    passed      \* history: requests of each key let through in the window

vars == <<now, buckets, answer, since, passed>>

NoAnswer == [key |-> "none", allowed |-> FALSE]
NoBucket == [tokens |-> 0, updated |-> -1]
Known(k) == buckets[k] # NoBucket

Init ==
    /\ now = 0
    /\ buckets = [k \in Keys |-> NoBucket]
    /\ answer = NoAnswer
    /\ since = 0
    /\ passed = [k \in Keys |-> 0]

\* Slip: a bucket grows without end.
LevelUncapped(k) ==
    IF Known(k) THEN buckets[k].tokens + (now - buckets[k].updated) * Rate[k]
                ELSE Capacity(k)

\* What Allow finds in the bucket of a key once it has filled it; a bucket
\* that it has to make is full.
Level(k) ==
    IF Known(k)
      THEN Smaller(Capacity(k),
                   buckets[k].tokens + (now - buckets[k].updated) * Rate[k])
      ELSE Capacity(k)

\* Slip: the bucket may go into debt by the request that empties it.
AllowOne(k) == Level(k) > 0

Affordable(k) == Level(k) >= Unit

Allow(k) ==
    LET ok == Affordable(k) IN
    /\ buckets' = [buckets EXCEPT ![k] =
                     [tokens  |-> IF ok THEN Level(k) - Unit ELSE Level(k),
                      updated |-> now]]
    /\ answer' = [key |-> k, allowed |-> ok]
    /\ passed' = IF ok THEN [passed EXCEPT ![k] = @ + 1] ELSE passed
    /\ UNCHANGED <<now, since>>

\* Slip: buckets are dropped as soon as they have been idle at all.
IdleAtAll(k) == Known(k) /\ buckets[k].updated < now

Idle(k) == Known(k) /\ buckets[k].updated < now - MaxIdle

Cleanup ==
    /\ buckets' = [k \in Keys |-> IF Idle(k) THEN NoBucket ELSE buckets[k]]
    /\ UNCHANGED <<now, answer, since, passed>>

Tick ==
    /\ now < MaxTime
    /\ now' = now + 1
    /\ UNCHANGED <<buckets, answer, since, passed>>

\* History: a window of time begins.
OpenWindow ==
    /\ since' = now
    /\ passed' = [k \in Keys |-> 0]
    /\ UNCHANGED <<now, buckets, answer>>

Next == (\E k \in Keys : Allow(k)) \/ Cleanup \/ Tick \/ OpenWindow

Spec == Init /\ [][Next]_vars

-----------------------------------------------------------------------------
TypeOK ==
    /\ now \in 0 .. MaxTime
    /\ buckets \in [Keys -> {NoBucket} \cup [tokens : Nat, updated : Nat]]
    /\ answer \in {NoAnswer} \cup [key : Keys, allowed : BOOLEAN]
    /\ since \in Nat
    /\ passed \in [Keys -> Nat]

\* A bucket never holds more than its capacity and is never from the future.
BucketBounded ==
    \A k \in Keys : Known(k) => /\ buckets[k].tokens <= Capacity(k)
                                /\ buckets[k].updated <= now

\* What a key comes to in MaxIdle seconds: what its rate yields or, if that is
\* less, the full bucket that it gets once it has been forgotten.
Earned(k) == Larger(Rate[k] * MaxIdle, Capacity(k))

\* In no window of time, whenever it begins, are more requests of a key let
\* through than its capacity and what it earns in the window, although buckets
\* are filled late, dropped and made anew.  With at least its capacity earned
\* in MaxIdle, a key comes to no more than its rate; a slower key comes to its
\* capacity every MaxIdle seconds, however low its rate.
WithinBudget ==
    \A k \in Keys : passed[k] * Unit * MaxIdle
                       <= Capacity(k) * MaxIdle + Earned(k) * (now - since)

\* The limiter lets through and refuses as a credit would that grows with
\* time and is forgotten only when nobody has asked for the key in MaxIdle.
Budget == INSTANCE RequestBudget
            WITH credit <- [k \in Keys |-> Level(k)],
                 asked <- [k \in Keys |-> buckets[k].updated]
BudgetSpec == Budget!Spec

=============================================================================
