-------------------------- MODULE RateLimiterProofs --------------------------
(***************************************************************************)
(* The rate limiter implements the request budget, for every set of keys   *)
(* and rates, and lets no more through than the budget.                    *)
(***************************************************************************)
EXTENDS RateLimiter, TLAPS

\* A bucket holds at least one request, in whole parts.
LEMMA CapacityType ==
    ASSUME NEW k \in Keys
    PROVE  /\ Rate[k] \in Nat \ {0}
           /\ Capacity(k) \in Nat
           /\ Capacity(k) >= Unit
<1>1. Rate[k] \in Nat \ {0} /\ Unit \in Nat \ {0}
  BY RateAssumption, UnitAssumption
<1> DEFINE ceiling == (Rate[k] + Unit - 1) \div Unit
<1>2. ceiling \in Int
  BY <1>1
<1>3. Larger(1, ceiling) \in Nat \ {0}
  BY <1>2 DEF Larger
<1> HIDE DEF ceiling
<1>4. \A n \in Nat \ {0} : Unit * n \in Nat /\ Unit * n >= Unit
  BY <1>1
<1> QED
  BY <1>1, <1>3, <1>4 DEF Capacity, ceiling

\* What the level of a key is made of.
Sound == TypeOK /\ BucketBounded

\* A level is between nothing and the capacity.
LEMMA LevelType ==
    ASSUME Sound, NEW k \in Keys
    PROVE  Level(k) \in Nat /\ Level(k) <= Capacity(k)
<1>1. Capacity(k) \in Nat /\ Rate[k] \in Nat
  BY CapacityType
<1>2. CASE ~Known(k)
  BY <1>1, <1>2 DEF Level
<1>3. CASE Known(k)
  <2>1. /\ buckets[k].tokens \in Nat /\ buckets[k].updated \in Nat
        /\ now - buckets[k].updated \in Nat
    BY <1>3, TimeAssumption DEF Sound, TypeOK, BucketBounded, Known
  <2>2. (now - buckets[k].updated) * Rate[k] \in Nat
    BY <2>1, <1>1
  <2> QED
    BY <2>1, <2>2, <1>1, <1>3 DEF Level, Smaller
<1> QED
  BY <1>2, <1>3

\* The initial states are sound.
LEMMA InitSound == Init => Sound
  BY TimeAssumption DEF Init, Sound, TypeOK, BucketBounded, Known

\* The bucket that Allow leaves behind.
LEMMA AllowMakesBucket ==
    ASSUME Sound, NEW k \in Keys, Allow(k)
    PROVE  \E left \in Nat :
              /\ left = IF Affordable(k) THEN Level(k) - Unit ELSE Level(k)
              /\ left <= Capacity(k)
              /\ buckets' = [buckets EXCEPT ![k] =
                               [tokens |-> left, updated |-> now]]
<1>1. Level(k) \in Nat /\ Level(k) <= Capacity(k) /\ Capacity(k) \in Nat
  BY LevelType, CapacityType
<1>2. Unit \in Nat
  BY UnitAssumption
<1> DEFINE left == IF Affordable(k) THEN Level(k) - Unit ELSE Level(k)
<1>3. left \in Nat /\ left <= Capacity(k)
  BY <1>1, <1>2 DEF Affordable
<1>4. buckets' = [buckets EXCEPT ![k] = [tokens |-> left, updated |-> now]]
  BY DEF Allow
<1> QED
  BY <1>3, <1>4

\* Every step keeps the buckets sound.
LEMMA NextSound == Sound /\ [Next]_vars => Sound'
<1> SUFFICES ASSUME Sound, [Next]_vars PROVE Sound'
  OBVIOUS
<1> USE DEF Sound, TypeOK, BucketBounded
<1>t. MaxTime \in Nat /\ now \in Nat
  BY TimeAssumption
<1>1. ASSUME NEW k \in Keys, Allow(k) PROVE Sound'
  <2>1. PICK left \in Nat :
           /\ left <= Capacity(k)
           /\ buckets' = [buckets EXCEPT ![k] =
                            [tokens |-> left, updated |-> now]]
    BY <1>1, AllowMakesBucket
  <2>2. buckets' \in [Keys -> {NoBucket} \cup [tokens : Nat, updated : Nat]]
    BY <2>1, <1>t
  <2>3. BucketBounded'
    <3> SUFFICES ASSUME NEW j \in Keys, Known(j)'
                 PROVE  buckets'[j].tokens <= Capacity(j) /\ buckets'[j].updated <= now'
      OBVIOUS
    <3>1. now' = now
      BY <1>1 DEF Allow
    <3>2. CASE j = k
      BY <3>1, <3>2, <2>1, <1>t
    <3>3. CASE j # k
      BY <3>1, <3>3, <2>1 DEF Known
    <3> QED
      BY <3>2, <3>3
  <2>4. passed' \in [Keys -> Nat]
    BY <1>1 DEF Allow
  <2>5. answer' \in {NoAnswer} \cup [key : Keys, allowed : BOOLEAN]
    BY <1>1 DEF Allow, Affordable
  <2> QED
    BY <1>1, <2>2, <2>3, <2>4, <2>5 DEF Allow
<1>2. CASE Cleanup
  <2>1. \A k \in Keys : buckets'[k] \in {NoBucket, buckets[k]}
    BY <1>2 DEF Cleanup
  <2>2. buckets' \in [Keys -> {NoBucket} \cup [tokens : Nat, updated : Nat]]
    BY <1>2, <2>1 DEF Cleanup
  <2>3. BucketBounded'
    BY <1>2, <2>1 DEF Cleanup, Known
  <2> QED
    BY <1>2, <2>2, <2>3 DEF Cleanup
<1>3. CASE Tick
  <2>1. \A k \in Keys : Known(k) => buckets[k].updated \in Nat
    BY DEF Known
  <2>2. BucketBounded'
    BY <1>3, <2>1, <1>t DEF Tick, Known
  <2> QED
    BY <1>3, <2>2, <1>t DEF Tick
<1>4. CASE OpenWindow
  BY <1>4, <1>t DEF OpenWindow, Known
<1>5. CASE UNCHANGED vars
  BY <1>5 DEF vars, Known
<1> QED
  BY <1>1, <1>2, <1>3, <1>4, <1>5 DEF Next

\* The buckets are well-formed in every state.
THEOREM LimiterTyped == Spec => []TypeOK
<1>1. Spec => []Sound
  BY InitSound, NextSound, PTL DEF Spec
<1>2. Sound => TypeOK
  BY DEF Sound
<1> QED
  BY <1>1, <1>2, PTL

-----------------------------------------------------------------------------
\* Allow takes a request's worth from one level, or leaves it.
LEMMA AllowLevels ==
    ASSUME Sound, NEW k \in Keys, Allow(k)
    PROVE  \A j \in Keys :
              Level(j)' = IF j = k /\ Affordable(k) THEN Level(k) - Unit
                                                    ELSE Level(j)
<1> SUFFICES ASSUME NEW j \in Keys
             PROVE  Level(j)' = IF j = k /\ Affordable(k)
                                  THEN Level(k) - Unit ELSE Level(j)
  OBVIOUS
<1>1. now' = now /\ now \in Nat
  BY DEF Allow, Sound, TypeOK
<1>2. PICK left \in Nat :
         /\ left = IF Affordable(k) THEN Level(k) - Unit ELSE Level(k)
         /\ left <= Capacity(k)
         /\ buckets' = [buckets EXCEPT ![k] = [tokens |-> left, updated |-> now]]
  BY AllowMakesBucket
<1>3. CASE j = k
  <2>1. /\ buckets'[k] = [tokens |-> left, updated |-> now]
        /\ Known(k)'
    BY <1>1, <1>2 DEF Sound, TypeOK, Known, NoBucket
  <2>2. (now - now) * Rate[k] = 0 /\ Capacity(k) \in Nat
    BY <1>1, CapacityType
  <2>3. Level(k)' = Smaller(Capacity(k), left + (now - now) * Rate[k])
    BY <1>1, <2>1 DEF Level
  <2> QED
    BY <1>2, <1>3, <2>2, <2>3 DEF Smaller
<1>4. CASE j # k
  BY <1>1, <1>2, <1>4 DEF Sound, TypeOK, Level, Known
<1> QED
  BY <1>3, <1>4

\* Time adds a tick's worth to every level, up to the capacity.
LEMMA TickLevels ==
    ASSUME Sound, Tick
    PROVE  \A k \in Keys :
              Level(k)' = Smaller(Capacity(k), Level(k) + Rate[k])
<1> SUFFICES ASSUME NEW k \in Keys
             PROVE  Level(k)' = Smaller(Capacity(k), Level(k) + Rate[k])
  OBVIOUS
<1>1. /\ Capacity(k) \in Nat /\ Rate[k] \in Nat
      /\ now' = now + 1 /\ buckets' = buckets /\ now \in Nat
  BY CapacityType DEF Tick, Sound, TypeOK
<1>2. CASE ~Known(k)
  BY <1>1, <1>2 DEF Level, Smaller, Known
<1>3. CASE Known(k)
  <2> DEFINE idle == now - buckets[k].updated
  <2>1. buckets[k].tokens \in Nat /\ idle \in Nat
    BY <1>1, <1>3 DEF Sound, TypeOK, BucketBounded, Known
  <2>2. now' - buckets[k].updated = idle + 1
    BY <1>1, <1>3 DEF Sound, TypeOK, Known
  <2>3. (idle + 1) * Rate[k] = idle * Rate[k] + Rate[k] /\ idle * Rate[k] \in Nat
    <3>1. \A i, r \in Nat : (i + 1) * r = i * r + r /\ i * r \in Nat
      OBVIOUS
    <3> HIDE DEF idle
    <3> QED
      BY <3>1, <2>1, <1>1
  <2>4. /\ Level(k) = Smaller(Capacity(k), buckets[k].tokens + idle * Rate[k])
        /\ Level(k)' = Smaller(Capacity(k), buckets[k].tokens + (idle + 1) * Rate[k])
    BY <1>1, <1>3, <2>2 DEF Level, Known
  <2> HIDE DEF idle
  <2> QED
    BY <1>1, <2>1, <2>3, <2>4 DEF Smaller
<1> QED
  BY <1>2, <1>3

\* Cleanup fills the level of an idle key and changes no other.
LEMMA CleanupLevels ==
    ASSUME Sound, Cleanup
    PROVE  \A k \in Keys :
              Level(k)' = IF Idle(k) THEN Capacity(k) ELSE Level(k)
<1> SUFFICES ASSUME NEW k \in Keys
             PROVE  Level(k)' = IF Idle(k) THEN Capacity(k) ELSE Level(k)
  OBVIOUS
<1>1. now' = now /\ buckets'[k] = IF Idle(k) THEN NoBucket ELSE buckets[k]
  BY DEF Cleanup
<1>2. CASE Idle(k)
  BY <1>1, <1>2 DEF Level, Known
<1>3. CASE ~Idle(k)
  BY <1>1, <1>3 DEF Level, Known
<1> QED
  BY <1>2, <1>3

-----------------------------------------------------------------------------
\* The two specifications measure capacities alike.
LEMMA SameCapacity == \A k \in Keys : Budget!Capacity(k) = Capacity(k)
  BY DEF Budget!Capacity, Capacity, Budget!Larger, Larger

\* Every step of the limiter is one of the budget, or changes nothing of it.
LEMMA StepImplements ==
    Sound /\ [Next]_vars => [Budget!Next]_Budget!vars
<1> SUFFICES ASSUME Sound, [Next]_vars PROVE [Budget!Next]_Budget!vars
  OBVIOUS
<1> DEFINE credit == [k \in Keys |-> Level(k)]
           asked == [k \in Keys |-> buckets[k].updated]
<1>1. ASSUME NEW k \in Keys, Allow(k) PROVE Budget!Next
  <2>1. asked' = [asked EXCEPT ![k] = now] /\ UNCHANGED now
    <3>1. PICK left : buckets' = [buckets EXCEPT ![k] =
                                    [tokens |-> left, updated |-> now]]
      BY <1>1 DEF Allow
    <3>2. \A j \in Keys : buckets'[j].updated = IF j = k THEN now ELSE buckets[j].updated
      BY <3>1 DEF Sound, TypeOK
    <3> QED
      BY <1>1, <3>2 DEF Allow
  <2>2. CASE Affordable(k)
    <3>1. credit' = [credit EXCEPT ![k] = credit[k] - Unit]
      BY <1>1, <2>2, AllowLevels
    <3>2. credit[k] >= Unit
      BY <2>2 DEF Affordable
    <3>3. answer' = [key |-> k, allowed |-> TRUE]
      <4>1. Affordable(k) = TRUE
        BY <2>2 DEF Affordable
      <4> QED
        BY <1>1, <4>1 DEF Allow
    <3>4. Budget!Admit(k)
      BY <2>1, <3>1, <3>2, <3>3 DEF Budget!Admit
    <3> QED
      BY <3>4 DEF Budget!Next
  <2>3. CASE ~Affordable(k)
    <3>1. credit' = credit
      BY <1>1, <2>3, AllowLevels
    <3>2. credit[k] < Unit
      BY <2>3, LevelType, UnitAssumption DEF Affordable
    <3>3. answer' = [key |-> k, allowed |-> FALSE]
      <4>1. Affordable(k) = FALSE
        BY <2>3 DEF Affordable
      <4> QED
        BY <1>1, <4>1 DEF Allow
    <3>4. Budget!Refuse(k)
      BY <2>1, <3>1, <3>2, <3>3 DEF Budget!Refuse
    <3> QED
      BY <3>4 DEF Budget!Next
  <2> QED
    BY <2>2, <2>3
<1>2. CASE Cleanup
  <2>0. PICK idle : idle = {k \in Keys : Idle(k)}
    OBVIOUS
  <2>1. credit' = [k \in Keys |-> IF k \in idle THEN Capacity(k) ELSE credit[k]]
    BY <1>2, <2>0, CleanupLevels
  <2>2. asked' = [k \in Keys |-> IF k \in idle THEN Budget!Never ELSE asked[k]]
    BY <1>2, <2>0 DEF Cleanup, NoBucket, Budget!Never
  <2>3. \A k \in idle : asked[k] < now - MaxIdle
    BY <2>0 DEF Idle
  <2>4. UNCHANGED <<now, answer>>
    BY <1>2 DEF Cleanup
  <2>5. Budget!Forget(idle)
    BY <2>1, <2>2, <2>3, <2>4, SameCapacity DEF Budget!Forget
  <2>6. idle \in SUBSET Keys
    BY <2>0
  <2> QED
    BY <2>5, <2>6 DEF Budget!Next
<1>3. CASE Tick
  <2>1. credit' = [k \in Keys |-> Smaller(Capacity(k), credit[k] + Rate[k])]
    BY <1>3, TickLevels
  <2>2. Budget!Pass
    BY <1>3, <2>1, SameCapacity DEF Tick, Budget!Pass, Budget!Smaller, Smaller
  <2> QED
    BY <2>2 DEF Budget!Next
<1>4. CASE OpenWindow
  <2>1. credit' = credit /\ asked' = asked
    BY <1>4 DEF OpenWindow, Level, Known
  <2> QED
    BY <1>4, <2>1 DEF OpenWindow, Budget!vars
<1>5. CASE UNCHANGED vars
  BY <1>5 DEF vars, Budget!vars, Level, Known
<1> QED
  BY <1>1, <1>2, <1>3, <1>4, <1>5 DEF Next

\* The limiter implements the budget, at every rate above 0: it lets through
\* and refuses as a credit would that grows with time, although it fills
\* buckets late; and what it forgets is a key that was idle for MaxIdle.
THEOREM LimiterImplementsBudget == Spec => BudgetSpec
<1>1. Init => Budget!Init
  BY SameCapacity DEF Init, Budget!Init, NoAnswer, Budget!NoAnswer, Level, Known,
     NoBucket, Budget!Never
<1>2. Spec => []Sound
  BY InitSound, NextSound, PTL DEF Spec
<1> QED
  BY <1>1, <1>2, StepImplements, PTL DEF Spec, BudgetSpec, Budget!Spec

-----------------------------------------------------------------------------
(* The account, in parts of a request times MaxIdle.                       *)

\* What a key could be let have at most: its bucket, filled by what it earns.
Worth(k) ==
    IF Known(k)
      THEN Smaller(Capacity(k) * MaxIdle,
                   buckets[k].tokens * MaxIdle
                     + Earned(k) * (now - buckets[k].updated))
      ELSE Capacity(k) * MaxIdle

\* What a key earns in MaxIdle is at least its capacity and what its rate yields.
LEMMA EarnedType ==
    ASSUME NEW k \in Keys
    PROVE  /\ Earned(k) \in Nat /\ MaxIdle \in Nat \ {0}
           /\ Earned(k) >= Capacity(k) /\ Earned(k) >= Rate[k] * MaxIdle
           /\ Capacity(k) * MaxIdle \in Nat
<1>1. Capacity(k) \in Nat /\ Rate[k] \in Nat /\ MaxIdle \in Nat \ {0}
  BY CapacityType, IdleAssumption
<1>2. \A m, n \in Nat : m * n \in Nat
  OBVIOUS
<1>3. Rate[k] * MaxIdle \in Nat /\ Capacity(k) * MaxIdle \in Nat
  BY <1>1, <1>2
<1> QED
  BY <1>1, <1>3 DEF Earned, Larger

\* A known bucket in numbers.
LEMMA BucketType ==
    ASSUME Sound, NEW k \in Keys, Known(k)
    PROVE  /\ buckets[k].tokens \in Nat /\ buckets[k].tokens <= Capacity(k)
           /\ buckets[k].updated \in Nat /\ now \in Nat
           /\ now - buckets[k].updated \in Nat
  BY TimeAssumption DEF Sound, TypeOK, BucketBounded, Known

\* A bucket is worth what is in it, at least, and no more than a full one.
LEMMA WorthBounds ==
    ASSUME Sound, NEW k \in Keys
    PROVE  /\ Worth(k) \in Nat
           /\ Level(k) * MaxIdle <= Worth(k)
           /\ Worth(k) <= Capacity(k) * MaxIdle
<1>1. /\ Capacity(k) \in Nat /\ Rate[k] \in Nat /\ MaxIdle \in Nat \ {0}
      /\ Earned(k) \in Nat /\ Earned(k) >= Rate[k] * MaxIdle
      /\ Capacity(k) * MaxIdle \in Nat
  BY CapacityType, EarnedType
<1>2. CASE ~Known(k)
  BY <1>1, <1>2 DEF Worth, Level
<1>3. CASE Known(k)
  <2> DEFINE tokens == buckets[k].tokens
             idle == now - buckets[k].updated
  <2>1. tokens \in Nat /\ idle \in Nat
    BY <1>3, BucketType
  <2>2. /\ Level(k) = Smaller(Capacity(k), tokens + idle * Rate[k])
        /\ Worth(k) = Smaller(Capacity(k) * MaxIdle,
                              tokens * MaxIdle + Earned(k) * idle)
    BY <1>3 DEF Level, Worth
  <2> HIDE DEF tokens, idle
  <2>3. \A m, n \in Nat : m * n \in Nat
    OBVIOUS
  <2>4. tokens * MaxIdle \in Nat /\ Earned(k) * idle \in Nat /\ idle * Rate[k] \in Nat
    BY <2>1, <2>3, <1>1
  <2>5. (idle * Rate[k]) * MaxIdle <= Earned(k) * idle
    <3>1. \A e, i, r, m \in Nat : e >= r * m => (i * r) * m <= e * i
      <4> SUFFICES ASSUME NEW e \in Nat, NEW i \in Nat, NEW r \in Nat, NEW m \in Nat,
                          e >= r * m
                   PROVE  (i * r) * m <= e * i
        OBVIOUS
      <4>1. (i * r) * m = (r * m) * i /\ r * m \in Nat
        OBVIOUS
      <4>2. \A a, b, c \in Nat : a <= b => a * c <= b * c
        OBVIOUS
      <4> QED
        BY <4>1, <4>2
    <3> QED
      BY <3>1, <2>1, <1>1
  <2>6. (tokens + idle * Rate[k]) * MaxIdle
           = tokens * MaxIdle + (idle * Rate[k]) * MaxIdle
    <3>1. \A a, b, c \in Nat : (a + b) * c = a * c + b * c
      OBVIOUS
    <3> QED
      BY <3>1, <2>1, <2>4, <1>1
  <2>7. \A a, b, c \in Nat : a <= b => a * c <= b * c
    OBVIOUS
  <2>8. /\ Level(k) \in Nat /\ Level(k) <= Capacity(k)
        /\ Level(k) <= tokens + idle * Rate[k]
    BY <2>1, <2>2, <2>4, <1>1 DEF Smaller
  <2>9. /\ Level(k) * MaxIdle <= Capacity(k) * MaxIdle
        /\ Level(k) * MaxIdle <= (tokens + idle * Rate[k]) * MaxIdle
    <3>1. tokens + idle * Rate[k] \in Nat
      BY <2>1, <2>4
    <3> QED
      BY <3>1, <2>7, <2>8, <1>1
  <2>10. Level(k) * MaxIdle \in Nat /\ (idle * Rate[k]) * MaxIdle \in Nat
    BY <2>3, <2>4, <2>8, <1>1
  <2> QED
    BY <1>1, <2>2, <2>4, <2>5, <2>6, <2>9, <2>10 DEF Smaller
<1> QED
  BY <1>2, <1>3

\* Who is let through pays a request's worth; nobody gains by asking.
LEMMA AllowWorth ==
    ASSUME Sound, NEW k \in Keys, Allow(k), NEW j \in Keys
    PROVE  /\ Worth(j)' \in Nat
           /\ Worth(j)' + (IF j = k /\ Affordable(k) THEN Unit * MaxIdle ELSE 0)
                <= Worth(j)
<1>1. /\ Unit \in Nat /\ MaxIdle \in Nat /\ Unit * MaxIdle \in Nat
      /\ Worth(j) \in Nat
  BY UnitAssumption, IdleAssumption, WorthBounds
<1>2. PICK left \in Nat :
         /\ left = IF Affordable(k) THEN Level(k) - Unit ELSE Level(k)
         /\ left <= Capacity(k)
         /\ buckets' = [buckets EXCEPT ![k] = [tokens |-> left, updated |-> now]]
  BY AllowMakesBucket
<1>3. now' = now /\ now \in Nat
  BY DEF Allow, Sound, TypeOK
<1>4. CASE j = k
  <2>1. Known(k)' /\ buckets'[k] = [tokens |-> left, updated |-> now]
    BY <1>2, <1>3 DEF Sound, TypeOK, Known, NoBucket
  <2>2. Worth(k)' = Smaller(Capacity(k) * MaxIdle,
                            left * MaxIdle + Earned(k) * (now - now))
    BY <1>3, <2>1 DEF Worth
  <2>3. Earned(k) * (now - now) = 0 /\ Capacity(k) * MaxIdle \in Nat
    BY <1>3, EarnedType
  <2>4. left * MaxIdle \in Nat
    BY <1>1, <1>2
  <2>5. Worth(k)' <= left * MaxIdle /\ Worth(k)' \in Nat
    BY <2>2, <2>3, <2>4 DEF Smaller
  <2>6. left * MaxIdle + (IF Affordable(k) THEN Unit * MaxIdle ELSE 0)
           = Level(k) * MaxIdle
    <3>1. CASE Affordable(k)
      <4>1. Level(k) = left + Unit
        BY <1>1, <1>2, <3>1, LevelType
      <4>2. \A a, b, c \in Nat : (a + b) * c = a * c + b * c
        OBVIOUS
      <4> QED
        BY <3>1, <4>1, <4>2, <1>1
    <3>2. CASE ~Affordable(k)
      BY <1>2, <2>4, <3>2
    <3> QED
      BY <3>1, <3>2
  <2>7. Level(k) * MaxIdle <= Worth(k)
    BY WorthBounds
  <2> DEFINE paid == IF Affordable(k) THEN Unit * MaxIdle ELSE 0
  <2>8. paid \in Nat
    BY <1>1
  <2> HIDE DEF paid
  <2>9. Worth(k)' + paid <= Worth(k)
    BY <1>1, <1>4, <2>4, <2>5, <2>6, <2>7, <2>8 DEF paid
  <2> QED
    BY <1>4, <2>5, <2>9 DEF paid
<1>5. CASE j # k
  <2>1. Worth(j)' = Worth(j)
    BY <1>2, <1>3, <1>5 DEF Sound, TypeOK, Worth, Known
  <2> QED
    BY <1>1, <1>5, <2>1
<1> QED
  BY <1>4, <1>5

\* A tick is worth what is earned in it.
LEMMA TickWorth ==
    ASSUME Sound, Tick, NEW k \in Keys
    PROVE  Worth(k)' \in Nat /\ Worth(k)' <= Worth(k) + Earned(k)
<1>1. /\ Earned(k) \in Nat /\ Capacity(k) * MaxIdle \in Nat /\ MaxIdle \in Nat
      /\ now' = now + 1 /\ buckets' = buckets
  BY EarnedType DEF Tick
<1>2. CASE ~Known(k)
  BY <1>1, <1>2 DEF Worth, Known
<1>3. CASE Known(k)
  <2> DEFINE tokens == buckets[k].tokens
             idle == now - buckets[k].updated
  <2>1. tokens \in Nat /\ idle \in Nat /\ now' - buckets[k].updated = idle + 1
    BY <1>1, <1>3, BucketType
  <2>2. /\ Worth(k) = Smaller(Capacity(k) * MaxIdle,
                              tokens * MaxIdle + Earned(k) * idle)
        /\ Worth(k)' = Smaller(Capacity(k) * MaxIdle,
                               tokens * MaxIdle + Earned(k) * (idle + 1))
    BY <1>1, <1>3, <2>1 DEF Worth, Known
  <2> HIDE DEF tokens, idle
  <2>3. \A e, i \in Nat : e * (i + 1) = e * i + e /\ e * i \in Nat
    OBVIOUS
  <2>4. tokens * MaxIdle \in Nat
    BY <1>1, <2>1
  <2>5. Earned(k) * (idle + 1) = Earned(k) * idle + Earned(k) /\ Earned(k) * idle \in Nat
    BY <1>1, <2>1, <2>3
  <2> QED
    BY <1>1, <2>2, <2>4, <2>5 DEF Smaller
<1> QED
  BY <1>2, <1>3

\* A bucket that is dropped could have been worth a full one.
LEMMA CleanupWorth ==
    ASSUME Sound, Cleanup, NEW k \in Keys
    PROVE  Worth(k)' = Worth(k)
<1>1. now' = now /\ buckets'[k] = IF Idle(k) THEN NoBucket ELSE buckets[k]
  BY DEF Cleanup
<1>2. CASE Idle(k)
  <2> DEFINE tokens == buckets[k].tokens
             idle == now - buckets[k].updated
  <2>1. /\ Earned(k) \in Nat /\ MaxIdle \in Nat /\ Capacity(k) \in Nat
        /\ Earned(k) >= Capacity(k) /\ Capacity(k) * MaxIdle \in Nat
    BY EarnedType, CapacityType
  <2>2. tokens \in Nat /\ idle \in Nat /\ idle >= MaxIdle
    BY <1>2, <2>1, BucketType DEF Idle
  <2>3. Worth(k) = Smaller(Capacity(k) * MaxIdle, tokens * MaxIdle + Earned(k) * idle)
    BY <1>2 DEF Worth, Idle
  <2>4. Worth(k)' = Capacity(k) * MaxIdle
    BY <1>1, <1>2 DEF Worth, Known
  <2> HIDE DEF tokens, idle
  <2>5. Earned(k) * idle >= Capacity(k) * MaxIdle /\ Earned(k) * idle \in Nat
    <3>1. \A e, c, i, m \in Nat : e >= c /\ i >= m => e * i >= c * m /\ e * i \in Nat
      <4> SUFFICES ASSUME NEW e \in Nat, NEW c \in Nat, NEW i \in Nat, NEW m \in Nat,
                          e >= c, i >= m
                   PROVE  e * i >= c * m /\ e * i \in Nat
        OBVIOUS
      <4>1. \A a, b, d \in Nat : a <= b => a * d <= b * d /\ d * a <= d * b
        OBVIOUS
      <4>2. c * m <= e * m /\ e * m <= e * i
        BY <4>1
      <4>3. c * m \in Nat /\ e * m \in Nat /\ e * i \in Nat
        OBVIOUS
      <4> QED
        BY <4>2, <4>3
    <3> QED
      BY <3>1, <2>1, <2>2
  <2>6. tokens * MaxIdle \in Nat
    BY <2>1, <2>2
  <2> QED
    BY <2>1, <2>3, <2>4, <2>5, <2>6 DEF Smaller
<1>3. CASE ~Idle(k)
  BY <1>1, <1>3 DEF Worth, Known
<1> QED
  BY <1>2, <1>3

\* What was let through and what is left were there at the beginning of the
\* window or were earned in it.
Accounted ==
    /\ since <= now
    /\ \A k \in Keys : passed[k] * Unit * MaxIdle + Worth(k)
                          <= Capacity(k) * MaxIdle + Earned(k) * (now - since)

\* Every step keeps the account.
LEMMA NextAccounted == Sound /\ Accounted /\ [Next]_vars => Accounted'
<1> SUFFICES ASSUME Sound, Accounted, [Next]_vars PROVE Accounted'
  OBVIOUS
<1>t. /\ now \in Nat /\ since \in Nat /\ passed \in [Keys -> Nat]
      /\ Unit \in Nat /\ MaxIdle \in Nat
  BY UnitAssumption, IdleAssumption DEF Sound, TypeOK
<1>c. \A k \in Keys : /\ Earned(k) \in Nat /\ Worth(k) \in Nat
                      /\ Capacity(k) * MaxIdle \in Nat
  BY EarnedType, WorthBounds
<1>e. now - since \in Nat /\ \A k \in Keys : Earned(k) * (now - since) \in Nat
  BY <1>t, <1>c DEF Accounted
<1>p. \A k \in Keys : passed[k] * Unit * MaxIdle \in Nat
  BY <1>t
<1>1. ASSUME NEW k \in Keys, Allow(k) PROVE Accounted'
  <2>1. UNCHANGED <<now, since>>
    BY <1>1 DEF Allow
  <2> SUFFICES ASSUME NEW j \in Keys
               PROVE  passed'[j] * Unit * MaxIdle + Worth(j)'
                         <= Capacity(j) * MaxIdle + Earned(j) * (now - since)
    BY <2>1 DEF Accounted
  <2>2. passed[j] * Unit * MaxIdle + Worth(j)
           <= Capacity(j) * MaxIdle + Earned(j) * (now - since)
    BY DEF Accounted
  <2>3. Worth(j)' \in Nat
    BY <1>1, AllowWorth
  <2>4. CASE j = k /\ Affordable(k)
    <3>1. passed'[j] = passed[j] + 1
      BY <1>1, <2>4, <1>t DEF Allow
    <3>2. Worth(j)' + Unit * MaxIdle <= Worth(j)
      BY <1>1, <2>4, AllowWorth
    <3>3. (passed[j] + 1) * Unit * MaxIdle = passed[j] * Unit * MaxIdle + Unit * MaxIdle
      <4>1. \A n, u, m \in Nat : (n + 1) * u * m = n * u * m + u * m
        OBVIOUS
      <4> QED
        BY <4>1, <1>t
    <3>4. Unit * MaxIdle \in Nat
      BY <1>t
    <3> QED
      BY <2>2, <2>3, <3>1, <3>2, <3>3, <3>4, <1>c, <1>e, <1>p
  <2>5. CASE ~(j = k /\ Affordable(k))
    <3>1. passed'[j] = passed[j]
      BY <1>1, <2>5, <1>t DEF Allow
    <3>2. Worth(j)' + 0 <= Worth(j)
      BY <1>1, <2>5, AllowWorth
    <3> QED
      BY <2>2, <2>3, <3>1, <3>2, <1>c, <1>e, <1>p
  <2> QED
    BY <2>4, <2>5
<1>2. CASE Cleanup
  BY <1>2, CleanupWorth DEF Cleanup, Accounted
<1>3. CASE Tick
  <2>1. now' = now + 1 /\ UNCHANGED <<since, passed>>
    BY <1>3 DEF Tick
  <2>2. ASSUME NEW k \in Keys
        PROVE  passed[k] * Unit * MaxIdle + Worth(k)'
                  <= Capacity(k) * MaxIdle + Earned(k) * (now + 1 - since)
    <3>1. Worth(k)' <= Worth(k) + Earned(k) /\ Worth(k)' \in Nat
      BY <1>3, TickWorth
    <3>2. Earned(k) * (now + 1 - since) = Earned(k) * (now - since) + Earned(k)
      <4>1. \A r, w \in Nat : r * (w + 1) = r * w + r
        OBVIOUS
      <4>2. now + 1 - since = (now - since) + 1
        BY <1>t
      <4> QED
        BY <4>1, <4>2, <1>c, <1>e
    <3>3. passed[k] * Unit * MaxIdle + Worth(k)
             <= Capacity(k) * MaxIdle + Earned(k) * (now - since)
      BY DEF Accounted
    <3> QED
      BY <3>1, <3>2, <3>3, <1>c, <1>e, <1>p
  <2> QED
    BY <2>1, <2>2, <1>t DEF Accounted
<1>4. CASE OpenWindow
  <2>1. since' = now /\ now' = now /\ \A k \in Keys : passed'[k] = 0
    BY <1>4 DEF OpenWindow
  <2>2. \A k \in Keys : Worth(k)' = Worth(k)
    BY <1>4 DEF OpenWindow, Worth, Known
  <2>3. \A k \in Keys : Earned(k) * (now - now) = 0 /\ 0 * Unit * MaxIdle = 0
    BY <1>t, <1>c
  <2>4. \A k \in Keys : Worth(k) <= Capacity(k) * MaxIdle
    BY WorthBounds
  <2> QED
    BY <2>1, <2>2, <2>3, <2>4, <1>t, <1>c DEF Accounted
<1>5. CASE UNCHANGED vars
  BY <1>5 DEF vars, Accounted, Worth, Known
<1> QED
  BY <1>1, <1>2, <1>3, <1>4, <1>5 DEF Next

\* In every window of time, at every rate above 0, a key gets no more through
\* than its capacity and what it earns in the window.
THEOREM LimiterWithinBudget == Spec => []WithinBudget
<1>1. Init => Accounted
  <2>1. \A k \in Keys : /\ Capacity(k) * MaxIdle \in Nat /\ Earned(k) \in Nat
                        /\ Unit \in Nat /\ MaxIdle \in Nat
    BY EarnedType, UnitAssumption
  <2>2. \A k \in Keys : Earned(k) * (0 - 0) = 0 /\ 0 * Unit * MaxIdle = 0
    <3>1. \A n \in Nat : n * (0 - 0) = 0 /\ 0 * n = 0
      OBVIOUS
    <3> QED
      BY <2>1, <3>1
  <2> QED
    BY <2>1, <2>2 DEF Init, Accounted, Worth, Known
<1>2. Sound /\ Accounted => WithinBudget
  <2> SUFFICES ASSUME Sound, Accounted, NEW k \in Keys
               PROVE  passed[k] * Unit * MaxIdle
                         <= Capacity(k) * MaxIdle + Earned(k) * (now - since)
    BY DEF WithinBudget
  <2>1. /\ Worth(k) \in Nat /\ Capacity(k) * MaxIdle \in Nat
        /\ passed[k] * Unit * MaxIdle \in Nat /\ Earned(k) * (now - since) \in Int
    BY WorthBounds, EarnedType, UnitAssumption, IdleAssumption DEF Sound, TypeOK
  <2>2. passed[k] * Unit * MaxIdle + Worth(k)
           <= Capacity(k) * MaxIdle + Earned(k) * (now - since)
    BY DEF Accounted
  <2> QED
    BY <2>1, <2>2
<1> QED
  BY <1>1, <1>2, InitSound, NextSound, NextAccounted, PTL DEF Spec

\* A key that earns its capacity before it can be forgotten.
Steady(k) == Rate[k] * MaxIdle >= Capacity(k)

\* Such a key keeps to its rate: in no window does it get more through than its
\* capacity and what its rate yields.
WithinRate ==
    \A k \in Keys : Steady(k) =>
        passed[k] * Unit <= Capacity(k) + Rate[k] * (now - since)

\* Forgetting a bucket after MaxIdle does not let a steady key exceed its rate.
THEOREM SteadyKeysKeepRate == Spec => []WithinRate
<1>1. Sound /\ since <= now /\ WithinBudget => WithinRate
  <2> SUFFICES ASSUME Sound, since <= now, WithinBudget, NEW k \in Keys, Steady(k)
               PROVE  passed[k] * Unit <= Capacity(k) + Rate[k] * (now - since)
    BY DEF WithinRate
  <2> DEFINE got == passed[k] * Unit
             earned == Rate[k] * (now - since)
  <2>1. /\ MaxIdle \in Nat \ {0} /\ Capacity(k) \in Nat /\ Rate[k] \in Nat
        /\ now - since \in Nat /\ passed[k] \in Nat /\ Unit \in Nat
    BY IdleAssumption, CapacityType, UnitAssumption DEF Sound, TypeOK
  <2>2. got \in Nat /\ earned \in Nat
    BY <2>1
  <2>3. Earned(k) = Rate[k] * MaxIdle
    <3>1. Rate[k] * MaxIdle \in Nat
      BY <2>1
    <3> QED
      BY <2>1, <3>1 DEF Steady, Earned, Larger
  <2>4. got * MaxIdle <= Capacity(k) * MaxIdle + (Rate[k] * MaxIdle) * (now - since)
    BY <2>3 DEF WithinBudget
  <2>5. (Rate[k] * MaxIdle) * (now - since) = earned * MaxIdle
    <3>1. \A r, m, w \in Nat : (r * m) * w = (r * w) * m
      OBVIOUS
    <3> QED
      BY <3>1, <2>1
  <2> HIDE DEF got, earned
  <2>6. Capacity(k) * MaxIdle + earned * MaxIdle = (Capacity(k) + earned) * MaxIdle
    <3>1. \A a, b, m \in Nat : a * m + b * m = (a + b) * m
      OBVIOUS
    <3> QED
      BY <3>1, <2>1, <2>2
  <2>7. got <= Capacity(k) + earned
    <3>1. \A a, b \in Nat, m \in Nat \ {0} : a * m <= b * m => a <= b
      OBVIOUS
    <3>2. Capacity(k) + earned \in Nat
      BY <2>1, <2>2
    <3> QED
      BY <3>1, <3>2, <2>1, <2>2, <2>4, <2>5, <2>6
  <2> QED
    BY <2>7 DEF got, earned
<1>2. Init => since <= now
  BY DEF Init
<1>3. Sound /\ since <= now /\ [Next]_vars => (since <= now)'
  BY TimeAssumption DEF Sound, TypeOK, Next, Allow, Cleanup, Tick, OpenWindow, vars
<1> QED
  BY <1>1, <1>2, <1>3, InitSound, NextSound, LimiterWithinBudget, PTL DEF Spec

=============================================================================
