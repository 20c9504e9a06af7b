---------------------------- MODULE StartupProofs ----------------------------
(***************************************************************************)
(* Theorems about Startup, for any set of instances of any versions.       *)
(***************************************************************************)
EXTENDS Startup, TLAPS

\* What is known of an instance when scripts 1 to k are committed: only the
\* holder of the lock has changes of its own, and they are the scripts from
\* k + 1 to the one it looks at.
Own(i, k) == (k + 1) .. (at[i] - 1)

Stage(i, k) ==
    /\ i # lock => applied[i] = {} /\ noted[i] = {}
    /\ pc[i] \in Migrating => lock = i
    /\ pc[i] \in Migrating => noted[i] = Own(i, k)
    /\ pc[i] \in {"check", "apply"} => applied[i] = Own(i, k)
    /\ pc[i] = "record" => applied[i] = (k + 1) .. at[i]
    /\ pc[i] \in {"apply", "record"} => k < at[i] /\ at[i] <= Version[i]
    /\ pc[i] \in {"off", "connect", "lock"} => at[i] = 1
    /\ pc[i] = "serving" => Version[i] <= k

\* The committed scripts are those of a version, or none, and so are the
\* records.
Committed(k) ==
    /\ schema = 1 .. k /\ recorded = 1 .. k
    /\ k = 0 \/ \E i \in Instances : k <= Version[i]

Staged == \E k \in Nat : Committed(k) /\ \A i \in Instances : Stage(i, k)

IInv == TypeOK /\ Staged

-----------------------------------------------------------------------------
LEMMA InitStaged == Init => IInv
  <1> SUFFICES ASSUME Init PROVE IInv
    OBVIOUS
  <1> USE VersionAssumption, InstanceAssumption
  <1>0. PICK j \in Instances : \E k \in 0 .. Version[j] :
          schema = 1 .. k /\ recorded = 1 .. k
    BY DEF Init
  <1>1. PICK k \in 0 .. Version[j] : schema = 1 .. k /\ recorded = 1 .. k
    BY <1>0
  <1>2. k \in Nat /\ k <= Version[j] /\ Version[j] \in Nat
    OBVIOUS
  <1>3. schema \subseteq Scripts /\ recorded \subseteq Scripts
    BY <1>1, <1>2 DEF Scripts
  <1>4. TypeOK
    BY <1>3 DEF Init, TypeOK, Migrating
  <1>5. Committed(k)
    BY <1>1, <1>2 DEF Committed
  <1>6. ASSUME NEW i \in Instances PROVE Stage(i, k)
    BY DEF Init, Stage, Migrating
  <1> QED
    BY <1>2, <1>4, <1>5, <1>6 DEF IInv, Staged

\* A step of i that commits nothing: the lock may go from i to nobody or from
\* nobody to i, and the others keep what is theirs.
Apart(i) ==
    /\ UNCHANGED <<schema, recorded>>
    /\ \/ lock' = lock
       \/ lock = i /\ lock' = NoInstance
       \/ lock = NoInstance /\ lock' = i
    /\ \A j \in Instances \ {i} :
          /\ applied'[j] = applied[j] /\ noted'[j] = noted[j]
          /\ pc'[j] = pc[j] /\ at'[j] = at[j]

LEMMA StepKeeps ==
  ASSUME NEW i \in Instances, NEW k \in Nat,
         Committed(k), \A j \in Instances : Stage(j, k),
         TypeOK', Stage(i, k)', Apart(i)
  PROVE  IInv'
  <1>1. Committed(k)'
    BY DEF Committed, Apart
  <1>2. ASSUME NEW j \in Instances PROVE Stage(j, k)'
    <2>1. CASE j = i
      BY <2>1
    <2>2. CASE j # i
      BY <2>2, InstanceAssumption DEF Stage, Own, Migrating, Apart
    <2> QED
      BY <2>1, <2>2
  <1> QED
    BY <1>1, <1>2 DEF IInv, Staged

LEMMA NextStaged == IInv /\ [Next]_vars => IInv'
  <1> SUFFICES ASSUME IInv, [Next]_vars PROVE IInv'
    OBVIOUS
  <1> USE VersionAssumption, InstanceAssumption
  <1>1. CASE UNCHANGED vars
    <2>1. TypeOK'
      BY <1>1 DEF IInv, TypeOK, vars, database, transactions
    <2>2. PICK k \in Nat : Committed(k) /\ \A i \in Instances : Stage(i, k)
      BY DEF IInv, Staged
    <2>3. Committed(k)' /\ \A i \in Instances : Stage(i, k)'
      BY <1>1, <2>2 DEF Committed, Stage, Own, vars, database, transactions
    <2> QED
      BY <2>1, <2>3 DEF IInv, Staged
  <1>2. CASE Next
    <2>1. PICK i \in Instances :
            \/ StartRefused(i) \/ Start(i) \/ Begin(i)
            \/ Migrate(i)
            \/ Fails(i) \/ End(i) \/ SessionEnds(i)
      BY <1>2 DEF Next
    <2>2. PICK k \in Nat : Committed(k) /\ \A j \in Instances : Stage(j, k)
      BY DEF IInv, Staged
    <2> DEFINE V == Version[i]
    <2>t. TypeOK /\ V \in Nat \ {0} /\ Stage(i, k) /\ 1 .. V \subseteq Scripts
      BY <2>2 DEF IInv, Scripts
    <2>3. CASE StartRefused(i)
      <3>1. TypeOK' /\ Stage(i, k)'
        BY <2>3, <2>t DEF StartRefused, Goto, TypeOK, Stage, Own, Migrating,
                          database, transactions
      <3>a. Apart(i)
        BY <2>3, <2>t
           DEF StartRefused, Goto, TypeOK, database, transactions, Apart
      <3> QED
        BY <2>2, <3>1, <3>a, StepKeeps
    <2>4. CASE Start(i)
      <3>1. TypeOK' /\ Stage(i, k)'
        BY <2>4, <2>t DEF Start, Goto, TypeOK, Stage, Own, Migrating,
                          database, transactions
      <3>a. Apart(i)
        BY <2>4, <2>t
           DEF Start, Goto, TypeOK, database, transactions, Apart
      <3> QED
        BY <2>2, <3>1, <3>a, StepKeeps
    <2>5. CASE Begin(i)
      <3>1. TypeOK' /\ Stage(i, k)'
        BY <2>5, <2>t DEF Begin, Goto, TypeOK, Stage, Own, Migrating, database
      <3>a. Apart(i)
        BY <2>5, <2>t
           DEF Begin, Goto, TypeOK, database, Apart
      <3> QED
        BY <2>2, <3>1, <3>a, StepKeeps
    <2>6. CASE Lock(i)
      <3>1. TypeOK'
        BY <2>6, <2>t DEF Lock, Goto, TypeOK, Migrating, database
      <3>2. applied[i] = {} /\ noted[i] = {} /\ at[i] = 1
        BY <2>6, <2>t DEF Lock, Stage
      <3>3. (k + 1) .. (1 - 1) = {}
        OBVIOUS
      <3>4. pc'[i] = "check" /\ lock' = i /\ at' = at /\ applied' = applied
            /\ noted' = noted
        BY <2>6, <2>t DEF Lock, Goto, TypeOK
      <3>5. Stage(i, k)'
        BY <3>2, <3>3, <3>4 DEF Stage, Own, Migrating
      <3>a. Apart(i)
        BY <2>6, <2>t
           DEF Lock, Goto, TypeOK, database, Apart
      <3> QED
        BY <2>2, <3>1, <3>5, <3>a, StepKeeps
    <2>7. CASE Skip(i)
      <3>1. TypeOK'
        BY <2>7, <2>t DEF Skip, TypeOK, database, transactions
      <3>2. lock = i /\ noted[i] = Own(i, k) /\ applied[i] = Own(i, k)
        BY <2>7, <2>t DEF Skip, Stage, Migrating
      <3>3. at[i] \in 1 .. k
        BY <2>2, <2>7, <2>t, <3>2 DEF Skip, Seen, Committed, Own, TypeOK
      <3>4. (k + 1) .. (at[i] - 1) = (k + 1) .. at[i]
        BY <3>3
      <3>5. at'[i] = at[i] + 1 /\ at[i] + 1 - 1 = at[i]
        BY <2>7, <2>t, <3>3 DEF Skip, TypeOK
      <3>6. Stage(i, k)'
        BY <2>7, <3>2, <3>4, <3>5
           DEF Skip, Stage, Own, Migrating, transactions
      <3>a. Apart(i)
        BY <2>7, <2>t
           DEF Skip, TypeOK, database, transactions, Apart
      <3> QED
        BY <2>2, <3>1, <3>6, <3>a, StepKeeps
    <2>8. CASE Check(i)
      <3>1. TypeOK'
        BY <2>8, <2>t DEF Check, Goto, TypeOK, Migrating, database, transactions
      <3>2. k < at[i]
        BY <2>2, <2>8, <2>t DEF Check, Seen, Committed, TypeOK
      <3>3. Stage(i, k)'
        BY <2>8, <2>t, <3>2
           DEF Check, Goto, TypeOK, Stage, Own, Migrating, transactions
      <3>a. Apart(i)
        BY <2>8, <2>t
           DEF Check, Goto, TypeOK, database, transactions, Apart
      <3> QED
        BY <2>2, <3>1, <3>3, <3>a, StepKeeps
    <2>9. CASE Apply(i)
      <3>1. k < at[i] /\ at[i] \in 1 .. V /\ lock = i
        BY <2>9, <2>t DEF Apply, Stage, Migrating, TypeOK
      <3>2. TypeOK'
        BY <2>9, <2>t, <3>1 DEF Apply, Goto, TypeOK, Migrating, database
      <3>3. Own(i, k) \cup {at[i]} = (k + 1) .. at[i]
        BY <3>1 DEF Own
      <3>4. Stage(i, k)'
        BY <2>9, <2>t, <3>1, <3>3
           DEF Apply, Goto, TypeOK, Stage, Own, Migrating
      <3>a. Apart(i)
        BY <2>9, <2>t
           DEF Apply, Goto, TypeOK, database, Apart
      <3> QED
        BY <2>2, <3>2, <3>4, <3>a, StepKeeps
    <2>10. CASE Record(i)
      <3>1. k < at[i] /\ at[i] \in 1 .. V /\ lock = i
        BY <2>10, <2>t DEF Record, Stage, Migrating, TypeOK
      <3>2. TypeOK'
        BY <2>10, <2>t, <3>1 DEF Record, Goto, TypeOK, Migrating, database
      <3>3. Own(i, k) \cup {at[i]} = (k + 1) .. at[i] /\ at[i] + 1 - 1 = at[i]
        BY <3>1 DEF Own
      <3>4. Stage(i, k)'
        BY <2>10, <2>t, <3>1, <3>3
           DEF Record, Goto, TypeOK, Stage, Own, Migrating
      <3>a. Apart(i)
        BY <2>10, <2>t
           DEF Record, Goto, TypeOK, database, Apart
      <3> QED
        BY <2>2, <3>2, <3>4, <3>a, StepKeeps
    <2>11. CASE Commit(i)
      <3> DEFINE m == IF k < V THEN V ELSE k
      <3>1. lock = i /\ noted[i] = (k + 1) .. V /\ applied[i] = (k + 1) .. V
        BY <2>11, <2>t DEF Commit, Stage, Own, Migrating, TypeOK
      <3>2. m \in Nat /\ V <= m /\ (1 .. k) \cup ((k + 1) .. V) = 1 .. m
        BY <2>t
      <3>3. schema' = 1 .. m /\ recorded' = 1 .. m
        BY <2>2, <2>11, <3>1, <3>2 DEF Commit, Committed
      <3>4. Committed(m)'
        BY <2>2, <2>t, <3>2, <3>3 DEF Committed
      <3>5. TypeOK'
        BY <2>11, <2>t DEF Commit, Rollback, Forget, Unlock, Goto, TypeOK, Migrating
      <3>6. ASSUME NEW j \in Instances PROVE Stage(j, m)'
        <4>1. CASE j = i
          BY <2>11, <2>t, <3>1, <3>2, <4>1
             DEF Commit, Rollback, Forget, Unlock, Goto, TypeOK, Stage, Migrating
        <4>2. CASE j # i
          <5>1. Stage(j, k) /\ pc[j] \notin Migrating
                /\ applied[j] = {} /\ noted[j] = {}
            BY <2>2, <3>1, <4>2 DEF Stage
          <5>2. pc'[j] = pc[j] /\ at'[j] = at[j] /\ applied'[j] = {}
                /\ noted'[j] = {}
            BY <2>11, <2>t, <4>2, <5>1
               DEF Commit, Rollback, Forget, Goto, TypeOK
          <5>3. pc[j] = "serving" => Version[j] <= m
            BY <2>t, <3>2, <5>1 DEF Stage
          <5> QED
            BY <5>1, <5>2, <5>3 DEF Stage, Migrating
        <4> QED
          BY <4>1, <4>2
      <3> QED
        BY <3>2, <3>4, <3>5, <3>6 DEF IInv, Staged
    <2>12. CASE Fails(i)
      <3>1. TypeOK'
        BY <2>12, <2>t DEF Fails, Rollback, Forget, Unlock, Goto, TypeOK, Migrating,
                           database
      <3>2. /\ applied'[i] = {} /\ noted'[i] = {} /\ pc'[i] = "exited"
            /\ \/ lock' = lock
               \/ lock = i /\ lock' = NoInstance
        BY <2>12, <2>t DEF Fails, Rollback, Forget, Unlock, Goto, TypeOK
      <3>3. Stage(i, k)'
        BY <3>2 DEF Stage, Migrating
      <3>a. Apart(i)
        BY <2>12, <2>t, <3>2
           DEF Fails, Rollback, Forget, Unlock, Goto, TypeOK, database, Apart
      <3> QED
        BY <2>2, <3>1, <3>3, <3>a, StepKeeps
    <2>13. CASE End(i)
      <3>1. TypeOK' /\ Stage(i, k)'
        BY <2>13, <2>t DEF End, Goto, TypeOK, Stage, Own, Migrating,
                           database, transactions
      <3>a. Apart(i)
        BY <2>13, <2>t
           DEF End, Goto, TypeOK, database, transactions, Apart
      <3> QED
        BY <2>2, <3>1, <3>a, StepKeeps
    <2>14. CASE SessionEnds(i)
      <3>1. TypeOK'
        BY <2>14, <2>t DEF SessionEnds, Rollback, Forget, Unlock, TypeOK, Migrating,
                           database
      <3>2. /\ applied'[i] = {} /\ noted'[i] = {} /\ pc'[i] = "exited"
            /\ \/ lock' = lock
               \/ lock = i /\ lock' = NoInstance
        BY <2>14, <2>t DEF SessionEnds, Rollback, Forget, Unlock, TypeOK
      <3>3. Stage(i, k)'
        BY <3>2 DEF Stage, Migrating
      <3>a. Apart(i)
        BY <2>14, <2>t, <3>2
           DEF SessionEnds, Rollback, Forget, Unlock, TypeOK, database, Apart
      <3> QED
        BY <2>2, <3>1, <3>3, <3>a, StepKeeps
    <2> QED
      BY <2>1, <2>3, <2>4, <2>5, <2>6, <2>7, <2>8, <2>9, <2>10, <2>11, <2>12,
         <2>13, <2>14 DEF Migrate
  <1> QED
    BY <1>1, <1>2 DEF Next

LEMMA StagedAlways == Spec => []IInv
  BY InitStaged, NextStaged, PTL DEF Spec

-----------------------------------------------------------------------------
\* Every variable keeps its type: in particular no instance looks beyond the
\* script after its last (Migrate's loop).
THEOREM StartTyped == Spec => []TypeOK
  <1>1. IInv => TypeOK
    BY DEF IInv
  <1> QED
    BY <1>1, StagedAlways, PTL

\* Under the advisory lock of Migrate, a script is applied only on all before
\* it and never again, whatever instances of whatever versions start.
THEOREM ScriptsInOrder == Spec => []ScriptsFit
  <1>1. IInv => ScriptsFit
    <2> SUFFICES ASSUME IInv, NEW i \in Instances, pc[i] = "apply"
                 PROVE  /\ 1 .. at[i] - 1 \subseteq schema \cup applied[i]
                        /\ at[i] \notin schema \cup applied[i]
      BY DEF ScriptsFit
    <2>1. PICK k \in Nat : Committed(k) /\ Stage(i, k)
      BY DEF IInv, Staged
    <2>2. schema = 1 .. k /\ applied[i] = (k + 1) .. (at[i] - 1) /\ k < at[i]
      BY <2>1 DEF Committed, Stage, Own
    <2>3. at[i] \in Nat
      BY DEF IInv, TypeOK
    <2> QED
      BY <2>2, <2>3
  <1> QED
    BY <1>1, StagedAlways, PTL

\* The transaction of Migrate commits a whole version with its records, or
\* nothing, however instances fail, die or are cut off.
THEOREM WholeVersions == Spec => AllOrNothing
  <1> DEFINE Whole == /\ schema' = recorded'
                      /\ schema' # schema =>
                           \E i \in Instances : schema' = 1 .. Version[i]
  <1>1. IInv /\ IInv' /\ [Next]_vars => Whole
    <2> SUFFICES ASSUME IInv, IInv', Next, schema' # schema
                 PROVE  \E i \in Instances : schema' = 1 .. Version[i]
      BY DEF IInv, Staged, Committed, vars, database
    <2>1. PICK i \in Instances : Commit(i)
      BY DEF Next, Migrate, StartRefused, Start, Begin, Lock, Skip, Check,
             Apply, Record, Fails, End, SessionEnds, database
    <2>2. PICK k \in Nat : Committed(k) /\ Stage(i, k)
      BY DEF IInv, Staged
    <2>3. Version[i] \in Nat /\ at[i] = Version[i] + 1
      BY <2>1, VersionAssumption DEF IInv, TypeOK, Commit
    <2>4. schema' = (1 .. k) \cup ((k + 1) .. Version[i])
      BY <2>1, <2>2, <2>3 DEF Commit, Committed, Stage, Own
    <2>5. k < Version[i]
      BY <2>2, <2>3, <2>4 DEF Committed
    <2> QED
      BY <2>3, <2>4, <2>5
  <1> QED
    BY <1>1, StagedAlways, PTL DEF Spec, AllOrNothing

\* main listens only after Migrate returned without an error, and then all
\* scripts of its version are committed, and stay so.
THEOREM MigratedServes == Spec => []ServesMigrated
  <1>1. IInv => ServesMigrated
    <2> SUFFICES ASSUME IInv, NEW i \in Instances, pc[i] = "serving"
                 PROVE  1 .. Version[i] \subseteq schema
      BY DEF ServesMigrated
    <2>1. PICK k \in Nat : Committed(k) /\ Stage(i, k)
      BY DEF IInv, Staged
    <2> QED
      BY <2>1, VersionAssumption DEF Committed, Stage
  <1> QED
    BY <1>1, StagedAlways, PTL

=============================================================================
